------------------------------- MODULE Cleanup -------------------------------
(***************************************************************************)
(* Revocation of a source and the paged cleanup of everything derived from *)
(* it (evo-storage lifecycle.rs, revocation.rs; the gate of writers in     *)
(* evo-engine revocation_gate.rs).                                         *)
(*                                                                         *)
(* begin_revoke commits a tombstone and a job; cleanup_step, called by     *)
(* Admins and Workers, expands a bounded part of the job's frontier in one *)
(* transaction.  Between two steps writers add objects, dependency edges   *)
(* and budget calls, exports are published and other jobs run.  The store  *)
(* owns one connection, so a step is one action; directories on disk are   *)
(* not part of its transaction and outlive a rollback.                     *)
(*                                                                         *)
(* Nodes are positive integers: their order is the key order               *)
(* (src_kind, src_id) in which dependents are paged.                       *)
(***************************************************************************)
EXTENDS Integers, FiniteSets

CONSTANTS
    Nodes,          \* objects, by key
    Sources,        \* the revocable ones
    Class,          \* [Nodes -> Classes]: what the schema of the object makes it
    Upstream,       \* [Nodes -> SUBSET Nodes]: what an object is derived from
    Historical,     \* objects in the store from the start, reports of tickets among them
    Ungated,        \* objects whose writer does not judge its sources again
    Calls,          \* budget calls, by key
    Mode,           \* [Calls -> {"legacy", "e16"}]
    Named,          \* [Calls -> SUBSET Nodes]: the sources a request names
    RefOf,          \* [Calls -> Nodes]: the reference object of a call
    Undeclared,     \* calls reserved without declaring the sources they name
    Unindexed,      \* calls whose reference was stored without its edges
    Damaged,        \* calls whose reference cannot be read
    ReportOf,       \* [Nodes -> Nodes \cup {0}]: report of an old formal ticket
    Limits          \* edge_page_limit values callers pass

Classes == {"run", "content", "fact", "unknown", "world", "export", "trace", "ref"}

ASSUME CleanupShape ==
    /\ Nodes \subseteq Nat \ {0} /\ IsFiniteSet(Nodes) /\ Sources \subseteq Nodes
    /\ Historical \subseteq Nodes
    /\ Class \in [Nodes -> Classes]
    /\ Upstream \in [Nodes -> SUBSET Nodes]
    /\ Calls \subseteq Nat \ {0} /\ IsFiniteSet(Calls)
    /\ Mode \in [Calls -> {"legacy", "e16"}]
    /\ Named \in [Calls -> SUBSET Nodes]
    /\ RefOf \in [Calls -> Nodes]
    /\ ReportOf \in [Nodes -> Nodes \cup {0}]
    /\ Limits \subseteq 1..128

\* What the writers make of the graph.  Sources are runs and imports, which no
\* writer gives an edge.  A reference belongs to one call, is no one's upstream and
\* no report.  A world is made of runs, and its writer judges them.  Old tickets are
\* preserved facts, their reports historical.  Only a legacy call can go undeclared;
\* it names runs, and its reference is stored with its edges.
ASSUME CleanupGraph ==
    /\ \A s \in Sources : Upstream[s] = {} /\ Class[s] \notin {"world", "ref"}
    /\ \A n \in Historical : Upstream[n] \subseteq Sources \cup Historical
    /\ \A n \in Nodes : Class[n] = "ref" => /\ n \notin Historical
                                            /\ \A m \in Nodes : n \notin Upstream[m]
    /\ \A n \in Nodes : Class[n] = "world" => Upstream[n] \subseteq Sources /\ n \notin Ungated
    /\ \A n \in Nodes : ReportOf[n] # 0 => ReportOf[n] \in Historical \ Sources /\ Class[n] = "fact"
    /\ \A c \in Calls : /\ Class[RefOf[c]] = "ref" /\ Upstream[RefOf[c]] = {}
                        /\ \A d \in Calls : RefOf[c] = RefOf[d] => c = d
                        /\ \A n \in Named[c] : Class[n] # "ref"
    /\ \A c \in Calls : IF Mode[c] = "e16" THEN c \notin Undeclared
                        ELSE Named[c] \subseteq Sources /\ c \notin Unindexed

VARIABLES
    db,             \* objects, dependencies, budget calls, replies
    disk,           \* published export directories
    job             \* revoke_cleanup_jobs and revoke_cleanup_frontier, per source

vars == <<db, disk, job>>

-----------------------------------------------------------------------------
(* State.                                                                  *)

BudgetScan == -1
WorldScan == -2
TicketScan == -3
RowKeys == Nodes \cup {BudgetScan, WorldScan, TicketScan}

\* A row of the frontier, by its node: its seq, its cursor, and whether the last
\* page has been read.
Row == [at : Nat, cursor : Nat, expanded : BOOLEAN]
NewRow(at) == [at |-> at, cursor |-> 0, expanded |-> FALSE]

JobStates == {"none", "pending", "running", "failed", "complete"}
NoRows == [n \in {} |-> NewRow(0)]

JobOK(j) ==
    /\ j.state \in JobStates
    /\ DOMAIN j.rows \subseteq RowKeys
    /\ \A n \in DOMAIN j.rows : j.rows[n] \in Row

\* An object is stored with its content, or redacted (a source run: deleted); a
\* call keeps its request or has been redacted; its reference is there, lost or
\* not to be trusted.
Database == [content : SUBSET Nodes, redacted : SUBSET Nodes,
             deps : SUBSET (Nodes \X Nodes),
             reply : SUBSET Nodes, tombstone : SUBSET Sources,
             calls : SUBSET Calls, requests : SUBSET Calls,
             bound : SUBSET Calls, unreadable : SUBSET Calls]

Trees == {"none", "published", "linked"}

CleanupTypeOK ==
    /\ db \in Database
    /\ db.content \cap db.redacted = {}
    /\ db.requests \subseteq db.calls
    /\ disk \in [Nodes -> Trees]
    /\ DOMAIN job = Sources
    /\ \A s \in Sources : JobOK(job[s])

EdgesOf(n) == {n} \X Upstream[n]

\* Reports stored under their ticket's logical id, without an edge, are all
\* historical: today's writers store the edge.
Init ==
    /\ db = [content |-> Sources \cup Historical, redacted |-> {},
             deps |-> UNION {EdgesOf(n) : n \in Historical},
             reply |-> Historical, tombstone |-> {},
             calls |-> {}, requests |-> {}, bound |-> {}, unreadable |-> {}]
    /\ disk = [n \in Nodes |-> "none"]
    /\ job = [s \in Sources |-> [state |-> "none", rows |-> NoRows]]

-----------------------------------------------------------------------------
(* The gate of writers: revocation_upstream over the complete closure.     *)

Stored(n) == n \in db.content \cup db.redacted

\* f applied to the value of x, which is evaluated once.
Pass(f(_), x) == CHOOSE y \in {f(v) : v \in {x}} : TRUE

\* What the nodes of N depend on, directly or not, with N itself.
Closure(N, edges) ==
    LET Wider(M) == M \cup {e[2] : e \in {d \in edges : d[1] \in M}}
        up[i \in 0..Cardinality(Nodes)] == IF i = 0 THEN N ELSE Pass(Wider, up[i - 1])
    IN up[Cardinality(Nodes)]

\* judge: a tombstone of the node, or a body the cleanup has redacted.
judge_direct(n) == n \in db.redacted
judge(n) == n \in db.tombstone \cup db.redacted

Live(N) == \A n \in Closure(N, db.deps) : ~judge(n)

\* A writer stores an object and the edges to what it is derived from.  The
\* draft of a world has no edges yet.
put_object(n) ==
    /\ ~Stored(n)
    /\ n \notin {RefOf[c] : c \in Calls}
    /\ \A u \in Upstream[n] : Stored(u)
    /\ n \in Ungated \/ Live(Upstream[n])
    /\ db' = [db EXCEPT !.content = @ \cup {n},
                        !.deps = IF Class[n] = "world" THEN @ ELSE @ \cup EdgesOf(n),
                        !.reply = @ \cup {n}]
    /\ UNCHANGED <<disk, job>>

seal_replay_world(n) ==
    /\ Class[n] = "world" /\ n \in db.content
    /\ ~ (EdgesOf(n) \subseteq db.deps)
    /\ Live(Upstream[n])
    /\ db' = [db EXCEPT !.deps = @ \cup EdgesOf(n)]
    /\ UNCHANGED <<disk, job>>

IndexEdges(c) == {RefOf[c]} \X Named[c]

\* A reservation without declared sources writes no reference and is not
\* judged, whatever its request body names.
reserve_call(c) ==
    /\ c \notin db.calls
    /\ \A u \in Named[c] : Stored(u)
    /\ c \in Undeclared \/ Live(Named[c])
    /\ db' = [db EXCEPT
          !.calls = @ \cup {c},
          !.requests = @ \cup {c},
          !.bound = IF c \in Undeclared THEN @ ELSE @ \cup {c},
          !.unreadable = IF c \in Damaged THEN @ \cup {c} ELSE @,
          !.content = IF c \in Undeclared THEN @ ELSE @ \cup {RefOf[c]},
          !.deps = IF c \in Undeclared \cup Unindexed THEN @ ELSE @ \cup IndexEdges(c)]
    /\ UNCHANGED <<disk, job>>

\* An operator puts an unreadable reference right.
repair_binding(c) ==
    /\ c \in db.unreadable
    /\ db' = [db EXCEPT !.unreadable = @ \ {c}]
    /\ UNCHANGED <<disk, job>>

\* publish_registered_local_export, publish_staged_trace_export: the record and
\* its closure are judged in the session that renames the tree.
publish_export(n) ==
    /\ Class[n] \in {"export", "trace"} /\ n \in db.content
    /\ disk[n] = "none"
    /\ Live({n})
    /\ disk' = [disk EXCEPT ![n] = "published"]
    /\ UNCHANGED <<db, job>>

\* A published directory is moved behind a link, and back.
relink_export(n) ==
    /\ disk[n] # "none"
    /\ disk' = [disk EXCEPT ![n] = IF @ = "published" THEN "linked" ELSE "published"]
    /\ UNCHANGED <<db, job>>

-----------------------------------------------------------------------------
begin_revoke(s) ==
    /\ s \notin db.tombstone
    /\ Stored(s)
    /\ db' = [db EXCEPT !.tombstone = @ \cup {s}]
    /\ job' = [job EXCEPT ![s] = [state |-> "pending",
          rows |-> [n \in {BudgetScan, WorldScan, s} |->
                       NewRow(IF n = BudgetScan THEN 1 ELSE IF n = WorldScan THEN 2 ELSE 3)]]]
    /\ UNCHANGED disk

-----------------------------------------------------------------------------
(* One transaction of a job: t holds the database, the disk and the job as *)
(* the transaction has made them so far.                                   *)

Tx(s) == [db |-> db, disk |-> disk, state |-> job[s].state, rows |-> job[s].rows]

Held(t) == DOMAIN t.rows
SetRow(t, n, cursor, expanded) ==
    LET row == [t.rows[n] EXCEPT !.cursor = cursor, !.expanded = expanded]
    IN [t EXCEPT !.rows = [@ EXCEPT ![n] = row]]

\* INSERT OR IGNORE of the nodes N, in key order.
Queue(t, N) ==
    LET new == N \ Held(t)
        seq(n) == Cardinality(Held(t)) + Cardinality({m \in new : m <= n})
    IN IF new = {} THEN t
       ELSE [t EXCEPT !.rows = [n \in Held(t) \cup new |-> IF n \in new THEN NewRow(seq(n)) ELSE t.rows[n]]]

\* mark_unknown_scope
Fail(t) == [t EXCEPT !.state = "failed"]

\* The first `limit` keys of K above the cursor, and whether there are more.
After(K, cursor) == {k \in K : k > cursor}
Page(K, cursor, limit) ==
    LET rest == After(K, cursor) IN {k \in rest : Cardinality({m \in rest : m <= k}) <= limit}
HasMore(K, cursor, limit) == Cardinality(After(K, cursor)) > limit
LastOf(K) == CHOOSE k \in K : \A m \in K : m <= k

AdvanceNowhere(t, n, K, limit) ==
    LET cursor == t.rows[n].cursor IN SetRow(t, n, cursor, ~HasMore(K, cursor, limit))

\* The row n after a page over the keys K: its cursor moves on, or the row is
\* expanded.
Advance(t, n, K, limit) ==
    LET cursor == t.rows[n].cursor IN
    IF HasMore(K, cursor, limit)
    THEN SetRow(t, n, LastOf(Page(K, cursor, limit)), FALSE)
    ELSE SetRow(t, n, cursor, TRUE)

Redact(t, n) == [t EXCEPT !.db.content = @ \ {n}, !.db.redacted = @ \cup {n}]

\* remove_controlled_local_export: a link in the way fails the job.
RemoveTree(t, n) ==
    IF t.disk[n] = "linked" THEN Fail(t) ELSE [t EXCEPT !.disk[n] = "none"]

\* The directory of a redacted trace export is not looked for again.
CleanTraceExport(t, n) ==
    IF n \in t.db.content THEN Redact(RemoveTree(t, n), n) ELSE t

\* That of a package export is.
CleanExport(t, n) == Redact(RemoveTree(t, n), n)

\* The reference of an E16 call leads to the call; a legacy one is preserved.
CleanRef(t, n) ==
    LET C == {c \in Calls : RefOf[c] = n /\ Mode[c] = "e16"} IN
    IF C \cap t.db.unreadable # {} THEN Fail(t)
    ELSE [t EXCEPT !.db.requests = @ \ C]

cleanup_node_content(t, n) ==
    IF n \notin t.db.content \cup t.db.redacted THEN t
    ELSE CASE Class[n] = "fact"                             -> t
           [] Class[n] = "ref"                              -> CleanRef(t, n)
           [] Class[n] = "export"                           -> CleanExport(t, n)
           [] Class[n] = "trace"                            -> CleanTraceExport(t, n)
           [] Class[n] = "unknown" /\ n \in t.db.content    -> Fail(t)
           [] OTHER                                         -> Redact(t, n)

Neighbours(t, n) == {e[1] : e \in {d \in t.db.deps : d[2] = n}} \cup {e[2] : e \in {d \in t.db.deps : d[1] = n}}

Dependents(t, n) == {e[1] : e \in {d \in t.db.deps : d[2] = n}}

\* Replies of the node are redacted with its last page, whatever its class.
CleanedNode(t, n) ==
    IF t.rows[n].expanded THEN cleanup_node_content([t EXCEPT !.db.reply = @ \ {n}], n) ELSE t

expand_node(t, n, limit) ==
    LET K == Dependents(t, n)
        Read(u) == Advance(u, n, K, limit)
        Cleaned(u) == CleanedNode(u, n)
    IN Pass(Cleaned, Pass(Read, Queue(t, Page(K, t.rows[n].cursor, limit))))

\* Drafts hold source content without an edge: the scan writes the edge.
expand_world_scan(t, s, limit) ==
    LET K == {n \in t.db.content \cup t.db.redacted : Class[n] = "world"}
        hits == {n \in Page(K, t.rows[WorldScan].cursor, limit) :
                    n \in t.db.content /\ s \in Upstream[n]}
        Read(u) == Advance(u, WorldScan, K, limit)
    IN Pass(Read, Queue([t EXCEPT !.db.deps = @ \cup (hits \X {s})], hits))

-----------------------------------------------------------------------------
(* Budget calls.                                                           *)

\* A legacy call that has been redacted is skipped, an E16 call is not.
Judged(t, c) == Mode[c] = "e16" \/ c \in t.db.requests

Isolated(t, c) == Judged(t, c) /\ c \in t.db.unreadable

\* The call belongs to the job: its closure names the source or, in the E16
\* mode, its reference is in the frontier.
Matches(t, s, c) ==
    /\ Judged(t, c) /\ ~Isolated(t, c)
    /\ s \in Named[c] \/ (Mode[c] = "e16" /\ RefOf[c] \in Held(t))

\* The calls of C are judged: those that match are indexed, redacted and their
\* reference queued; the index of an E16 call is repaired either way.
ScanCalls(t, s, C) ==
    LET hits == {c \in C : Matches(t, s, c)}
        refs == {RefOf[c] : c \in hits}
        indexed == hits \cup {c \in C : Mode[c] = "e16" /\ ~Isolated(t, c)}
        u == [t EXCEPT !.db.deps = @ \cup UNION {IndexEdges(c) : c \in indexed},
                       !.db.content = @ \cup refs,
                       !.db.bound = @ \cup hits,
                       !.db.requests = @ \ hits,
                       !.state = IF \E c \in C : Isolated(t, c) THEN "failed" ELSE @]
    IN Queue(u, refs)

expand_budget_scan(t, s, limit) ==
    LET page == Page(t.db.calls, t.rows[BudgetScan].cursor, limit)
        Read(u) == Advance(u, BudgetScan, t.db.calls, limit)
    IN Pass(Read, ScanCalls(t, s, page))

-----------------------------------------------------------------------------
(* The rest of a step.                                                     *)

Pending(t) == {n \in Held(t) \ {TicketScan} : ~t.rows[n].expanded}

FirstPending(t) == CHOOSE n \in Pending(t) : \A m \in Pending(t) : t.rows[n].at <= t.rows[m].at

expand_frontier(t, s, limit) ==
    IF Pending(t) = {} THEN t
    ELSE LET n == FirstPending(t) IN
         CASE n = BudgetScan -> expand_budget_scan(t, s, limit)
           [] n = WorldScan  -> expand_world_scan(t, s, limit)
           [] OTHER          -> expand_node(t, n, limit)

Expansions(t, s, limit) ==
    LET Expand(u) == expand_frontier(u, s, limit)
        after[i \in 0..limit] == IF i = 0 THEN t ELSE Pass(Expand, after[i - 1])
    IN after[limit]

\* catch_up_old_formal_cleanup: a page over the artifacts of the frontier, by
\* seq; a ticket leads to the report stored under the same logical id.
Artifacts(t) == {n \in Held(t) \cap Nodes : Class[n] \notin {"run", "world"}}

ReportsOf(t, tickets) ==
    {ReportOf[n] : n \in {m \in tickets \cap t.db.content :
                            ReportOf[m] \in t.db.content \cup t.db.redacted}}

catch_up_old_formal_cleanup(t, limit) ==
    IF t.state # "running" THEN t
    ELSE LET u == Queue(t, {TicketScan})
             seqs == {u.rows[n].at : n \in Artifacts(u)}
             cursor == u.rows[TicketScan].cursor
             page == Page(seqs, cursor, limit)
             tickets == {n \in Artifacts(u) : u.rows[n].at \in page}
         IN SetRow(Queue(u, ReportsOf(u, tickets)), TicketScan,
                   IF page = {} THEN cursor ELSE LastOf(page),
                   ~HasMore(seqs, cursor, limit))

CaughtUp(t) == t.state = "running" => t.rows[TicketScan].expanded

\* queue_late_dependents: dependents of expanded nodes that the frontier lacks.
LateDependents(t) ==
    (UNION {Dependents(t, n) : n \in {m \in Held(t) : t.rows[m].expanded}}) \ Held(t)

\* redact_late_budget_calls: the calls on which a scan makes progress, of which
\* a step takes `limit`.
CountsAsProgress(t, s, c) ==
    \/ Mode[c] = "e16" /\ (Isolated(t, c) \/ ~ (IndexEdges(c) \subseteq t.db.deps))
    \/ Matches(t, s, c) /\ (c \in t.db.requests \/ RefOf[c] \notin Held(t))

LateCalls(t, s, limit) ==
    LET counted == {c \in t.db.calls : CountsAsProgress(t, s, c)}
    IN IF Cardinality(counted) >= limit
       THEN {c \in t.db.calls : c <= LastOf(Page(counted, 0, limit))}
       ELSE t.db.calls

CallsOpen(t, s, C) == \E c \in C : CountsAsProgress(t, s, c) \/ Isolated(t, c)

Complete(t) == [t EXCEPT !.state = "complete"]

\* The end of a step whose queue is empty: closure_is_open, or completion.
Recheck(t, s, limit) ==
    IF t.state # "running" \/ Pending(t) # {} \/ ~CaughtUp(t) THEN t
    ELSE IF LateDependents(t) # {}
         THEN Queue(t, Page(LateDependents(t), 0, limit))
    ELSE LET C == LateCalls(t, s, limit) IN
         IF CallsOpen(t, s, C) THEN ScanCalls(t, s, C) ELSE Complete(t)

Running(t) == [t EXCEPT !.state = IF @ = "pending" THEN "running" ELSE @]

\* prepare_failed_cleanup_retry: an Admin's retry reads the whole frontier again.
Started(t, role) ==
    IF t.state = "failed" /\ role = "Admin"
    THEN [t EXCEPT !.state = "running", !.rows = [n \in DOMAIN @ |-> NewRow(@[n].at)]]
    ELSE Running(t)

Stepped(s, role, limit) ==
    LET Expanded(t) == Expansions(t, s, limit)
        Joined(t) == catch_up_old_formal_cleanup(t, limit)
        Closed(t) == Recheck(t, s, limit)
    IN Pass(Closed, Pass(Joined, Pass(Expanded, Started(Tx(s), role))))

\* A step of a job that is complete only reads.
cleanup_step(s, role, limit) ==
    /\ job[s].state \notin {"none", "complete"}
    /\ \E t \in {Stepped(s, role, limit)} :
       /\ db' = t.db
       /\ disk' = t.disk
       /\ job' = [job EXCEPT ![s] = [state |-> t.state, rows |-> t.rows]]

\* The process dies, or a statement fails, before the commit: what the step had
\* removed from disk stays removed.
cleanup_step_lost(s, role, limit) ==
    /\ job[s].state \notin {"none", "complete"}
    /\ disk' = Stepped(s, role, limit).disk
    /\ disk' # disk
    /\ UNCHANGED <<db, job>>

-----------------------------------------------------------------------------
Roles == {"Admin", "Worker"}

StepAs(s, role) == \E limit \in Limits : cleanup_step(s, role, limit)

Next ==
    \/ \E n \in Nodes : put_object(n) \/ seal_replay_world(n) \/ publish_export(n) \/ relink_export(n)
    \/ \E c \in Calls : reserve_call(c) \/ repair_binding(c)
    \/ \E s \in Sources :
          \/ begin_revoke(s)
          \/ \E role \in Roles : StepAs(s, role)
          \/ \E role \in Roles, limit \in Limits : cleanup_step_lost(s, role, limit)

Spec == Init /\ [][Next]_vars

-----------------------------------------------------------------------------
(* Properties.                                                             *)

\* Everything derived from source s: by dependency edges, through the report of
\* an old ticket, through a world or a call that names s without an edge.
Edges == db.deps
    \cup {<<ReportOf[n], n>> : n \in {m \in db.content : ReportOf[m] # 0 /\ Stored(ReportOf[m])}}
    \cup (UNION {EdgesOf(n) : n \in {m \in db.content : Class[m] = "world"}})
    \cup (UNION {IndexEdges(c) : c \in db.calls})

Derived(s) == Closure({s}, {<<e[2], e[1]>> : e \in Edges})

DerivedCalls(s) == {c \in Calls : s \in Named[c] \/ (Mode[c] = "e16" /\ Named[c] \cap Derived(s) # {})}

\* Nothing of source s is left to read: no content, no stored reply, no request,
\* no export directory.
Clean(s) ==
    /\ \A n \in Derived(s) : /\ n \in db.content => Class[n] \in {"fact", "ref"}
                             /\ n \notin db.reply
                             /\ Class[n] = "export" => disk[n] = "none"
    /\ \A c \in DerivedCalls(s) : c \notin db.requests

\* A job reports Complete only in a step that leaves nothing of its source to
\* read, however late dependents, worlds and calls were written between its
\* steps, whatever other jobs and interrupted steps did, and although nodes are
\* read once through a forward cursor (cleanup_step, closure_is_open).
CompletesClean ==
    [][\A s \in Sources : job[s].state # "complete" /\ job'[s].state = "complete" => Clean(s)']_vars

\* Sources all of whose possible descendants have writers that judge them again.
\* The way from an old ticket to its report is not an edge, so that the gate does
\* not see it: sources with such a ticket are not among them.
Tickets == {n \in Nodes : ReportOf[n] # 0}

GatedSources ==
    {s \in Sources : /\ \A n \in Ungated \cup Tickets :
                            s \notin Closure({n}, UNION {EdgesOf(m) : m \in Nodes})
                     /\ \A c \in Undeclared : s \notin Named[c]}

\* With writers that judge their sources in the session that writes, a completed
\* cleanup stays complete: nothing derived from the source ever appears again
\* (revocation_gate, reservation and publication gates against the fixpoint).
StaysClean == \A s \in GatedSources : job[s].state = "complete" => Clean(s)

\* The cleanup takes away nothing it need not: content, replies, requests and
\* directories only disappear if they are derived from a revoked source.
OnlyDerivedIsCleaned ==
    [][LET reached == UNION {Derived(s) : s \in db.tombstone}
           calls == UNION {DerivedCalls(s) : s \in db.tombstone}
       IN /\ \A n \in Nodes :
                /\ n \in (db.content \ db'.content) \cup (db.reply \ db'.reply) => n \in reached
                /\ disk[n] # "none" /\ disk'[n] = "none" => n \in reached
          /\ db.requests \ db'.requests \subseteq calls]_vars

\* What holds of the cleanup in every state: types, and that nothing derived from a
\* revoked source comes back.
CleanupSafe == CleanupTypeOK /\ StaysClean

\* What a step of a job does: it completes only over a clean source, and takes
\* nothing that is not derived from a revoked one.
CleanupStepsRight == CompletesClean /\ OnlyDerivedIsCleaned

\* A job that has begun does not run for ever: it completes, or it fails and
\* waits for an Admin (the frontier only grows; a late writer only postpones it).
CleanupEndsFor(s) == job[s].state = "pending" ~> job[s].state \in {"complete", "failed"}

\* A completed cleanup has removed the published tree of a trace export derived
\* from the source, as the classifier says of every trace export it redacts.
TraceTreeGone ==
    \A s \in Sources : job[s].state = "complete" =>
        \A n \in Derived(s) : Class[n] = "trace" => disk[n] = "none"
=============================================================================
