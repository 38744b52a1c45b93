--------------------------- MODULE ServicesProofs ---------------------------
(***************************************************************************)
(* The services beside the learning loop, for any bounds: the document     *)
(* store, releases and the runs that use them, the economics of replay     *)
(* experiments, the formal authority, and the curriculum.                  *)
(***************************************************************************)
EXTENDS DocumentStore, HostRun, ReplayEconomics, Authority, Curriculum, Induction, SequenceTheorems

-----------------------------------------------------------------------------
(***************************************************************************)
(* The document store, for any namespaces, identities, requests and        *)
(* capacities.  A session works on a copy; what it relies on is that the   *)
(* copy is itself sound, and what of the committed database it has kept.   *)
(***************************************************************************)

(* What a database is.  The digests of the audit grow with the chain, so   *)
(* its rows are of no fixed set.                                           *)

World == [sealed : BOOLEAN, body : DBodies]

Graph ==
    [edges : SUBSET (DNodes \X DNodes), derived : [DNodes -> Nat \cup {None}],
     tombstones : [DNodes -> Nat \cup {None}], mark : Nat]

Database(S) ==
    [artifacts : [DSpaces -> [DArtifacts -> ArtifactRow \cup {Absent}]],
     runs : [DSpaces -> SUBSET DRunIds],
     answers : [DSpaces -> [DKeys -> CachedAnswer \cup {None}]],
     audit : Seq(S),
     graph : [DSpaces -> Graph],
     worlds : [DSpaces -> [DWorldIds -> World \cup {None}]],
     envelopes : SUBSET (DSpaces \X SUBSET DBlobs)]

Session(S) ==
    [space : DSpaces, role : DRoles, blobs : BOOLEAN, ops : 0..DWork, served : ToldAnswer \cup {None},
     new : SUBSET SUBSET DBlobs, db : Database(S)]

-----------------------------------------------------------------------------
(* The invariant, table by table.                                          *)

TraceSlots(artifacts) == {p \in DSpaces \X DArtifacts : is_trace_export_record(artifacts[p[1]][p[2]])}
RunSlots(table) == {p \in DSpaces \X DRunIds : p[2] \in table[p[1]]}
WorldSlots(worlds) == {p \in DSpaces \X DWorldIds : worlds[p[1]][p[2]] # None}

Within(slots, max) == IsFiniteSet(slots) /\ Cardinality(slots) <= max

Revoked(g) == {d \in DNodes : g.tombstones[d] # None}

\* Only what was derived has edges, and it was derived at a watermark of the past.
GraphSound(g) ==
    /\ IsFiniteSet(Revoked(g)) /\ g.mark = Cardinality(Revoked(g))
    /\ \A d \in DNodes : g.derived[d] # None => g.derived[d] <= g.mark
    /\ \A e \in g.edges : g.derived[e[1]] # None
    /\ \A d \in DNodes : g.derived[d] # None =>
          \A s \in Closure(g.edges, {d}) \ {d} : g.tombstones[s] = None \/ g.tombstones[s] > g.derived[d]

HasNewest(rows) == rows # {} => \E j \in rows : \A k \in rows : k <= j

ChainSound(audit) ==
    \A n \in DSpaces :
        /\ verify_audit(audit, n) /\ service_success_facts(audit, n)
        /\ \A i \in 1..(Len(audit) + 1) : HasNewest(Before(audit, n, i))

DatabaseSound(d) ==
    /\ Within(TraceSlots(d.artifacts), MaxTraces)
    /\ Within(RunSlots(d.runs), MaxRuns)
    /\ Within(WorldSlots(d.worlds), MaxWorlds)
    /\ \A n \in DSpaces : GraphSound(d.graph[n])
    /\ ChainSound(d.audit)

-----------------------------------------------------------------------------
(* The invariant of the open session.                                      *)

\* What the copy has kept of committed history and sealed worlds.
Follows(d, w) ==
    /\ \A n \in DSpaces : \A a \in DArtifacts :
          is_trace_export_record(d.artifacts[n][a]) =>
             /\ is_trace_export_record(w.artifacts[n][a])
             /\ (d.artifacts[n][a].class = "redacted trace" => w.artifacts[n][a] = d.artifacts[n][a])
    /\ \A n \in DSpaces : \A v \in DWorldIds :
          (d.worlds[n][v] # None /\ d.worlds[n][v].sealed) => w.worlds[n][v] = d.worlds[n][v]

SameAnswer(x, y) == x.role = y.role /\ x.args = y.args /\ x.answer = y.answer

\* The copy has the committed answers, and one more if the session served one.
AnswersFollow(d, space, served, answers) ==
    /\ \A n \in DSpaces : \A k \in DKeys :
          /\ d.answers[n][k] # None => answers[n][k] # None /\ SameAnswer(answers[n][k], d.answers[n][k])
          /\ answers[n][k] # None /\ d.answers[n][k] = None =>
                served # None /\ n = space /\ k = served.key /\ SameAnswer(answers[n][k], served)
    /\ served # None =>
          served.space = space /\ d.answers[space][served.key] = None /\ answers[space][served.key] # None

\* The bytes of what the session registered are there, and its lock keeps them.
BytesStand(d, t, f) == \A e \in t.db.envelopes \ d.envelopes : t.blobs /\ e[2] \subseteq f[e[1]]

SessionSound(d, t, f) ==
    /\ \E S : t \in Session(S)
    /\ DatabaseSound(t.db)
    /\ Follows(d, t.db)
    /\ AnswersFollow(d, t.space, t.served, t.db.answers)
    /\ BytesStand(d, t, f)

\* A committed answer is of one execution, and all that was told agrees with it.
ExecutedSound(d, x) == \A n \in DSpaces : \A k \in DKeys : x[n][k] = IF d.answers[n][k] = None THEN 0 ELSE 1

ToldSound(d, T) ==
    T \subseteq ToldAnswer /\ \A x \in T : d.answers[x.space][x.key] # None /\ SameAnswer(d.answers[x.space][x.key], x)

DocumentInv ==
    /\ \E S : db \in Database(S)
    /\ DatabaseSound(db)
    /\ files \in [DSpaces -> SUBSET DBlobs]
    /\ executed \in [DSpaces -> [DKeys -> Nat]] /\ ExecutedSound(db, executed)
    /\ ToldSound(db, told)
    /\ tx # None => SessionSound(db, tx, files)

-----------------------------------------------------------------------------
(* The tables.                                                             *)

LEMMA StoreLimits == {MaxRuns, MaxTraces, MaxWorlds, DAuditBound, DWork} \subseteq Nat
BY DocumentShape

LEMMA Pairs == ASSUME NEW A, NEW B, NEW p \in A \X B PROVE p = <<p[1], p[2]>> /\ p[1] \in A /\ p[2] \in B
OBVIOUS

\* Slots stay within a capacity that is asked for each new one.
LEMMA SlotsWithin ==
    ASSUME NEW A, NEW B, NEW x, NEW max \in Nat, Within(A, max), B \subseteq A \cup {x},
           x \in B /\ x \notin A => Cardinality(A) < max
    PROVE  Within(B, max)
<1>1. CASE B \subseteq A
  <2>1. IsFiniteSet(B) /\ Cardinality(B) <= Cardinality(A) /\ Cardinality(A) \in Nat /\ Cardinality(B) \in Nat
    BY <1>1, FS_Subset, FS_CardinalityType DEF Within
  <2> QED BY <2>1 DEF Within
<1>2. CASE ~(B \subseteq A)
  <2>1. x \in B /\ x \notin A
    BY <1>2
  <2>2. IsFiniteSet(A \cup {x}) /\ Cardinality(A \cup {x}) = Cardinality(A) + 1
    BY <2>1, FS_AddElement DEF Within
  <2>3. IsFiniteSet(B) /\ Cardinality(B) <= Cardinality(A \cup {x})
    BY <2>2, FS_Subset
  <2>4. Cardinality(A) \in Nat /\ Cardinality(B) \in Nat
    BY <2>3, FS_CardinalityType DEF Within
  <2> QED BY <2>1, <2>2, <2>3, <2>4 DEF Within
<1> QED BY <1>1, <1>2

LEMMA ClosureFacts ==
    ASSUME NEW edges \in SUBSET (DNodes \X DNodes), NEW roots \in SUBSET DNodes
    PROVE  /\ Closure(edges, roots) \subseteq DNodes
           /\ roots \subseteq Closure(edges, roots)
           /\ \A e \in edges : e[1] \in Closure(edges, roots) => e[2] \in Closure(edges, roots)
           /\ \A S \in SUBSET DNodes :
                 roots \subseteq S /\ (\A e \in edges : e[1] \in S => e[2] \in S) => Closure(edges, roots) \subseteq S
<1>1. \A S \in SUBSET DNodes : dependency_edges(edges, S) \subseteq S <=> (\A e \in edges : e[1] \in S => e[2] \in S)
  BY DEF dependency_edges
<1>2. Closure(edges, roots) \subseteq DNodes /\ roots \subseteq Closure(edges, roots)
  BY DEF Closure
<1>3. ASSUME NEW e \in edges, e[1] \in Closure(edges, roots) PROVE e[2] \in Closure(edges, roots)
  BY <1>1, <1>3 DEF Closure
<1>4. ASSUME NEW S \in SUBSET DNodes, roots \subseteq S, \A e \in edges : e[1] \in S => e[2] \in S
      PROVE  Closure(edges, roots) \subseteq S
  BY <1>1, <1>4 DEF Closure
<1> QED BY <1>2, <1>3, <1>4

\* Nothing reaches a new node, and it reaches what its sources do.
LEMMA NewNodeClosures ==
    ASSUME NEW E \in SUBSET (DNodes \X DNodes), NEW d \in DNodes, NEW sources \in SUBSET DNodes, d \notin sources,
           \A e \in E : e[1] # d /\ e[2] # d,
           NEW F \in SUBSET (DNodes \X DNodes), F = E \cup {<<d, s>> : s \in sources}
    PROVE  /\ Closure(F, {d}) \subseteq {d} \cup Closure(E, sources)
           /\ \A x \in DNodes \ {d} : Closure(F, {x}) \subseteq Closure(E, {x})
<1>1. Closure(F, {d}) \subseteq {d} \cup Closure(E, sources)
  <2> DEFINE roots == {d}
             T == {d} \cup Closure(E, sources)
  <2>1. roots \in SUBSET DNodes /\ roots \subseteq T /\ T \in SUBSET DNodes
    BY ClosureFacts
  <2>2. \A e \in F : e[1] \in T => e[2] \in T
    BY ClosureFacts
  <2> HIDE DEF roots, T
  <2>3. Closure(F, roots) \subseteq T
    BY <2>1, <2>2, ClosureFacts
  <2> QED BY <2>3 DEF roots, T
<1>2. ASSUME NEW x \in DNodes \ {d} PROVE Closure(F, {x}) \subseteq Closure(E, {x})
  <2> DEFINE roots == {x}
             T == Closure(E, roots) \ {d}
  <2>0. roots \in SUBSET DNodes /\ d \notin roots
    OBVIOUS
  <2> HIDE DEF roots
  <2>1. roots \subseteq T /\ T \in SUBSET DNodes /\ d \notin T
    BY <2>0, ClosureFacts
  <2>2. \A e \in E : e[1] \in T => e[2] \in T
    BY <2>0, ClosureFacts
  <2> HIDE DEF T
  <2>3. \A e \in F : e[1] \in T => e[2] \in T
    BY <2>1, <2>2
  <2>4. Closure(F, roots) \subseteq T
    BY <2>0, <2>1, <2>3, ClosureFacts
  <2> QED BY <2>4 DEF roots, T
<1> QED BY <1>1, <1>2

\* A derivation over sources that all stand: nothing reaches what is new, so what
\* was derived before depends on what it did.
LEMMA DerivationSound ==
    ASSUME NEW g \in Graph, GraphSound(g), NEW d \in DNodes, NEW sources \in SUBSET DNodes,
           d \notin sources, g.derived[d] = None, ~\E e \in g.edges : e[2] = d,
           \A s \in Closure(g.edges, sources) : g.tombstones[s] = None,
           NEW h, h \in Graph, h.mark = g.mark, h.tombstones = g.tombstones,
           h.derived = [g.derived EXCEPT ![d] = g.mark], h.edges = g.edges \cup {<<d, s>> : s \in sources}
    PROVE  GraphSound(h)
<1>0. g.mark \in Nat /\ g.mark # None /\ g.edges \in SUBSET (DNodes \X DNodes) /\ h.edges \in SUBSET (DNodes \X DNodes)
      /\ g.derived \in [DNodes -> Nat \cup {None}]
  BY DocumentAbsent DEF Graph
<1>1. IsFiniteSet(Revoked(h)) /\ h.mark = Cardinality(Revoked(h))
  BY DEF GraphSound, Revoked
<1>2. ASSUME NEW x \in DNodes, h.derived[x] # None PROVE h.derived[x] <= h.mark
  BY <1>0, <1>2 DEF GraphSound
<1>3. ASSUME NEW e \in h.edges PROVE h.derived[e[1]] # None
  <2>1. CASE e \in g.edges
    BY <1>0, <2>1 DEF GraphSound
  <2>2. CASE e \notin g.edges
    BY <1>0, <2>2
  <2> QED BY <2>1, <2>2
<1>4. /\ Closure(h.edges, {d}) \subseteq {d} \cup Closure(g.edges, sources)
      /\ \A x \in DNodes \ {d} : Closure(h.edges, {x}) \subseteq Closure(g.edges, {x})
  <2>1. \A e \in g.edges : e[1] # d /\ e[2] # d
    BY DEF GraphSound
  <2> QED BY <1>0, <2>1, NewNodeClosures
<1>5. ASSUME NEW x \in DNodes, h.derived[x] # None, NEW s \in Closure(h.edges, {x}) \ {x}
      PROVE  h.tombstones[s] = None \/ h.tombstones[s] > h.derived[x]
  <2>1. CASE x = d
    BY <1>4, <1>5, <2>1
  <2>2. CASE x # d
    <3>1. h.derived[x] = g.derived[x]
      BY <1>0, <2>2
    <3>2. s \in Closure(g.edges, {x}) \ {x} /\ g.derived[x] # None
      BY <1>4, <1>5, <2>2, <3>1
    <3> QED BY <3>1, <3>2 DEF GraphSound
  <2> QED BY <2>1, <2>2
<1> QED BY <1>1, <1>2, <1>3, <1>5 DEF GraphSound

\* A revocation comes after everything that was derived.
LEMMA RevocationSound ==
    ASSUME NEW g \in Graph, GraphSound(g), NEW d \in DNodes, g.tombstones[d] = None,
           NEW h, h \in Graph, h.mark = g.mark + 1, h.edges = g.edges, h.derived = g.derived,
           h.tombstones = [g.tombstones EXCEPT ![d] = g.mark + 1]
    PROVE  GraphSound(h)
<1>0. g.mark \in Nat /\ g.mark + 1 # None /\ g.edges \in SUBSET (DNodes \X DNodes)
      /\ g.derived \in [DNodes -> Nat \cup {None}] /\ g.tombstones \in [DNodes -> Nat \cup {None}]
  BY DocumentAbsent DEF Graph
<1>1. Revoked(h) = Revoked(g) \cup {d} /\ d \notin Revoked(g)
  BY <1>0 DEF Revoked
<1>2. IsFiniteSet(Revoked(h)) /\ h.mark = Cardinality(Revoked(h))
  BY <1>1, FS_AddElement DEF GraphSound
<1>3. ASSUME NEW x \in DNodes, h.derived[x] # None
      PROVE  h.derived[x] \in Nat /\ h.derived[x] <= g.mark /\ h.derived[x] <= h.mark
  BY <1>0, <1>3 DEF GraphSound
<1>4. ASSUME NEW x \in DNodes, h.derived[x] # None, NEW s \in Closure(h.edges, {x}) \ {x}
      PROVE  h.tombstones[s] = None \/ h.tombstones[s] > h.derived[x]
  <2>1. s \in DNodes
    BY <1>4 DEF Closure
  <2>2. CASE s = d
    BY <1>0, <1>3, <1>4, <2>1, <2>2
  <2>3. CASE s # d
    BY <1>0, <1>4, <2>1, <2>3 DEF GraphSound
  <2> QED BY <2>2, <2>3
<1> QED BY <1>2, <1>3, <1>4 DEF GraphSound

LEMMA NewestIsIn == ASSUME NEW rows, HasNewest(rows), rows # {} PROVE Newest(rows) \in rows
BY DEF HasNewest, Newest

\* A row with the digest of the last row of its namespace; a fact names that row.
Continues(audit, n, row) ==
    /\ row.space = n /\ row.previous = last_digest(audit, n, Len(audit) + 1)
    /\ row.digest = <<row.previous, row.payload>>
    /\ row.payload.op = "service.success_fact.v1" =>
          LET own == Before(audit, n, Len(audit) + 1) IN
          /\ own # {}
          /\ FactNamesPrior(row.payload.entity, row, audit[Newest(own)], Newest(own))

LEMMA AppendKeepsChain ==
    ASSUME NEW S, NEW audit \in Seq(S), ChainSound(audit), NEW n \in DSpaces, NEW row, Continues(audit, n, row)
    PROVE  /\ Append(audit, row) \in Seq(S \cup {row})
           /\ ChainSound(Append(audit, row))
<1> DEFINE b == Append(audit, row)
           L == Len(audit)
<1>1. /\ L \in Nat /\ Len(b) = L + 1 /\ b[L+1] = row /\ \A j \in 1..L : b[j] = audit[j]
      /\ b \in Seq(S \cup {row})
  OBVIOUS
<1> HIDE DEF b
<1>2. \A m \in DSpaces : \A i \in 1..(L+1) : Before(b, m, i) = Before(audit, m, i) /\ Before(b, m, i) \subseteq 1..L
  BY <1>1 DEF Before
<1>3. ASSUME NEW m \in DSpaces, NEW i \in 1..(L+1), Before(b, m, i) # {}
      PROVE  b[Newest(Before(b, m, i))] = audit[Newest(Before(audit, m, i))]
  <2>1. HasNewest(Before(audit, m, i))
    BY DEF ChainSound
  <2> QED BY <1>1, <1>2, <1>3, <2>1, NewestIsIn
<1>4. ASSUME NEW m \in DSpaces, NEW i \in 1..(L+1) PROVE last_digest(b, m, i) = last_digest(audit, m, i)
  BY <1>2, <1>3 DEF last_digest
<1>5. ASSUME NEW m \in DSpaces PROVE verify_audit(b, m)
  <2>1. ASSUME NEW i \in 1..L, b[i].space = m
        PROVE  b[i].previous = last_digest(b, m, i) /\ b[i].digest = <<b[i].previous, b[i].payload>>
    BY <1>1, <1>4, <2>1 DEF ChainSound, verify_audit
  <2>2. ASSUME b[L+1].space = m
        PROVE  b[L+1].previous = last_digest(b, m, L+1) /\ b[L+1].digest = <<b[L+1].previous, b[L+1].payload>>
    BY <1>1, <1>4, <2>2 DEF Continues
  <2>3. \A i \in 1..(L+1) : i \in 1..L \/ i = L+1
    BY <1>1
  <2> QED BY <1>1, <2>1, <2>2, <2>3 DEF verify_audit
<1>6. ASSUME NEW m \in DSpaces PROVE service_success_facts(b, m)
  <2> DEFINE Fact(s, i) == LET own == Before(s, m, i) IN
                /\ own # {} /\ FactNamesPrior(s[i].payload.entity, s[i], s[Newest(own)], Newest(own))
  <2>1. ASSUME NEW i \in 1..L, b[i].space = m, b[i].payload.op = "service.success_fact.v1" PROVE Fact(b, i)
    <3>1. audit[i].space = m /\ audit[i].payload.op = "service.success_fact.v1" /\ b[i] = audit[i] /\ i \in 1..(L+1)
      BY <1>1, <2>1
    <3>2. Fact(audit, i)
      BY <3>1 DEF ChainSound, service_success_facts
    <3> QED BY <1>2, <1>3, <3>1, <3>2
  <2>2. ASSUME b[L+1].space = m, b[L+1].payload.op = "service.success_fact.v1" PROVE Fact(b, L+1)
    <3>1. m = n /\ L+1 \in 1..(L+1)
      BY <1>1, <2>2 DEF Continues
    <3> QED BY <1>1, <1>2, <1>3, <2>2, <3>1 DEF Continues
  <2>3. \A i \in 1..(L+1) : i \in 1..L \/ i = L+1
    BY <1>1
  <2> HIDE DEF Fact
  <2>4. \A i \in 1..Len(b) : (b[i].space = m /\ b[i].payload.op = "service.success_fact.v1") => Fact(b, i)
    BY <1>1, <2>1, <2>2, <2>3
  <2> QED BY <2>4 DEF service_success_facts, Fact
<1>7. ASSUME NEW m \in DSpaces, NEW i \in 1..(L+2) PROVE HasNewest(Before(b, m, i))
  <2>1. CASE i \in 1..(L+1)
    BY <1>2, <2>1 DEF ChainSound
  <2>2. CASE i = L+2 /\ m = n
    <3>1. L+1 \in Before(b, m, i) /\ \A k \in Before(b, m, i) : k <= L+1
      BY <1>1, <2>2 DEF Before, Continues
    <3> QED BY <3>1 DEF HasNewest
  <2>3. CASE i = L+2 /\ m # n
    <3>1. Before(b, m, i) = Before(b, m, L+1)
      BY <1>1, <2>3 DEF Before, Continues
    <3>2. L+1 \in 1..(L+1)
      BY <1>1
    <3> QED BY <1>2, <3>1, <3>2 DEF ChainSound
  <2> QED BY <1>1, <2>1, <2>2, <2>3
<1>8. Len(b) + 1 = L + 2
  BY <1>1
<1> QED BY <1>1, <1>5, <1>6, <1>7, <1>8 DEF ChainSound, b

-----------------------------------------------------------------------------
(* The statements of a session.                                            *)

LEMMA FollowsOn == ASSUME NEW c, NEW d, NEW w, Follows(c, d), Follows(d, w) PROVE Follows(c, w)
<1>1. ASSUME NEW n \in DSpaces, NEW a \in DArtifacts, is_trace_export_record(c.artifacts[n][a])
      PROVE  /\ is_trace_export_record(w.artifacts[n][a])
             /\ (c.artifacts[n][a].class = "redacted trace" => w.artifacts[n][a] = c.artifacts[n][a])
  <2>1. is_trace_export_record(d.artifacts[n][a]) /\ is_trace_export_record(w.artifacts[n][a])
    BY <1>1 DEF Follows
  <2>2. ASSUME c.artifacts[n][a].class = "redacted trace" PROVE w.artifacts[n][a] = c.artifacts[n][a]
    <3>1. d.artifacts[n][a] = c.artifacts[n][a]
      BY <1>1, <2>2 DEF Follows
    <3> QED BY <2>1, <2>2, <3>1 DEF Follows
  <2> QED BY <2>1, <2>2
<1>2. ASSUME NEW n \in DSpaces, NEW v \in DWorldIds, c.worlds[n][v] # None, c.worlds[n][v].sealed
      PROVE  w.worlds[n][v] = c.worlds[n][v]
  <2>1. d.worlds[n][v] = c.worlds[n][v]
    BY <1>2 DEF Follows
  <2> QED BY <1>2, <2>1 DEF Follows
<1> QED BY <1>1, <1>2 DEF Follows

LEMMA FollowsItself == ASSUME NEW d, NEW w, w.artifacts = d.artifacts, w.worlds = d.worlds PROVE Follows(d, w)
BY DEF Follows

\* The open session, with the set of its audit rows.
LEMMA OpenSession ==
    ASSUME DocumentInv, tx # None
    PROVE  /\ \E S : tx \in Session(S) /\ tx.db \in Database(S)
           /\ SessionSound(db, tx, files) /\ DatabaseSound(tx.db)
           /\ tx.space \in DSpaces /\ tx.role \in DRoles /\ tx.ops \in 0..DWork
<1>1. SessionSound(db, tx, files) /\ DatabaseSound(tx.db)
  BY DEF DocumentInv, SessionSound
<1>2. PICK S : tx \in Session(S)
  BY <1>1 DEF SessionSound
<1>3. tx.db \in Database(S) /\ tx.space \in DSpaces /\ tx.role \in DRoles /\ tx.ops \in 0..DWork
  BY <1>2 DEF Session
<1> QED BY <1>1, <1>2, <1>3

\* The session goes on as t.
LEMMA SessionGoesOn ==
    ASSUME DocumentInv, NEW t, SessionSound(db, t, files), tx' = t, UNCHANGED <<db, files, told, executed>>
    PROVE  DocumentInv'
BY DEF DocumentInv

\* A statement whose work is sound, keeps what must be kept and registers nothing.
LEMMA StatementKeeps ==
    ASSUME DocumentInv, tx # None, NEW S, NEW w \in Database(S), DatabaseSound(w), Follows(tx.db, w),
           AnswersFollow(db, tx.space, tx.served, w.answers), w.envelopes = tx.db.envelopes, Statement(w)
    PROVE  DocumentInv'
<1> DEFINE y == [tx EXCEPT !.ops = @ + 1, !.db = w]
<1>1. PICK R : tx \in Session(R)
  BY OpenSession
<1>2. tx.ops < DWork /\ tx' = y /\ UNCHANGED <<db, files, told, executed>>
  BY DEF Statement
<1>3. /\ y \in Session(S)
      /\ y.db = w /\ y.space = tx.space /\ y.served = tx.served /\ y.blobs = tx.blobs
  <2>1. tx.ops + 1 \in 0..DWork
    BY <1>1, <1>2, StoreLimits DEF Session
  <2> QED BY <1>1, <2>1 DEF Session
<1> HIDE DEF y
<1>4. SessionSound(db, tx, files)
  BY OpenSession
<1>5. Follows(db, w)
  BY <1>4, FollowsOn DEF SessionSound
<1>6. BytesStand(db, y, files)
  BY <1>3, <1>4 DEF SessionSound, BytesStand
<1>7. SessionSound(db, y, files)
  BY <1>3, <1>5, <1>6 DEF SessionSound
<1> QED BY <1>2, <1>7, SessionGoesOn

\* The same for a statement that leaves the answers alone.
LEMMA RowsKeep ==
    ASSUME DocumentInv, tx # None, NEW S, NEW w \in Database(S), DatabaseSound(w), Follows(tx.db, w),
           w.answers = tx.db.answers, w.envelopes = tx.db.envelopes, Statement(w)
    PROVE  DocumentInv'
<1>1. AnswersFollow(db, tx.space, tx.served, w.answers)
  BY OpenSession DEF SessionSound
<1> QED BY <1>1, StatementKeeps

LEMMA ArtifactWritten ==
    ASSUME DocumentInv, tx # None, NEW a \in DArtifacts, NEW new \in ArtifactRow \cup {Absent},
           LET old == tx.db.artifacts[tx.space][a] IN
              /\ is_trace_export_record(old) =>
                    is_trace_export_record(new) /\ (old.class = "redacted trace" => new = old)
              /\ is_trace_export_record(new) /\ ~is_trace_export_record(old) =>
                    count_trace_exports_all_namespaces(tx.db) < MaxTraces,
           Statement([tx.db EXCEPT !.artifacts[tx.space][a] = new])
    PROVE  DocumentInv'
<1> DEFINE w == [tx.db EXCEPT !.artifacts[tx.space][a] = new]
           slot == <<tx.space, a>>
<1>1. PICK S : tx.db \in Database(S)
  BY OpenSession
<1>2. tx.space \in DSpaces /\ DatabaseSound(tx.db)
  BY OpenSession
<1>3. /\ w \in Database(S)
      /\ w.runs = tx.db.runs /\ w.answers = tx.db.answers /\ w.audit = tx.db.audit /\ w.graph = tx.db.graph
      /\ w.worlds = tx.db.worlds /\ w.envelopes = tx.db.envelopes
      /\ \A n \in DSpaces : \A b \in DArtifacts :
            w.artifacts[n][b] = IF n = tx.space /\ b = a THEN new ELSE tx.db.artifacts[n][b]
  BY <1>1, <1>2 DEF Database
<1>4. Statement(w)
  OBVIOUS
<1> HIDE DEF w
<1>5. Within(TraceSlots(w.artifacts), MaxTraces)
  <2>1. Within(TraceSlots(tx.db.artifacts), MaxTraces) /\ MaxTraces \in Nat
    BY <1>2, StoreLimits DEF DatabaseSound
  <2>2. TraceSlots(w.artifacts) \subseteq TraceSlots(tx.db.artifacts) \cup {slot}
    <3>1. ASSUME NEW p \in DSpaces \X DArtifacts, p # slot
          PROVE  w.artifacts[p[1]][p[2]] = tx.db.artifacts[p[1]][p[2]]
      <4>1. p = <<p[1], p[2]>> /\ p[1] \in DSpaces /\ p[2] \in DArtifacts
        BY Pairs
      <4>2. ~(p[1] = tx.space /\ p[2] = a)
        BY <3>1, <4>1
      <4> QED BY <1>3, <4>1, <4>2
    <3> QED BY <3>1 DEF TraceSlots, is_trace_export_record
  <2>3. slot \in TraceSlots(w.artifacts) /\ slot \notin TraceSlots(tx.db.artifacts) =>
           Cardinality(TraceSlots(tx.db.artifacts)) < MaxTraces
    BY <1>2, <1>3 DEF TraceSlots, count_trace_exports_all_namespaces
  <2> QED BY <2>1, <2>2, <2>3, SlotsWithin
<1>6. DatabaseSound(w)
  BY <1>2, <1>3, <1>5 DEF DatabaseSound
<1>7. Follows(tx.db, w)
  BY <1>3 DEF Follows
<1> QED BY <1>3, <1>4, <1>6, <1>7, RowsKeep

LEMMA RunsWritten ==
    ASSUME DocumentInv, tx # None, NEW kept \in SUBSET DRunIds, NEW r \in DRunIds,
           kept \subseteq tx.db.runs[tx.space] \cup {r},
           r \in kept /\ r \notin tx.db.runs[tx.space] => count_runs_all_namespaces(tx.db) < MaxRuns,
           Statement([tx.db EXCEPT !.runs[tx.space] = kept])
    PROVE  DocumentInv'
<1> DEFINE w == [tx.db EXCEPT !.runs[tx.space] = kept]
           slot == <<tx.space, r>>
<1>1. PICK S : tx.db \in Database(S)
  BY OpenSession
<1>2. tx.space \in DSpaces /\ DatabaseSound(tx.db)
  BY OpenSession
<1>3. /\ w \in Database(S)
      /\ w.artifacts = tx.db.artifacts /\ w.answers = tx.db.answers /\ w.audit = tx.db.audit /\ w.graph = tx.db.graph
      /\ w.worlds = tx.db.worlds /\ w.envelopes = tx.db.envelopes
      /\ \A n \in DSpaces : w.runs[n] = IF n = tx.space THEN kept ELSE tx.db.runs[n]
  BY <1>1, <1>2 DEF Database
<1>4. Statement(w)
  OBVIOUS
<1> HIDE DEF w
<1>5. Within(RunSlots(w.runs), MaxRuns)
  <2>1. Within(RunSlots(tx.db.runs), MaxRuns) /\ MaxRuns \in Nat
    BY <1>2, StoreLimits DEF DatabaseSound
  <2>2. RunSlots(w.runs) \subseteq RunSlots(tx.db.runs) \cup {slot}
    BY <1>3 DEF RunSlots
  <2>3. slot \in RunSlots(w.runs) /\ slot \notin RunSlots(tx.db.runs) => Cardinality(RunSlots(tx.db.runs)) < MaxRuns
    BY <1>2, <1>3 DEF RunSlots, count_runs_all_namespaces
  <2> QED BY <2>1, <2>2, <2>3, SlotsWithin
<1>6. DatabaseSound(w)
  BY <1>2, <1>3, <1>5 DEF DatabaseSound
<1>7. Follows(tx.db, w)
  BY <1>3, FollowsItself
<1> QED BY <1>3, <1>4, <1>6, <1>7, RowsKeep

LEMMA PutWorldKeeps ==
    ASSUME DocumentInv, NEW v \in DWorldIds, NEW sealed \in BOOLEAN, NEW body \in DBodies, put_world(v, sealed, body)
    PROVE  DocumentInv'
<1> DEFINE old == tx.db.worlds[tx.space][v]
           new == [sealed |-> sealed, body |-> body]
           w == [tx.db EXCEPT !.worlds[tx.space][v] = new]
           slot == <<tx.space, v>>
<1>0. /\ tx # None /\ new \in World /\ keeps_manifest(old, new) /\ Statement(w)
      /\ old = None => replay_world_count(tx.db) < MaxWorlds
  BY DEF put_world, World
<1>1. PICK S : tx.db \in Database(S)
  BY <1>0, OpenSession
<1>2. tx.space \in DSpaces /\ DatabaseSound(tx.db)
  BY <1>0, OpenSession
<1>3. /\ w \in Database(S)
      /\ w.artifacts = tx.db.artifacts /\ w.answers = tx.db.answers /\ w.audit = tx.db.audit /\ w.graph = tx.db.graph
      /\ w.runs = tx.db.runs /\ w.envelopes = tx.db.envelopes
      /\ \A n \in DSpaces : \A u \in DWorldIds :
            w.worlds[n][u] = IF n = tx.space /\ u = v THEN new ELSE tx.db.worlds[n][u]
  <2> HIDE DEF new
  <2> QED BY <1>0, <1>1, <1>2 DEF Database
<1> HIDE DEF w, new
<1>5. Within(WorldSlots(w.worlds), MaxWorlds)
  <2>1. Within(WorldSlots(tx.db.worlds), MaxWorlds) /\ MaxWorlds \in Nat
    BY <1>2, StoreLimits DEF DatabaseSound
  <2>2. WorldSlots(w.worlds) \subseteq WorldSlots(tx.db.worlds) \cup {slot}
    BY <1>3 DEF WorldSlots
  <2>3. slot \in WorldSlots(w.worlds) /\ slot \notin WorldSlots(tx.db.worlds) =>
           Cardinality(WorldSlots(tx.db.worlds)) < MaxWorlds
    BY <1>0, <1>2, <1>3 DEF WorldSlots, replay_world_count
  <2> QED BY <2>1, <2>2, <2>3, SlotsWithin
<1>6. DatabaseSound(w)
  BY <1>2, <1>3, <1>5 DEF DatabaseSound
<1>7. Follows(tx.db, w)
  BY <1>0, <1>3 DEF Follows, keeps_manifest
<1> QED BY <1>0, <1>3, <1>6, <1>7, RowsKeep

LEMMA PutArtifactKeeps ==
    ASSUME DocumentInv, NEW a \in DArtifacts, NEW row \in ArtifactRow, put_artifact(a, row)
    PROVE  DocumentInv'
<1> DEFINE old == tx.db.artifacts[tx.space][a]
<1>1. /\ tx # None /\ upsert_allowed(old, row) /\ Statement([tx.db EXCEPT !.artifacts[tx.space][a] = row])
      /\ is_trace_export_record(row) => admits_trace(tx.db, old, row)
  BY DEF put_artifact
<1>2. is_trace_export_record(old) =>
         is_trace_export_record(row) /\ (old.class = "redacted trace" => row = old)
  BY <1>1 DEF upsert_allowed, admits_trace, is_trace_export_record
<1>3. is_trace_export_record(row) /\ ~is_trace_export_record(old) =>
         count_trace_exports_all_namespaces(tx.db) < MaxTraces
  BY <1>1 DEF admits_trace
<1> QED BY <1>1, <1>2, <1>3, ArtifactWritten

LEMMA DeleteArtifactKeeps ==
    ASSUME DocumentInv, NEW a \in DArtifacts, delete_artifact(a)
    PROVE  DocumentInv'
<1>1. ~is_trace_export_record(Absent)
  BY DEF is_trace_export_record, Absent
<1> QED BY <1>1, ArtifactWritten DEF delete_artifact

LEMMA PutRunKeeps ==
    ASSUME DocumentInv, NEW r \in DRunIds, put_run(r) \/ delete_run(r)
    PROVE  DocumentInv'
<1>1. tx # None
  BY DEF put_run, delete_run
<1>2. tx.db.runs[tx.space] \in SUBSET DRunIds
  BY <1>1, OpenSession DEF Database
<1>3. CASE put_run(r)
  <2>1. /\ Statement([tx.db EXCEPT !.runs[tx.space] = tx.db.runs[tx.space] \cup {r}])
        /\ r \in tx.db.runs[tx.space] \/ count_runs_all_namespaces(tx.db) < MaxRuns
    BY <1>3 DEF put_run, admits_run
  <2> QED BY <1>1, <1>2, <2>1, RunsWritten
<1>4. CASE delete_run(r)
  <2>1. Statement([tx.db EXCEPT !.runs[tx.space] = tx.db.runs[tx.space] \ {r}])
    BY <1>4 DEF delete_run
  <2> QED BY <1>1, <1>2, <2>1, RunsWritten
<1> QED BY <1>3, <1>4

\* A row of the open session, as append_audit makes it.
AuditRow(audit, n, role, op, entity) ==
    LET prev == last_digest(audit, n, Len(audit) + 1)
        payload == [role |-> role, op |-> op, entity |-> entity]
    IN  [space |-> n, payload |-> payload, previous |-> prev, digest |-> <<prev, payload>>]

LEMMA AuditRowFields ==
    ASSUME NEW audit, NEW n, NEW role, NEW op, NEW entity, NEW row, row = AuditRow(audit, n, role, op, entity)
    PROVE  /\ append_audit(audit, n, role, op, entity) = Append(audit, row)
           /\ row.space = n /\ row.previous = last_digest(audit, n, Len(audit) + 1)
           /\ row.digest = <<row.previous, row.payload>>
           /\ row.payload.op = op /\ row.payload.entity = entity /\ row.payload.role = role
BY DEF append_audit, AuditRow

LEMMA PlainRowKeepsChain ==
    ASSUME NEW S, NEW audit \in Seq(S), ChainSound(audit), NEW n \in DSpaces, NEW role, NEW entity,
           NEW op, op # "service.success_fact.v1", NEW row, row = AuditRow(audit, n, role, op, entity)
    PROVE  /\ Append(audit, row) \in Seq(S \cup {row})
           /\ ChainSound(Append(audit, row))
<1>1. /\ row.space = n /\ row.previous = last_digest(audit, n, Len(audit) + 1)
      /\ row.digest = <<row.previous, row.payload>> /\ row.payload.op # "service.success_fact.v1"
  BY AuditRowFields
<1>2. Continues(audit, n, row)
  BY <1>1 DEF Continues
<1> QED BY <1>2, AppendKeepsChain

\* A statement that changes the audit only.
LEMMA AuditWritten ==
    ASSUME DocumentInv, tx # None, NEW R, NEW audit \in Seq(R), ChainSound(audit),
           Statement([tx.db EXCEPT !.audit = audit])
    PROVE  DocumentInv'
<1> DEFINE w == [tx.db EXCEPT !.audit = audit]
<1>1. PICK S : tx.db \in Database(S)
  BY OpenSession
<1>2. /\ w \in Database(R) /\ w.audit = audit
      /\ w.artifacts = tx.db.artifacts /\ w.answers = tx.db.answers /\ w.runs = tx.db.runs /\ w.graph = tx.db.graph
      /\ w.worlds = tx.db.worlds /\ w.envelopes = tx.db.envelopes
  BY <1>1 DEF Database
<1>3. Statement(w)
  OBVIOUS
<1> HIDE DEF w
<1>4. DatabaseSound(w)
  BY <1>2, OpenSession DEF DatabaseSound
<1>5. Follows(tx.db, w)
  BY <1>2, FollowsItself
<1> QED BY <1>2, <1>3, <1>4, <1>5, RowsKeep

LEMMA WriteAuditKeeps ==
    ASSUME DocumentInv, NEW op \in AuditedOps, write_audit(op)
    PROVE  DocumentInv'
<1>1. tx # None /\ Statement([tx.db EXCEPT !.audit = append_audit(tx.db.audit, tx.space, tx.role, op, None)])
  BY DEF write_audit
<1>2. PICK S : tx.db \in Database(S)
  BY <1>1, OpenSession
<1>3. tx.db.audit \in Seq(S) /\ ChainSound(tx.db.audit) /\ tx.space \in DSpaces
  BY <1>1, <1>2, OpenSession DEF Database, DatabaseSound
<1>4. PICK row : row = AuditRow(tx.db.audit, tx.space, tx.role, op, None)
  OBVIOUS
<1>5. op # "service.success_fact.v1"
  BY DEF AuditedOps
<1>6. Append(tx.db.audit, row) \in Seq(S \cup {row}) /\ ChainSound(Append(tx.db.audit, row))
  BY <1>3, <1>4, <1>5, PlainRowKeepsChain
<1>7. Statement([tx.db EXCEPT !.audit = Append(tx.db.audit, row)])
  <2>1. append_audit(tx.db.audit, tx.space, tx.role, op, None) = Append(tx.db.audit, row)
    BY <1>4, AuditRowFields
  <2> QED BY <1>1, <2>1
<1> QED BY <1>1, <1>6, <1>7, AuditWritten

\* The fact is appended right after the event it names.
LEMMA ServiceSuccessKeeps ==
    ASSUME DocumentInv, NEW r \in DRunIds, audit_service_success(r)
    PROVE  DocumentInv'
<1> DEFINE n == tx.space
           first == append_audit(tx.db.audit, n, tx.role, "service.prepare", r)
           fact == [run |-> r, sequence |-> Len(first), digest |-> first[Len(first)].digest]
           second == append_audit(first, n, tx.role, "service.success_fact.v1", fact)
<1>1. tx # None /\ Statement([tx.db EXCEPT !.audit = second])
  BY DEF audit_service_success
<1>2. PICK S : tx.db \in Database(S)
  BY <1>1, OpenSession
<1>3. tx.db.audit \in Seq(S) /\ ChainSound(tx.db.audit) /\ n \in DSpaces
  BY <1>1, <1>2, OpenSession DEF Database, DatabaseSound
<1>4. PICK event : event = AuditRow(tx.db.audit, n, tx.role, "service.prepare", r)
  OBVIOUS
<1>5. /\ first = Append(tx.db.audit, event) /\ event.space = n /\ event.payload.op = "service.prepare"
      /\ event.payload.entity = r /\ event.payload.role = tx.role
  BY <1>4, AuditRowFields
<1>6. /\ first \in Seq(S \cup {event}) /\ ChainSound(first)
      /\ Len(first) = Len(tx.db.audit) + 1 /\ first[Len(first)] = event
  <2> HIDE DEF n, first, fact, second
  <2>1. PICK op : op = "service.prepare" /\ op # "service.success_fact.v1"
    OBVIOUS
  <2>2. PICK audit, role : audit = tx.db.audit /\ role = tx.role
    OBVIOUS
  <2>3. event = AuditRow(audit, n, role, op, r) /\ audit \in Seq(S) /\ ChainSound(audit)
    BY <1>3, <1>4, <2>1, <2>2
  <2>4. op # "service.success_fact.v1"
    BY <2>1
  <2>5. n \in DSpaces
    BY <1>3
  <2>6. Append(audit, event) \in Seq(S \cup {event}) /\ ChainSound(Append(audit, event))
    BY <2>3, <2>4, <2>5, PlainRowKeepsChain
  <2>7. Len(Append(audit, event)) = Len(audit) + 1 /\ Append(audit, event)[Len(audit) + 1] = event
    BY <2>3
  <2> QED BY <1>5, <2>2, <2>6, <2>7
<1>7. fact.run = r /\ fact.sequence = Len(first) /\ fact.digest = event.digest
  BY <1>6
<1>8. PICK row : row = AuditRow(first, n, tx.role, "service.success_fact.v1", fact)
  OBVIOUS
<1>9. /\ second = Append(first, row) /\ row.space = n /\ row.previous = last_digest(first, n, Len(first) + 1)
      /\ row.digest = <<row.previous, row.payload>>
      /\ row.payload.entity = fact /\ row.payload.role = tx.role
  BY <1>8, AuditRowFields
<1> HIDE DEF n, first, fact, second
<1>10. LET own == Before(first, n, Len(first) + 1) IN
       /\ own # {}
       /\ FactNamesPrior(row.payload.entity, row, first[Newest(own)], Newest(own))
  <2>1. PICK own : own = Before(first, n, Len(first) + 1)
    OBVIOUS
  <2>2. Len(first) \in Nat /\ Len(first) >= 1
    BY <1>3, <1>6
  <2>3. Len(first) \in own /\ own \subseteq 1..Len(first)
    BY <1>5, <1>6, <2>1, <2>2 DEF Before
  <2>4. Newest(own) = Len(first)
    <3>1. PICK m : m = Len(first)
      OBVIOUS
    <3>2. m \in own /\ (\A k \in own : k <= m) /\ own \subseteq Nat
      BY <2>2, <2>3, <3>1
    <3>3. PICK q : q = Newest(own)
      OBVIOUS
    <3>4. q \in own /\ \A k \in own : k <= q
      BY <3>2, <3>3 DEF Newest
    <3>5. m \in Nat /\ q \in Nat /\ m <= q /\ q <= m
      BY <3>2, <3>4
    <3>6. m = q
      BY <3>5
    <3> QED BY <3>1, <3>3, <3>6
  <2> QED BY <1>5, <1>6, <1>7, <1>9, <2>1, <2>3, <2>4 DEF FactNamesPrior
<1>11. second \in Seq(S \cup {event} \cup {row}) /\ ChainSound(second)
  <2>1. Continues(first, n, row)
    BY <1>9, <1>10 DEF Continues
  <2> QED BY <1>3, <1>6, <1>9, <2>1, AppendKeepsChain
<1> QED BY <1>1, <1>11, AuditWritten

\* A statement that changes the graph of the namespace only.
LEMMA GraphWritten ==
    ASSUME DocumentInv, tx # None, NEW g \in Graph, GraphSound(g), Statement([tx.db EXCEPT !.graph[tx.space] = g])
    PROVE  DocumentInv'
<1> DEFINE w == [tx.db EXCEPT !.graph[tx.space] = g]
<1>1. PICK S : tx.db \in Database(S)
  BY OpenSession
<1>2. tx.space \in DSpaces /\ DatabaseSound(tx.db)
  BY OpenSession
<1>3. /\ w \in Database(S)
      /\ w.artifacts = tx.db.artifacts /\ w.answers = tx.db.answers /\ w.runs = tx.db.runs /\ w.audit = tx.db.audit
      /\ w.worlds = tx.db.worlds /\ w.envelopes = tx.db.envelopes
      /\ \A n \in DSpaces : w.graph[n] = IF n = tx.space THEN g ELSE tx.db.graph[n]
  BY <1>1, <1>2 DEF Database
<1>4. Statement(w)
  OBVIOUS
<1> HIDE DEF w
<1>5. DatabaseSound(w)
  BY <1>2, <1>3 DEF DatabaseSound
<1>6. Follows(tx.db, w)
  BY <1>3, FollowsItself
<1> QED BY <1>3, <1>4, <1>5, <1>6, RowsKeep

LEMMA OpenGraph ==
    ASSUME DocumentInv, tx # None
    PROVE  tx.db.graph[tx.space] \in Graph /\ GraphSound(tx.db.graph[tx.space])
<1>1. PICK S : tx.db \in Database(S)
  BY OpenSession
<1>2. tx.space \in DSpaces /\ DatabaseSound(tx.db)
  BY OpenSession
<1> QED BY <1>1, <1>2 DEF Database, DatabaseSound

LEMMA DeriveKeeps ==
    ASSUME DocumentInv, NEW d \in DNodes, NEW sources \in SUBSET DNodes, derive(d, sources)
    PROVE  DocumentInv'
<1>1. tx # None
  BY DEF derive
<1>2. PICK g \in Graph : g = tx.db.graph[tx.space] /\ GraphSound(g)
  BY <1>1, OpenGraph
<1> DEFINE h == [g EXCEPT !.derived[d] = g.mark, !.edges = g.edges \cup {<<d, s>> : s \in sources}]
<1>3. /\ d \notin sources /\ g.derived[d] = None /\ ~\E e \in g.edges : e[2] = d
      /\ \A s \in upstream_closure(g.edges, sources) : g.tombstones[s] = None
      /\ upstream_closure(g.edges, sources) # None
      /\ Statement([tx.db EXCEPT !.graph[tx.space] = h])
  BY <1>2 DEF derive
<1>4. \A s \in Closure(g.edges, sources) : g.tombstones[s] = None
  BY <1>3 DEF upstream_closure
<1>5. /\ h \in Graph /\ h.mark = g.mark /\ h.tombstones = g.tombstones
      /\ h.derived = [g.derived EXCEPT ![d] = g.mark] /\ h.edges = g.edges \cup {<<d, s>> : s \in sources}
  <2>1. {<<d, s>> : s \in sources} \subseteq DNodes \X DNodes
    OBVIOUS
  <2>2. PICK more : more = {<<d, s>> : s \in sources}
    OBVIOUS
  <2>3. h = [g EXCEPT !.derived[d] = g.mark, !.edges = g.edges \cup more]
    BY <2>2
  <2> HIDE DEF h
  <2> QED BY <1>2, <2>1, <2>2, <2>3 DEF Graph
<1> HIDE DEF h
<1>6. GraphSound(h)
  BY <1>2, <1>3, <1>4, <1>5, DerivationSound
<1> QED BY <1>1, <1>3, <1>5, <1>6, GraphWritten

LEMMA StoreRevokeKeeps ==
    ASSUME DocumentInv, NEW d \in DNodes, revoke_node(d)
    PROVE  DocumentInv'
<1>1. tx # None
  BY DEF revoke_node
<1>2. PICK g \in Graph : g = tx.db.graph[tx.space] /\ GraphSound(g)
  BY <1>1, OpenGraph
<1> DEFINE h == [g EXCEPT !.mark = g.mark + 1, !.tombstones[d] = g.mark + 1]
<1>3. g.tombstones[d] = None /\ Statement([tx.db EXCEPT !.graph[tx.space] = h])
  BY <1>2 DEF revoke_node
<1>4. /\ h \in Graph /\ h.mark = g.mark + 1 /\ h.edges = g.edges /\ h.derived = g.derived
      /\ h.tombstones = [g.tombstones EXCEPT ![d] = g.mark + 1]
  <2>1. PICK m \in Nat : m = g.mark + 1
    BY <1>2 DEF Graph
  <2>2. h = [g EXCEPT !.mark = m, !.tombstones[d] = m]
    BY <2>1
  <2> HIDE DEF h
  <2> QED BY <1>2, <2>1, <2>2 DEF Graph
<1> HIDE DEF h
<1>5. GraphSound(h)
  BY <1>2, <1>3, <1>4, RevocationSound
<1> QED BY <1>1, <1>3, <1>4, <1>5, GraphWritten

LEMMA RedactCacheKeeps ==
    ASSUME DocumentInv, redact_cache
    PROVE  DocumentInv'
<1> DEFINE rows == redact_answers(tx.db.answers[tx.space])
           w == [tx.db EXCEPT !.answers[tx.space] = rows]
<1>0. tx # None /\ Statement(w)
  BY DEF redact_cache
<1>1. PICK S : tx.db \in Database(S)
  BY <1>0, OpenSession
<1>2. tx.space \in DSpaces /\ DatabaseSound(tx.db)
  BY <1>0, OpenSession
<1>3. tx.db.answers[tx.space] \in [DKeys -> CachedAnswer \cup {None}]
  BY <1>1, <1>2 DEF Database
<1>4. /\ rows \in [DKeys -> CachedAnswer \cup {None}]
      /\ \A k \in DKeys :
            /\ rows[k] = None <=> tx.db.answers[tx.space][k] = None
            /\ rows[k] # None => SameAnswer(rows[k], tx.db.answers[tx.space][k])
  <2>1. ASSUME NEW x \in CachedAnswer PROVE [x EXCEPT !.redacted = TRUE] \in CachedAnswer /\ SameAnswer([x EXCEPT !.redacted = TRUE], x)
    BY DEF CachedAnswer, SameAnswer
  <2>2. ASSUME NEW k \in DKeys
        PROVE  /\ rows[k] \in CachedAnswer \cup {None}
               /\ rows[k] = None <=> tx.db.answers[tx.space][k] = None
               /\ rows[k] # None => SameAnswer(rows[k], tx.db.answers[tx.space][k])
    <3>1. CASE tx.db.answers[tx.space][k] = None
      BY <3>1 DEF redact_answers
    <3>2. CASE tx.db.answers[tx.space][k] # None
      <4>1. PICK x \in CachedAnswer : x = tx.db.answers[tx.space][k]
        BY <1>3, <3>2
      <4>2. rows[k] = [x EXCEPT !.redacted = TRUE]
        BY <3>2, <4>1 DEF redact_answers
      <4> HIDE DEF rows
      <4> QED BY <2>1, <3>2, <4>1, <4>2, DocumentAbsent
    <3> QED BY <3>1, <3>2
  <2>3. rows = [k \in DKeys |-> rows[k]]
    BY DEF redact_answers
  <2> HIDE DEF rows
  <2> QED BY <2>2, <2>3
<1> HIDE DEF rows
<1>5. /\ w \in Database(S)
      /\ w.artifacts = tx.db.artifacts /\ w.runs = tx.db.runs /\ w.audit = tx.db.audit /\ w.graph = tx.db.graph
      /\ w.worlds = tx.db.worlds /\ w.envelopes = tx.db.envelopes
      /\ \A n \in DSpaces : w.answers[n] = IF n = tx.space THEN rows ELSE tx.db.answers[n]
  BY <1>1, <1>2, <1>4 DEF Database
<1> HIDE DEF w
<1>6. DatabaseSound(w)
  BY <1>2, <1>5 DEF DatabaseSound
<1>7. Follows(tx.db, w)
  BY <1>5, FollowsItself
<1>8. AnswersFollow(db, tx.space, tx.served, w.answers)
  <2>1. AnswersFollow(db, tx.space, tx.served, tx.db.answers)
    BY <1>0, OpenSession DEF SessionSound
  <2>2. \A n \in DSpaces : \A k \in DKeys :
           /\ w.answers[n][k] = None <=> tx.db.answers[n][k] = None
           /\ w.answers[n][k] # None => SameAnswer(w.answers[n][k], tx.db.answers[n][k])
    BY <1>4, <1>5 DEF SameAnswer
  <2>3. tx.served # None => tx.served.key \in DKeys
    BY <1>0, OpenSession DEF Session, ToldAnswer
  <2> QED BY <1>2, <2>1, <2>2, <2>3 DEF AnswersFollow, SameAnswer
<1> QED BY <1>0, <1>5, <1>6, <1>7, <1>8, StatementKeeps

-----------------------------------------------------------------------------
(* Requests, sessions and blobs.                                           *)

LEMMA ServeKeeps ==
    ASSUME DocumentInv, NEW k \in DKeys, NEW args \in DArgs, serve(k, args)
    PROVE  DocumentInv'
<1>0. tx # None /\ tx.served = None /\ tx.db.answers[tx.space][k] = None /\ tx.ops < DWork
  BY DEF serve
<1>1. PICK S : tx \in Session(S) /\ tx.db \in Database(S)
  BY <1>0, OpenSession
<1>2. tx.space \in DSpaces /\ tx.role \in DRoles /\ SessionSound(db, tx, files)
  BY <1>0, OpenSession
<1> DEFINE said == [space |-> tx.space, role |-> tx.role, key |-> k, args |-> args, answer |-> args]
           row == [role |-> tx.role, args |-> args, answer |-> args, redacted |-> FALSE]
           y == [tx EXCEPT !.ops = @ + 1, !.served = said, !.db.answers[tx.space][k] = row]
<1>3. /\ said \in ToldAnswer /\ said # None /\ said.space = tx.space /\ said.key = k
      /\ row \in CachedAnswer /\ row # None /\ SameAnswer(row, said)
  <2>1. said \in ToldAnswer /\ row \in CachedAnswer
    BY <1>2 DEF ToldAnswer, CachedAnswer
  <2>2. said.space = tx.space /\ said.key = k /\ SameAnswer(row, said)
    BY DEF SameAnswer
  <2> HIDE DEF said, row
  <2> QED BY <2>1, <2>2, DocumentAbsent
<1>4. tx' = y /\ UNCHANGED <<db, files, told, executed>>
  BY DEF serve
<1> HIDE DEF said, row
<1>5. tx.ops + 1 \in 0..DWork
  BY <1>0, <1>1, StoreLimits DEF Session
<1>6. /\ y \in Session(S) /\ y.space = tx.space /\ y.served = said /\ y.blobs = tx.blobs
      /\ y.db = [tx.db EXCEPT !.answers[tx.space][k] = row]
  <2>1. [tx.db EXCEPT !.answers[tx.space][k] = row] \in Database(S)
    BY <1>1, <1>2, <1>3 DEF Database
  <2> QED BY <1>1, <1>3, <1>5, <2>1 DEF Session
<1> HIDE DEF y
<1>7. /\ y.db.artifacts = tx.db.artifacts /\ y.db.runs = tx.db.runs /\ y.db.audit = tx.db.audit
      /\ y.db.graph = tx.db.graph /\ y.db.worlds = tx.db.worlds /\ y.db.envelopes = tx.db.envelopes
      /\ \A n \in DSpaces : \A i \in DKeys :
            y.db.answers[n][i] = IF n = tx.space /\ i = k THEN row ELSE tx.db.answers[n][i]
  BY <1>1, <1>2, <1>6 DEF Database
<1>8. DatabaseSound(y.db)
  BY <1>2, <1>7 DEF DatabaseSound, SessionSound
<1>9. Follows(db, y.db)
  BY <1>2, <1>7, FollowsItself, FollowsOn DEF SessionSound
<1>10. AnswersFollow(db, y.space, y.served, y.db.answers)
  <2>1. AnswersFollow(db, tx.space, tx.served, tx.db.answers)
    BY <1>2 DEF SessionSound
  <2>2. db.answers[tx.space][k] = None
    BY <1>0, <1>2, <2>1 DEF AnswersFollow
  <2>3. ASSUME NEW n \in DSpaces, NEW i \in DKeys
        PROVE  /\ db.answers[n][i] # None => y.db.answers[n][i] # None /\ SameAnswer(y.db.answers[n][i], db.answers[n][i])
               /\ y.db.answers[n][i] # None /\ db.answers[n][i] = None =>
                     n = tx.space /\ i = k /\ SameAnswer(y.db.answers[n][i], said)
    <3>1. CASE n = tx.space /\ i = k
      BY <1>3, <1>7, <2>2, <3>1
    <3>2. CASE ~(n = tx.space /\ i = k)
      BY <1>0, <1>7, <2>1, <3>2 DEF AnswersFollow
    <3> QED BY <3>1, <3>2
  <2> QED BY <1>2, <1>3, <1>6, <1>7, <2>2, <2>3 DEF AnswersFollow
<1>11. BytesStand(db, y, files)
  BY <1>2, <1>6, <1>7 DEF BytesStand, SessionSound
<1>12. SessionSound(db, y, files)
  BY <1>6, <1>8, <1>9, <1>10, <1>11 DEF SessionSound
<1> QED BY <1>4, <1>12, SessionGoesOn

\* An answer is handed out again: it is the committed one, as nothing was served
\* in this session.
LEMMA ReplayKeeps ==
    ASSUME DocumentInv, NEW k \in DKeys, NEW args \in DArgs, replay(k, args)
    PROVE  DocumentInv'
<1>1. /\ tx # None /\ tx.served = None /\ tx.db.answers[tx.space][k] # None
      /\ replays(tx.db.answers[tx.space][k], tx.role, args) /\ UNCHANGED <<db, tx, files, executed>>
  BY DEF replay
<1>2. PICK S : tx.db \in Database(S)
  BY <1>1, OpenSession
<1>3. tx.space \in DSpaces /\ tx.role \in DRoles /\ AnswersFollow(db, tx.space, tx.served, tx.db.answers)
  BY <1>1, OpenSession DEF SessionSound
<1>4. PICK row \in CachedAnswer : row = tx.db.answers[tx.space][k]
  BY <1>1, <1>2, <1>3 DEF Database
<1> DEFINE said == [space |-> tx.space, role |-> tx.role, key |-> k, args |-> args, answer |-> row.answer]
<1>5. /\ said \in ToldAnswer /\ said.space = tx.space /\ said.key = k /\ SameAnswer(row, said)
  BY <1>1, <1>3, <1>4 DEF ToldAnswer, CachedAnswer, SameAnswer, replays
<1>6. told' = told \cup {said}
  BY <1>4 DEF replay
<1> HIDE DEF said
<1>7. db.answers[tx.space][k] # None /\ SameAnswer(row, db.answers[tx.space][k])
  BY <1>1, <1>3, <1>4 DEF AnswersFollow
<1>8. ToldSound(db, told')
  BY <1>5, <1>6, <1>7 DEF ToldSound, DocumentInv, SameAnswer
<1> QED BY <1>1, <1>8 DEF DocumentInv

LEMMA EnvelopeKeeps ==
    ASSUME DocumentInv, NEW bs \in SUBSET DBlobs, register_envelope(bs)
    PROVE  DocumentInv'
<1>0. tx # None /\ tx.blobs /\ bs \subseteq files[tx.space] /\ tx.ops < DWork
  BY DEF register_envelope
<1>1. PICK S : tx \in Session(S) /\ tx.db \in Database(S)
  BY <1>0, OpenSession
<1>2. tx.space \in DSpaces /\ SessionSound(db, tx, files)
  BY <1>0, OpenSession
<1> DEFINE e == <<tx.space, bs>>
           y == [tx EXCEPT !.ops = @ + 1, !.new = @ \cup {bs}, !.db.envelopes = @ \cup {e}]
<1>3. tx' = y /\ UNCHANGED <<db, files, told, executed>>
  BY DEF register_envelope
<1>4. tx.ops + 1 \in 0..DWork
  BY <1>0, <1>1, StoreLimits DEF Session
<1>5. e \in DSpaces \X SUBSET DBlobs /\ e[1] = tx.space /\ e[2] = bs
  BY <1>2
<1> HIDE DEF e
<1>6. /\ y \in Session(S) /\ y.space = tx.space /\ y.served = tx.served /\ y.blobs = tx.blobs
      /\ y.db = [tx.db EXCEPT !.envelopes = tx.db.envelopes \cup {e}]
  <2>1. [tx.db EXCEPT !.envelopes = tx.db.envelopes \cup {e}] \in Database(S)
    BY <1>1, <1>5 DEF Database
  <2> QED BY <1>1, <1>4, <2>1 DEF Session
<1> HIDE DEF y
<1>7. /\ y.db.artifacts = tx.db.artifacts /\ y.db.runs = tx.db.runs /\ y.db.audit = tx.db.audit
      /\ y.db.graph = tx.db.graph /\ y.db.worlds = tx.db.worlds /\ y.db.answers = tx.db.answers
      /\ y.db.envelopes = tx.db.envelopes \cup {e}
  BY <1>1, <1>6 DEF Database
<1>8. DatabaseSound(y.db)
  BY <1>2, <1>7 DEF DatabaseSound, SessionSound
<1>9. Follows(db, y.db)
  BY <1>2, <1>7, FollowsItself, FollowsOn DEF SessionSound
<1>10. AnswersFollow(db, y.space, y.served, y.db.answers)
  BY <1>2, <1>6, <1>7 DEF SessionSound
<1>11. BytesStand(db, y, files)
  BY <1>0, <1>2, <1>5, <1>6, <1>7 DEF BytesStand, SessionSound
<1>12. SessionSound(db, y, files)
  BY <1>6, <1>8, <1>9, <1>10, <1>11 DEF SessionSound
<1> QED BY <1>3, <1>12, SessionGoesOn

LEMMA SessionKeeps ==
    ASSUME DocumentInv, NEW n \in DSpaces, NEW role \in DRoles, NEW blobs \in BOOLEAN, session(n, role, blobs)
    PROVE  DocumentInv'
<1> DEFINE y == [space |-> n, role |-> role, blobs |-> blobs, ops |-> 0, served |-> None, new |-> {}, db |-> db]
<1>1. tx' = y /\ UNCHANGED <<db, files, told, executed>>
  BY DEF session
<1>2. PICK S : db \in Database(S)
  BY DEF DocumentInv
<1>3. y \in Session(S) /\ y.db = db /\ y.served = None
  BY <1>2, StoreLimits DEF Session
<1> HIDE DEF y
<1>4. AnswersFollow(db, y.space, None, db.answers)
  BY DEF AnswersFollow, SameAnswer
<1>5. Follows(db, db) /\ BytesStand(db, y, files) /\ DatabaseSound(db)
  BY <1>3, FollowsItself DEF BytesStand, DocumentInv
<1>6. SessionSound(db, y, files)
  BY <1>3, <1>4, <1>5 DEF SessionSound
<1> QED BY <1>1, <1>6, SessionGoesOn

LEMMA CommitKeeps ==
    ASSUME DocumentInv, commit
    PROVE  DocumentInv'
<1>1. /\ tx # None /\ db' = tx.db /\ tx' = None /\ files' = files
      /\ executed' = IF tx.served = None THEN executed ELSE [executed EXCEPT ![tx.space][tx.served.key] = @ + 1]
      /\ told' = IF tx.served = None THEN told ELSE told \cup {tx.served}
  BY DEF commit
<1>2. PICK S : tx \in Session(S) /\ tx.db \in Database(S)
  BY <1>1, OpenSession
<1>3. tx.space \in DSpaces /\ DatabaseSound(tx.db) /\ AnswersFollow(db, tx.space, tx.served, tx.db.answers)
  BY <1>1, OpenSession DEF SessionSound
<1>4. tx.served # None =>
         tx.served \in ToldAnswer /\ tx.served.key \in DKeys /\ tx.served.space = tx.space
  BY <1>2, <1>3 DEF Session, ToldAnswer, AnswersFollow
<1>5. executed' \in [DSpaces -> [DKeys -> Nat]] /\ ExecutedSound(tx.db, executed')
  <2>1. executed \in [DSpaces -> [DKeys -> Nat]] /\ ExecutedSound(db, executed)
    BY DEF DocumentInv
  <2>2. CASE tx.served = None
    <3>1. \A n \in DSpaces : \A k \in DKeys : tx.db.answers[n][k] = None <=> db.answers[n][k] = None
      BY <1>3, <2>2 DEF AnswersFollow
    <3> QED BY <1>1, <2>1, <2>2, <3>1 DEF ExecutedSound
  <2>3. CASE tx.served # None
    <3>1. PICK j \in DKeys : j = tx.served.key
      BY <1>4, <2>3
    <3>2. db.answers[tx.space][j] = None /\ tx.db.answers[tx.space][j] # None
      BY <1>3, <2>3, <3>1 DEF AnswersFollow
    <3>3. \A n \in DSpaces : \A k \in DKeys : ~(n = tx.space /\ k = j) =>
             (tx.db.answers[n][k] = None <=> db.answers[n][k] = None)
      BY <1>3, <3>1 DEF AnswersFollow
    <3>4. executed' = [executed EXCEPT ![tx.space][j] = @ + 1]
      BY <1>1, <2>3, <3>1
    <3>5. /\ executed' \in [DSpaces -> [DKeys -> Nat]]
          /\ \A n \in DSpaces : \A k \in DKeys :
                executed'[n][k] = IF n = tx.space /\ k = j THEN executed[n][k] + 1 ELSE executed[n][k]
      BY <1>3, <2>1, <3>4
    <3> QED BY <1>3, <2>1, <3>2, <3>3, <3>5 DEF ExecutedSound
  <2> QED BY <2>2, <2>3
<1>6. ToldSound(tx.db, told')
  <2>1. ToldSound(db, told)
    BY DEF DocumentInv
  <2>2. ASSUME NEW x \in told
        PROVE  x \in ToldAnswer /\ tx.db.answers[x.space][x.key] # None /\ SameAnswer(tx.db.answers[x.space][x.key], x)
    <3>1. x \in ToldAnswer /\ x.space \in DSpaces /\ x.key \in DKeys
      BY <2>1 DEF ToldSound, ToldAnswer
    <3> QED BY <1>3, <2>1, <3>1 DEF ToldSound, AnswersFollow, SameAnswer
  <2>3. ASSUME tx.served # None
        PROVE  /\ tx.served \in ToldAnswer /\ tx.db.answers[tx.served.space][tx.served.key] # None
               /\ SameAnswer(tx.db.answers[tx.served.space][tx.served.key], tx.served)
    BY <1>3, <1>4, <2>3 DEF AnswersFollow
  <2> QED BY <1>1, <2>2, <2>3 DEF ToldSound
<1>7. \E R : db' \in Database(R)
  BY <1>1, <1>2
<1>8. DatabaseSound(db') /\ ExecutedSound(db', executed') /\ ToldSound(db', told')
  BY <1>1, <1>3, <1>5, <1>6
<1> QED BY <1>1, <1>5, <1>7, <1>8 DEF DocumentInv

\* Files that only grow, or shrink while no session holds their lock.
LEMMA FilesKeep ==
    ASSUME DocumentInv, UNCHANGED <<db, tx, told, executed>>, NEW n \in DSpaces, NEW F \in SUBSET DBlobs,
           files' = [files EXCEPT ![n] = F], files[n] \subseteq F \/ (tx # None => ~tx.blobs)
    PROVE  DocumentInv'
<1>1. files \in [DSpaces -> SUBSET DBlobs] /\ files' \in [DSpaces -> SUBSET DBlobs]
  BY DEF DocumentInv
<1>2. ASSUME tx # None PROVE SessionSound(db, tx, files')
  <2>1. PICK S : tx.db \in Database(S)
    BY <1>2, OpenSession
  <2>2. SessionSound(db, tx, files)
    BY <1>2, OpenSession
  <2>3. ASSUME NEW e \in tx.db.envelopes \ db.envelopes PROVE tx.blobs /\ e[2] \subseteq files'[e[1]]
    <3>1. tx.blobs /\ e[2] \subseteq files[e[1]] /\ e[1] \in DSpaces
      BY <2>1, <2>2 DEF SessionSound, BytesStand, Database
    <3>2. files[n] \subseteq F
      BY <1>2, <3>1
    <3> QED BY <1>1, <3>1, <3>2
  <2> QED BY <2>2, <2>3 DEF SessionSound, BytesStand
<1> QED BY <1>1, <1>2 DEF DocumentInv

LEMMA BlobsKeep ==
    ASSUME DocumentInv, NEW b \in DBlobs,
           publish_in_session(b) \/ \E n \in DSpaces : put_blob(n, b) \/ delete_blob(n, b)
    PROVE  DocumentInv'
<1>0. files \in [DSpaces -> SUBSET DBlobs]
  BY DEF DocumentInv
<1>1. CASE publish_in_session(b)
  <2>1. tx # None /\ UNCHANGED <<db, tx, told, executed>> /\ files' = [files EXCEPT ![tx.space] = files[tx.space] \cup {b}]
    BY <1>1 DEF publish_in_session
  <2>2. tx.space \in DSpaces /\ files[tx.space] \cup {b} \in SUBSET DBlobs
    BY <1>0, <2>1, OpenSession
  <2> QED BY <2>1, <2>2, FilesKeep
<1>2. ASSUME NEW n \in DSpaces, put_blob(n, b) PROVE DocumentInv'
  <2>1. UNCHANGED <<db, tx, told, executed>> /\ files' = [files EXCEPT ![n] = files[n] \cup {b}]
    BY <1>2 DEF put_blob
  <2>2. files[n] \cup {b} \in SUBSET DBlobs
    BY <1>0
  <2> QED BY <2>1, <2>2, FilesKeep
<1>3. ASSUME NEW n \in DSpaces, delete_blob(n, b) PROVE DocumentInv'
  <2>1. /\ UNCHANGED <<db, tx, told, executed>> /\ files' = [files EXCEPT ![n] = files[n] \ {b}]
        /\ tx # None => ~tx.blobs
    BY <1>3 DEF delete_blob, may_delete, BlobsFree
  <2>2. files[n] \ {b} \in SUBSET DBlobs
    BY <1>0
  <2> QED BY <2>1, <2>2, FilesKeep
<1> QED BY <1>1, <1>2, <1>3

-----------------------------------------------------------------------------
(* The theorems.                                                           *)

LEMMA DocumentStarts == document_init => DocumentInv
<1> SUFFICES ASSUME document_init PROVE DocumentInv
  OBVIOUS
<1> DEFINE d == EmptyDatabase
<1>1. db = d /\ tx = None /\ files = [n \in DSpaces |-> {}] /\ told = {} /\ executed = [n \in DSpaces |-> [k \in DKeys |-> 0]]
  BY DEF document_init
<1>2. EmptyGraph \in Graph /\ EmptyGraph.edges = {} /\ EmptyGraph.mark = 0
      /\ \A x \in DNodes : EmptyGraph.derived[x] = None /\ EmptyGraph.tombstones[x] = None
  BY DEF EmptyGraph, Graph
<1>3. /\ d \in Database({}) /\ d.audit = <<>>
      /\ \A n \in DSpaces :
            /\ d.graph[n] = EmptyGraph /\ d.runs[n] = {}
            /\ \A a \in DArtifacts : d.artifacts[n][a] = Absent
            /\ \A k \in DKeys : d.answers[n][k] = None
            /\ \A w \in DWorldIds : d.worlds[n][w] = None
  <2> HIDE DEF EmptyGraph
  <2> QED BY <1>2 DEF EmptyDatabase, Database
<1> HIDE DEF d
<1>4. Within({}, MaxTraces) /\ Within({}, MaxRuns) /\ Within({}, MaxWorlds)
  BY FS_EmptySet, StoreLimits DEF Within
<1>5. TraceSlots(d.artifacts) = {} /\ RunSlots(d.runs) = {} /\ WorldSlots(d.worlds) = {}
  <2>1. ~is_trace_export_record(Absent)
    BY DEF is_trace_export_record, Absent
  <2>2. TraceSlots(d.artifacts) = {}
    <3>1. \A p \in DSpaces \X DArtifacts : d.artifacts[p[1]][p[2]] = Absent
      BY <1>3, Pairs
    <3> QED BY <2>1, <3>1 DEF TraceSlots, is_trace_export_record
  <2> QED BY <1>3, <2>2 DEF RunSlots, WorldSlots
<1>6. GraphSound(EmptyGraph)
  <2>1. Revoked(EmptyGraph) = {}
    BY <1>2 DEF Revoked
  <2> QED BY <1>2, <2>1, FS_EmptySet DEF GraphSound
<1>7. ChainSound(<<>>)
  BY DEF ChainSound, verify_audit, service_success_facts, HasNewest, Before
<1>8. DatabaseSound(d)
  BY <1>3, <1>4, <1>5, <1>6, <1>7 DEF DatabaseSound
<1>9. ExecutedSound(d, executed) /\ ToldSound(d, told)
  BY <1>1, <1>3 DEF ExecutedSound, ToldSound
<1> QED BY <1>1, <1>3, <1>8, <1>9 DEF DocumentInv

LEMMA DocumentSteps == DocumentInv /\ [document_next]_dvars => DocumentInv'
<1> SUFFICES ASSUME DocumentInv, [document_next]_dvars PROVE DocumentInv'
  OBVIOUS
<1>1. CASE UNCHANGED dvars
  BY <1>1 DEF dvars, DocumentInv
<1>2. CASE drop_session
  BY <1>2 DEF drop_session, DocumentInv
<1>3. CASE document_next
  BY <1>2, <1>3, SessionKeeps, CommitKeeps, DeleteArtifactKeeps, PutArtifactKeeps, PutRunKeeps, ServiceSuccessKeeps,
     WriteAuditKeeps, RedactCacheKeeps, ServeKeeps, ReplayKeeps, StoreRevokeKeeps, DeriveKeeps, PutWorldKeeps,
     BlobsKeep, EnvelopeKeeps
     DEF document_next
<1> QED BY <1>1, <1>3

\* The inductive invariant of the store holds in every reachable state.
THEOREM DocumentInvAlways == document_spec => []DocumentInv
BY DocumentStarts, DocumentSteps, PTL DEF document_spec

LEMMA InvImpliesSafe == DocumentInv => DocumentSafe
<1> SUFFICES ASSUME DocumentInv PROVE DocumentSafe
  OBVIOUS
<1>1. PICK S : db \in Database(S)
  BY DEF DocumentInv
<1>2. DatabaseSound(db)
  BY DEF DocumentInv
<1>3. DocumentTypeOK
  <2>1. ASSUME NEW n \in DSpaces, NEW a \in DArtifacts
        PROVE  db.artifacts[n][a].class \in {"absent", "plain", "trace", "redacted trace"}
    <3>1. db.artifacts[n][a] \in ArtifactRow \cup {Absent}
      BY <1>1 DEF Database
    <3>2. PICK row : row = db.artifacts[n][a]
      OBVIOUS
    <3>3. row \in ArtifactRow => row.class \in {"plain", "trace", "redacted trace"}
      BY DEF ArtifactRow
    <3>4. row = Absent => row.class = "absent"
      BY DEF Absent
    <3> QED BY <3>1, <3>2, <3>3, <3>4
  <2>2. \A n \in DSpaces : db.runs[n] \subseteq DRunIds /\ files[n] \subseteq DBlobs
    BY <1>1 DEF Database, DocumentInv
  <2>3. \A n \in DSpaces : db.graph[n].mark = Cardinality({d \in DNodes : db.graph[n].tombstones[d] # None})
    BY <1>2 DEF DatabaseSound, GraphSound, Revoked
  <2>4. tx # None => tx.space \in DSpaces /\ tx.role \in DRoles /\ tx.ops <= DWork
    BY OpenSession, StoreLimits
  <2> QED BY <2>1, <2>2, <2>3, <2>4 DEF DocumentTypeOK
<1>4. CapacityKept
  BY <1>2 DEF DatabaseSound, CapacityKept, Within, TraceSlots, RunSlots, WorldSlots,
     count_runs_all_namespaces, replay_world_count
<1>5. ExecutedOncePerKey
  BY DEF DocumentInv, ExecutedSound, ExecutedOncePerKey
<1>6. AnswerIsTheOwners
  <2>1. ToldSound(db, told)
    BY DEF DocumentInv
  <2>2. ASSUME NEW x \in told, NEW y \in told, x.space = y.space, x.key = y.key PROVE x = y
    <3>1. x \in ToldAnswer /\ y \in ToldAnswer
      BY <2>1 DEF ToldSound
    <3>2. x.role = y.role /\ x.args = y.args /\ x.answer = y.answer
      BY <2>1, <2>2 DEF ToldSound, SameAnswer
    <3> QED BY <2>2, <3>1, <3>2 DEF ToldAnswer
  <2> QED BY <2>2 DEF AnswerIsTheOwners
<1>7. ChainVerifies
  BY <1>2 DEF DatabaseSound, ChainSound, ChainVerifies
<1>8. DerivedFromLive
  BY <1>2 DEF DatabaseSound, GraphSound, DerivedFromLive
<1> QED BY <1>3, <1>4, <1>5, <1>6, <1>7, <1>8 DEF DocumentSafe

\* For any namespaces, identities and capacities, and any order of sessions,
\* commits and drops: capacities hold over all namespaces, a request key has one
\* execution and one answer, every audit chain verifies, and nothing was derived
\* from a revoked source at any distance.
THEOREM DocumentIsSafe == document_spec => []DocumentSafe
BY DocumentInvAlways, InvImpliesSafe, PTL

\* The database changes only by the commit of the open session.
LEMMA OnlyCommits ==
    ASSUME DocumentInv, [document_next]_dvars
    PROVE  db' = db \/ (tx # None /\ db' = tx.db /\ files' = files /\ SessionSound(db, tx, files))
<1>1. CASE commit
  BY <1>1, OpenSession DEF commit
<1>2. CASE UNCHANGED dvars
  BY <1>2 DEF dvars
<1>3. CASE document_next /\ ~commit
  BY <1>3 DEF document_next, session, drop_session, delete_artifact, put_artifact, put_run, delete_run,
     audit_service_success, write_audit, redact_cache, serve, replay, revoke_node, derive, put_world,
     publish_in_session, put_blob, delete_blob, register_envelope, Statement
<1> QED BY <1>1, <1>2, <1>3

\* Trace export history is kept through every commit, whatever the session did.
THEOREM HistoryIsKept == document_spec => HistoryKept
<1>1. ASSUME DocumentInv, [document_next]_dvars
      PROVE  \A n \in DSpaces : \A a \in DArtifacts :
                LET old == db.artifacts[n][a]  new == db'.artifacts[n][a] IN
                is_trace_export_record(old) =>
                   /\ is_trace_export_record(new)
                   /\ (old.class = "redacted trace" => new = old)
  BY <1>1, OnlyCommits DEF SessionSound, Follows
<1> QED BY <1>1, DocumentInvAlways, PTL DEF document_spec, HistoryKept

\* A sealed world is never changed or reopened by a commit.
THEOREM SealedStays == document_spec => SealedForGood
<1>1. ASSUME DocumentInv, [document_next]_dvars
      PROVE  \A n \in DSpaces : \A w \in DWorldIds :
                (db.worlds[n][w] # None /\ db.worlds[n][w].sealed) => db'.worlds[n][w] = db.worlds[n][w]
  BY <1>1, OnlyCommits DEF SessionSound, Follows
<1> QED BY <1>1, DocumentInvAlways, PTL DEF document_spec, SealedForGood

\* An envelope is committed with the bytes it needs in place, since nobody removes
\* a blob while a session that registers holds the lock.
THEOREM EnvelopesHaveBytes == document_spec => BytesStandAtCommit
<1>1. ASSUME DocumentInv, [document_next]_dvars
      PROVE  \A e \in db'.envelopes \ db.envelopes : e[2] \subseteq files'[e[1]]
  BY <1>1, OnlyCommits DEF SessionSound, BytesStand
<1> QED BY <1>1, DocumentInvAlways, PTL DEF document_spec, BytesStandAtCommit

-----------------------------------------------------------------------------
(***************************************************************************)
(* Releases and the runs that use them, for any number of candidates,      *)
(* reports, profiles, sources, calls and runs.  The first half is about    *)
(* the transactions of the release store, the second about the service.    *)
(***************************************************************************)

USE DEF Unstaged, Unissued, NoReply, NoSnapshot, NotYet

-----------------------------------------------------------------------------
(* Ancestry.                                                               *)

\* A candidate's ancestors are itself and its parent's.
LEMMA AncestryUp ==
    ASSUME NEW c \in Candidates
    PROVE  /\ ParentOf[c] = 0 => Ancestry(c) \subseteq {c}
           /\ ParentOf[c] # 0 => Ancestry(c) \subseteq {c} \cup Ancestry(ParentOf[c])
<1>1. CASE ParentOf[c] = 0
  <2>1. {c} \in SUBSET Candidates /\ WithParents({c})
    BY <1>1 DEF WithParents
  <2> QED BY <1>1, <2>1 DEF Ancestry
<1>2. CASE ParentOf[c] # 0
  <2> DEFINE S == {c} \cup Ancestry(ParentOf[c])
  <2>1. ParentOf[c] \in Candidates
    BY <1>2, ReleaseShape
  <2>2. ParentOf[c] \in Ancestry(ParentOf[c])
    BY <2>1 DEF Ancestry
  <2>3. WithParents(Ancestry(ParentOf[c]))
    <3> SUFFICES ASSUME NEW k \in Ancestry(ParentOf[c]), ParentOf[k] # 0
                 PROVE  ParentOf[k] \in Ancestry(ParentOf[c])
      BY DEF WithParents
    <3>1. k \in Candidates /\ ParentOf[k] \in Candidates
      BY ReleaseShape DEF Ancestry
    <3>2. ASSUME NEW T \in SUBSET Candidates, ParentOf[c] \in T, WithParents(T) PROVE ParentOf[k] \in T
      BY <3>2 DEF Ancestry, WithParents
    <3> QED BY <3>1, <3>2 DEF Ancestry
  <2>4. S \in SUBSET Candidates /\ WithParents(S)
    BY <2>2, <2>3 DEF Ancestry, WithParents
  <2> QED BY <1>2, <2>4 DEF Ancestry
<1> QED BY <1>1, <1>2

\* What a report rests on: the sources of its candidate and, for a candidate with
\* a parent, what any report of the parent rests on.
LEMMA FoundationsUp ==
    ASSUME NEW r \in Reports
    PROVE  /\ ParentOf[Judges[r]] = 0 => Foundations(r) \subseteq SourcesOf[Judges[r]]
           /\ \A q \in Reports : ParentOf[Judges[r]] # 0 /\ Judges[q] = ParentOf[Judges[r]] =>
                 Foundations(r) \subseteq SourcesOf[Judges[r]] \cup Foundations(q)
<1>1. Judges[r] \in Candidates
  BY ReleaseShape
<1> QED BY <1>1, AncestryUp DEF Foundations

-----------------------------------------------------------------------------
(* The release store's invariant.                                          *)

\* OneActive, release by release.
ActiveIsPointed ==
    \A p \in Profiles, r \in Reports :
        (ReleaseProfile(r) = p /\ rel[r].state = "active") <=> pointer[p].active = r

ParentIsJudged == \A c \in Candidates : parentSel[c] # None => Judges[parentSel[c]] = c
ApprovedIsParent == \A r \in Reports : rel[r].state # "none" => parentSel[Judges[r]] = r

\* An authority issued at the present watermark rests on nothing revoked, through
\* all the candidates its candidate descends from.
IssuedIsClean ==
    \A r \in Reports : issued[r] # Unissued =>
        /\ issued[r].watermark <= watermark
        /\ issued[r].watermark = watermark => Foundations(r) \cap revoked = {}

ReleaseInv ==
    /\ ReleaseTypeOK /\ ActiveIsPointed
    /\ ParentIsJudged /\ ApprovedIsParent /\ IssuedIsClean

LEMMA WatermarkIsNat ==
    ASSUME ReleaseTypeOK
    PROVE  IsFiniteSet(revoked) /\ watermark \in Nat
BY ReleaseShape, FS_Subset, FS_CardinalityType DEF ReleaseTypeOK, watermark

LEMMA ReleaseInvInit == ReleaseInit => ReleaseInv
<1> SUFFICES ASSUME ReleaseInit PROVE ReleaseInv
  OBVIOUS
<1>1. ReleaseTypeOK
  <2>1. \A r \in Reports : rel[r] \in ReleaseRecord
    BY DEF ReleaseInit, ReleaseRecord, States, HostIds
  <2>2. \A p \in Profiles : pointer[p] \in Pointer /\ (pointer[p].epoch = 0 <=> pointer[p].active = None)
    BY DEF ReleaseInit, Pointer, HostIds
  <2> QED BY <2>1, <2>2, ReleaseShape DEF ReleaseInit, ReleaseTypeOK
<1>2. ActiveIsPointed
  BY ReleaseShape DEF ReleaseInit, ActiveIsPointed
<1> QED BY <1>1, <1>2 DEF ReleaseInv, ReleaseInit, ParentIsJudged, ApprovedIsParent, IssuedIsClean

LEMMA InvMeansOneActive == ReleaseInv => OneActive
<1> SUFFICES ASSUME ReleaseInv, NEW p \in Profiles
             PROVE  {r \in Reports : ReleaseProfile(r) = p /\ rel[r].state = "active"} = {pointer[p].active} \ {None}
  BY DEF OneActive
<1>1. pointer[p].active \in Reports \cup {None} /\ None \notin Reports
  BY ReleaseShape DEF ReleaseInv, ReleaseTypeOK, Pointer
<1>2. \A r \in Reports : (ReleaseProfile(r) = p /\ rel[r].state = "active") <=> pointer[p].active = r
  BY DEF ReleaseInv, ActiveIsPointed
<1> QED BY <1>1, <1>2

LEMMA InvMeansOneApproval == ReleaseInv => OneApprovalPerBundle
<1> SUFFICES ASSUME ReleaseInv, NEW c \in Candidates
             PROVE  Cardinality({r \in Reports : Judges[r] = c /\ rel[r].state # "none"}) <= 1
  BY DEF OneApprovalPerBundle
<1> DEFINE S == {r \in Reports : Judges[r] = c /\ rel[r].state # "none"}
<1>1. S \subseteq {parentSel[c]}
  BY DEF ReleaseInv, ApprovedIsParent
<1>2. IsFiniteSet({parentSel[c]}) /\ Cardinality({parentSel[c]}) = 1
  BY FS_Singleton
<1>3. Cardinality(S) <= Cardinality({parentSel[c]})
  BY <1>1, <1>2, FS_Subset
<1> QED BY <1>2, <1>3

\* An authority that stands is clean.
LEMMA StandingIsClean ==
    ASSUME ReleaseInv, NEW r \in Reports, NEW rels, AuthorityStands(r, rels)
    PROVE  Foundations(r) \cap revoked = {}
BY DEF AuthorityStands, ReleaseInv, IssuedIsClean

-----------------------------------------------------------------------------
(* One lemma per transaction.                                              *)

LEMMA SelectedHostType ==
    ASSUME ReleaseTypeOK, NEW p \in Profiles
    PROVE  SelectedHost(p) \in HostIds
BY DEF ReleaseTypeOK, SelectedHost, HostIds

\* A write of one row.
LEMMA WrittenRow ==
    ASSUME ReleaseTypeOK, NEW rels \in [Reports -> ReleaseRecord], NEW r \in Reports, NEW s \in States
    PROVE  /\ Written(rels, r, s) \in [Reports -> ReleaseRecord]
           /\ Written(rels, r, s)[r].state = s
           /\ \A q \in Reports : q # r => Written(rels, r, s)[q] = rels[q]
<1> DEFINE h == SelectedHost(ReleaseProfile(r))
           x == rels[r]
           w == x.writes + 1
           y == [x EXCEPT !.state = s, !.writes = w, !.host = h]
<1>1. x \in ReleaseRecord /\ ReleaseProfile(r) \in Profiles
  BY ReleaseShape DEF ReleaseProfile
<1>2. h \in HostIds
  BY <1>1, SelectedHostType
<1>3. Written(rels, r, s) = [rels EXCEPT ![r] = y]
  BY DEF Written
<1> HIDE DEF h, x
<1>4. w \in Nat
  BY <1>1 DEF ReleaseRecord
<1> HIDE DEF w
<1>5. y \in ReleaseRecord
  BY <1>1, <1>2, <1>4 DEF ReleaseRecord
<1>6. y.state = s
  BY <1>1 DEF ReleaseRecord
<1> HIDE DEF y
<1> QED BY <1>3, <1>5, <1>6

LEMMA RevokeInv == ASSUME ReleaseInv, NEW s \in Sources, begin_revoke_source(s) PROVE ReleaseInv'
<1>1. ReleaseTypeOK' /\ ActiveIsPointed' /\ ParentIsJudged' /\ ApprovedIsParent'
  BY DEF ReleaseInv, begin_revoke_source, ReleaseTypeOK, ActiveIsPointed, ParentIsJudged, ApprovedIsParent
<1>2. watermark' = watermark + 1 /\ watermark \in Nat
  BY WatermarkIsNat, FS_AddElement DEF ReleaseInv, begin_revoke_source, watermark
<1>3. IssuedIsClean'
  <2> SUFFICES ASSUME NEW r \in Reports, issued[r] # Unissued
               PROVE  issued[r].watermark <= watermark' /\ issued[r].watermark # watermark'
    BY DEF IssuedIsClean, begin_revoke_source
  <2>1. issued[r].watermark \in Nat /\ issued[r].watermark <= watermark
    BY DEF ReleaseInv, ReleaseTypeOK, Authority, IssuedIsClean
  <2> QED BY <1>2, <2>1
<1> QED BY <1>1, <1>3 DEF ReleaseInv

\* The authorities, and what they were issued over, stay.
LEMMA AuthoritiesStay ==
    ASSUME ReleaseInv, UNCHANGED <<revoked, issued>>
    PROVE  IssuedIsClean'
BY DEF ReleaseInv, IssuedIsClean, watermark, Foundations

LEMMA SelectInv ==
    ASSUME ReleaseInv, NEW p \in Profiles, NEW g \in Registrations, freeze_profile_original(p, g)
    PROVE  ReleaseInv'
<1>1. ReleaseTypeOK' /\ ActiveIsPointed' /\ ParentIsJudged' /\ ApprovedIsParent'
  BY DEF ReleaseInv, freeze_profile_original, ReleaseTypeOK, ActiveIsPointed, ParentIsJudged, ApprovedIsParent
<1> QED BY <1>1, AuthoritiesStay DEF ReleaseInv, freeze_profile_original

LEMMA LineType ==
    ASSUME ReleaseTypeOK, NEW c \in Candidates
    PROVE  Line(c, rel) \in Lines
<1>1. \A k \in Ancestry(c) : k \in Candidates
  BY DEF Ancestry
<1>2. \A k \in Ancestry(c) : parentSel[k] # None => parentSel[k] \in Reports /\ rel[parentSel[k]].writes \in Nat
  BY <1>1 DEF ReleaseTypeOK, ReleaseRecord
<1> QED BY <1>2 DEF Line, Lines

LEMMA StageInv == ASSUME ReleaseInv, NEW c \in Candidates, stage_current_bundle(c) PROVE ReleaseInv'
<1>1. BindingNow(c) \in Binding
  <2>1. ProfileOf[c] \in Profiles /\ ReleaseTypeOK
    BY ReleaseShape DEF ReleaseInv
  <2>2. watermark \in Nat /\ Line(c, rel) \in Lines
    BY <2>1, WatermarkIsNat, LineType
  <2>3. pointer[ProfileOf[c]] \in Pointer /\ selection[ProfileOf[c]] \in Registrations
    BY <2>1 DEF ReleaseTypeOK
  <2> QED BY <2>2, <2>3 DEF BindingNow, Binding
<1>2. cand' \in [Candidates -> {Unstaged} \cup Binding]
  BY <1>1 DEF stage_current_bundle, ReleaseInv, ReleaseTypeOK
<1>3. ReleaseTypeOK' /\ ActiveIsPointed' /\ ParentIsJudged' /\ ApprovedIsParent'
  BY <1>2 DEF ReleaseInv, stage_current_bundle, ReleaseTypeOK, ActiveIsPointed, ParentIsJudged, ApprovedIsParent
<1> QED BY <1>3, AuthoritiesStay DEF ReleaseInv, stage_current_bundle

\* The parent's authority stands when a child's is issued, so both rest on nothing
\* revoked.
LEMMA IssuedOverClean ==
    ASSUME ReleaseInv, NEW r \in Reports, Writable(r, rel)
    PROVE  Foundations(r) \cap revoked = {}
<1> DEFINE c == Judges[r]
<1>1. c \in Candidates
  BY ReleaseShape
<1>2. SourcesOf[c] \cap revoked = {} /\ ParentStands(c, rel)
  BY DEF Writable, Resolves
<1>3. CASE ParentOf[c] = 0
  BY <1>2, <1>3, FoundationsUp
<1>4. CASE ParentOf[c] # 0
  <2>1. ParentOf[c] \in Candidates
    BY <1>1, <1>4, ReleaseShape
  <2>2. PICK q \in Reports : parentSel[ParentOf[c]] = q /\ AuthorityStands(q, rel)
    BY <1>2, <1>4 DEF ParentStands
  <2>3. Judges[q] = ParentOf[c]
    BY <2>1, <2>2, ReleaseShape DEF ReleaseInv, ParentIsJudged
  <2>4. Foundations(q) \cap revoked = {}
    BY <2>2, StandingIsClean
  <2>5. Foundations(r) \subseteq SourcesOf[c] \cup Foundations(q)
    BY <1>4, <2>3, FoundationsUp
  <2> QED BY <1>2, <2>4, <2>5
<1> QED BY <1>3, <1>4

LEMMA IssueInv == ASSUME ReleaseInv, NEW r \in Reports, issue_complete_authority(r) PROVE ReleaseInv'
<1> DEFINE y == [watermark |-> watermark, line |-> Line(Judges[r], rel), reg |-> selection[ReleaseProfile(r)]]
<1>1. ReleaseTypeOK /\ Judges[r] \in Candidates /\ ReleaseProfile(r) \in Profiles
  BY ReleaseShape DEF ReleaseInv, ReleaseProfile
<1>2. y \in Authority /\ y.watermark = watermark /\ watermark \in Nat
  BY <1>1, WatermarkIsNat, LineType DEF Authority, ReleaseTypeOK
<1>3. issued' = [issued EXCEPT ![r] = y] /\ UNCHANGED <<revoked, selection, cand, rel, parentSel, pointer>>
  BY DEF issue_complete_authority
<1> HIDE DEF y
<1>4. issued' \in [Reports -> {Unissued} \cup Authority] /\ issued'[r] = y
  BY <1>1, <1>2, <1>3 DEF ReleaseTypeOK
<1>5. ReleaseTypeOK' /\ ActiveIsPointed' /\ ParentIsJudged' /\ ApprovedIsParent'
  BY <1>3, <1>4 DEF ReleaseInv, ReleaseTypeOK, ActiveIsPointed, ParentIsJudged, ApprovedIsParent
<1>6. Foundations(r) \cap revoked = {}
  BY IssuedOverClean DEF issue_complete_authority
<1>7. watermark' = watermark
  BY <1>3 DEF watermark
<1>8. IssuedIsClean'
  <2> SUFFICES ASSUME NEW q \in Reports, issued'[q] # Unissued
               PROVE  /\ issued'[q].watermark <= watermark
                      /\ issued'[q].watermark = watermark => Foundations(q) \cap revoked = {}
    BY <1>3, <1>7 DEF IssuedIsClean, Foundations
  <2>1. CASE q = r
    BY <1>2, <1>4, <1>6, <2>1
  <2>2. CASE q # r
    <3>1. issued'[q] = issued[q]
      BY <1>3, <2>2, <1>1 DEF ReleaseTypeOK
    <3> QED BY <3>1 DEF ReleaseInv, IssuedIsClean
  <2> QED BY <2>1, <2>2
<1> QED BY <1>5, <1>8 DEF ReleaseInv

\* A release comes to be approved; the first report of its bundle.
LEMMA ApproveInv == ASSUME ReleaseInv, NEW r \in Reports, approve_verified(r) PROVE ReleaseInv'
<1> DEFINE w == Written(rel, r, "approved")
           b == pointer[ReleaseProfile(r)].active
<1>1. ReleaseTypeOK /\ Judges[r] \in Candidates /\ ReleaseProfile(r) \in Profiles /\ "approved" \in States
  BY ReleaseShape DEF ReleaseInv, ReleaseProfile, States
<1>2. /\ w \in [Reports -> ReleaseRecord] /\ w[r].state = "approved"
      /\ \A q \in Reports : q # r => w[q] = rel[q]
  BY <1>1, WrittenRow DEF ReleaseTypeOK
<1>3. b \in Reports \cup {None}
  BY <1>1 DEF ReleaseTypeOK, Pointer
<1>4. /\ rel' = [w EXCEPT ![r].base = b] /\ rel[r].state = "none"
      /\ parentSel[Judges[r]] \in {None, r} /\ parentSel' = [parentSel EXCEPT ![Judges[r]] = r]
      /\ UNCHANGED <<revoked, selection, cand, issued, pointer>>
  BY DEF approve_verified, record_parent_approval
<1> HIDE DEF w, b
<1>5. rel' \in [Reports -> ReleaseRecord]
  BY <1>2, <1>3, <1>4 DEF ReleaseRecord
<1>6. rel'[r].state = "approved" /\ \A q \in Reports : q # r => rel'[q] = rel[q]
  BY <1>2, <1>4 DEF ReleaseRecord
<1>7. ReleaseTypeOK'
  BY <1>1, <1>4, <1>5 DEF ReleaseTypeOK
<1>8. ActiveIsPointed'
  BY <1>4, <1>6 DEF ReleaseInv, ActiveIsPointed
<1>9. /\ parentSel'[Judges[r]] = r
      /\ \A c \in Candidates : c # Judges[r] => parentSel'[c] = parentSel[c]
  BY <1>1, <1>4 DEF ReleaseTypeOK
<1>10. ParentIsJudged'
  BY <1>9 DEF ReleaseInv, ParentIsJudged
<1>11. ApprovedIsParent'
  <2> SUFFICES ASSUME NEW q \in Reports, rel'[q].state # "none" PROVE parentSel'[Judges[q]] = q
    BY DEF ApprovedIsParent
  <2>1. CASE q = r
    BY <1>9, <2>1
  <2>2. CASE q # r
    <3>1. parentSel[Judges[q]] = q /\ Judges[q] \in Candidates
      BY <1>6, <2>2, ReleaseShape DEF ReleaseInv, ApprovedIsParent
    <3>2. q # None
      BY ReleaseShape
    <3>3. Judges[q] # Judges[r]
      BY <1>4, <2>2, <3>1, <3>2
    <3> QED BY <1>9, <3>1, <3>3
  <2> QED BY <2>1, <2>2
<1> QED BY <1>7, <1>8, <1>10, <1>11, <1>4, AuthoritiesStay DEF ReleaseInv

LEMMA CanaryInv == ASSUME ReleaseInv, NEW r \in Reports, advance_canary(r) PROVE ReleaseInv'
<1> DEFINE w == Written(rel, r, "canary")
<1>1. ReleaseTypeOK /\ "canary" \in States
  BY DEF ReleaseInv, States
<1>2. /\ w \in [Reports -> ReleaseRecord] /\ w[r].state = "canary"
      /\ \A q \in Reports : q # r => w[q] = rel[q]
  BY <1>1, WrittenRow DEF ReleaseTypeOK
<1>3. rel' = w /\ rel[r].state = "approved" /\ UNCHANGED <<revoked, selection, cand, issued, parentSel, pointer>>
  BY DEF advance_canary
<1> HIDE DEF w
<1>4. ReleaseTypeOK'
  BY <1>1, <1>2, <1>3 DEF ReleaseTypeOK
<1>5. ActiveIsPointed'
  BY <1>2, <1>3 DEF ReleaseInv, ActiveIsPointed
<1>6. ParentIsJudged' /\ ApprovedIsParent'
  BY <1>2, <1>3 DEF ReleaseInv, ParentIsJudged, ApprovedIsParent
<1> QED BY <1>3, <1>4, <1>5, <1>6, AuthoritiesStay DEF ReleaseInv

\* The pointer of p goes from one release to another, and their two rows with it.
Hands(p, from, to) ==
    /\ to \in Reports /\ p \in Profiles /\ ReleaseProfile(to) = p /\ from # to
    /\ pointer[p].active = from /\ rel[to].state \notin {"none", "rolled_back"}
    /\ \E h \in HostIds : pointer' = [pointer EXCEPT ![p] = [active |-> to, epoch |-> pointer[p].epoch + 1, host |-> h]]
    /\ rel' \in [Reports -> ReleaseRecord] /\ rel'[to].state = "active"
    /\ from # None => from \in Reports /\ rel'[from].state \in {"superseded", "rolled_back"}
    /\ \A q \in Reports \ {from, to} : rel'[q] = rel[q]
    /\ AuthorityStands(to, rel)
    /\ UNCHANGED <<revoked, selection, cand, issued, parentSel>>

LEMMA ActivateHands ==
    ASSUME ReleaseInv, NEW r \in Reports, NEW e, activate(r, e)
    PROVE  Hands(ReleaseProfile(r), rel[r].base, r)
<1> DEFINE p == ReleaseProfile(r)
           base == rel[r].base
           without == Supersede(rel, r)
           w == Written(without, r, "active")
<1>1. ReleaseTypeOK /\ p \in Profiles /\ {"superseded", "active"} \subseteq States
  BY ReleaseShape DEF ReleaseInv, ReleaseProfile, States
<1>2. /\ rel[r].state = "canary" /\ Revalidates(r) /\ pointer[p].active = base /\ pointer[p].epoch = e
      /\ pointer' = [pointer EXCEPT ![p] = [active |-> r, epoch |-> e + 1, host |-> SelectedHost(p)]]
      /\ base # None => rel[base].state = "active"
      /\ rel' = w /\ UNCHANGED <<revoked, selection, cand, issued, parentSel>>
  BY DEF activate, cas_pointer
<1>3. SelectedHost(p) \in HostIds
  BY <1>1, SelectedHostType
<1>4. rel \in [Reports -> ReleaseRecord] /\ base \in Reports \cup {None}
  BY <1>1 DEF ReleaseTypeOK, ReleaseRecord
<1>5. base # r
  BY <1>2, <1>4, ReleaseShape
<1>6. /\ without \in [Reports -> ReleaseRecord]
      /\ base # None => without[base].state = "superseded"
      /\ \A q \in Reports : q # base => without[q] = rel[q]
  BY <1>1, <1>4, WrittenRow DEF Supersede
<1> HIDE DEF without
<1>7. /\ w \in [Reports -> ReleaseRecord] /\ w[r].state = "active"
      /\ \A q \in Reports : q # r => w[q] = without[q]
  BY <1>1, <1>6, WrittenRow
<1> HIDE DEF w
<1>8. AuthorityStands(r, rel)
  BY <1>2 DEF Revalidates
<1> HIDE DEF p, base
<1>9. Hands(p, base, r)
  BY <1>1, <1>2, <1>3, <1>4, <1>5, <1>6, <1>7, <1>8 DEF Hands, p
<1> QED BY <1>9 DEF p, base

LEMMA RollbackHands ==
    ASSUME ReleaseInv, NEW p \in Profiles, NEW r \in Reports, NEW e, rollback(p, r, e)
    PROVE  Hands(p, pointer[p].active, r)
<1> DEFINE current == pointer[p].active
           without == Written(rel, current, "rolled_back")
           w == Written(without, r, "active")
<1>1. ReleaseTypeOK /\ {"rolled_back", "active"} \subseteq States
  BY DEF ReleaseInv, States
<1>2. /\ current \notin {None, r} /\ ReleaseProfile(r) = p /\ rel[r].state = "superseded"
      /\ Revalidates(r) /\ pointer[p].epoch = e
      /\ pointer' = [pointer EXCEPT ![p] = [active |-> r, epoch |-> e + 1, host |-> SelectedHost(p)]]
      /\ rel' = w /\ UNCHANGED <<revoked, selection, cand, issued, parentSel>>
  BY DEF rollback, cas_pointer, RollbackStates
<1>3. SelectedHost(p) \in HostIds
  BY <1>1, SelectedHostType
<1>4. rel \in [Reports -> ReleaseRecord] /\ current \in Reports
  BY <1>1, <1>2 DEF ReleaseTypeOK, Pointer
<1>5. /\ without \in [Reports -> ReleaseRecord] /\ without[current].state = "rolled_back"
      /\ \A q \in Reports : q # current => without[q] = rel[q]
  BY <1>1, <1>4, WrittenRow
<1> HIDE DEF without
<1>6. /\ w \in [Reports -> ReleaseRecord] /\ w[r].state = "active"
      /\ \A q \in Reports : q # r => w[q] = without[q]
  BY <1>1, <1>5, WrittenRow
<1> HIDE DEF w
<1>7. AuthorityStands(r, rel)
  BY <1>2 DEF Revalidates
<1> QED BY <1>1, <1>2, <1>3, <1>4, <1>5, <1>6, <1>7 DEF Hands

LEMMA HandsInv == ASSUME ReleaseInv, NEW p, NEW f, NEW r, Hands(p, f, r) PROVE ReleaseInv'
<1>1. PICK h \in HostIds : pointer' = [pointer EXCEPT ![p] = [active |-> r, epoch |-> pointer[p].epoch + 1, host |-> h]]
  BY DEF Hands
<1>2. r \in Reports /\ p \in Profiles /\ ReleaseTypeOK /\ None \notin Reports
  BY ReleaseShape DEF Hands, ReleaseInv
<1>3. pointer[p] \in Pointer
  BY <1>2 DEF ReleaseTypeOK
<1>4. [active |-> r, epoch |-> pointer[p].epoch + 1, host |-> h] \in Pointer /\ pointer[p].epoch + 1 # 0
  BY <1>2, <1>3 DEF Pointer
<1>5. /\ pointer' \in [Profiles -> Pointer] /\ pointer'[p].active = r /\ pointer'[p].epoch # 0
      /\ \A o \in Profiles : o # p => pointer'[o] = pointer[o]
  BY <1>1, <1>2, <1>4 DEF ReleaseTypeOK
<1>6. ReleaseTypeOK'
  BY <1>2, <1>5 DEF ReleaseTypeOK, Hands
<1>7. ActiveIsPointed'
  <2> SUFFICES ASSUME NEW o \in Profiles, NEW q \in Reports
               PROVE  (ReleaseProfile(q) = o /\ rel'[q].state = "active") <=> pointer'[o].active = q
    BY DEF ActiveIsPointed, ReleaseProfile
  <2>1. (ReleaseProfile(q) = o /\ rel[q].state = "active") <=> pointer[o].active = q
    BY DEF ReleaseInv, ActiveIsPointed
  <2>2. CASE q = r
    <3>1. rel'[q].state = "active" /\ ReleaseProfile(q) = p
      BY <2>2 DEF Hands
    <3>2. o # p => pointer[o].active # q
      BY <2>1, <3>1
    <3> QED BY <1>5, <2>2, <3>1, <3>2
  <2>3. CASE q # r /\ q = f
    <3>1. rel'[q].state # "active" /\ pointer[p].active = q
      BY <1>2, <2>3 DEF Hands
    <3>2. ReleaseProfile(q) = p
      BY <1>2, <3>1 DEF ReleaseInv, ActiveIsPointed
    <3> QED BY <1>5, <2>1, <2>3, <3>1, <3>2
  <2>4. CASE q # r /\ q # f
    <3>1. rel'[q] = rel[q] /\ pointer[p].active # q
      BY <2>4 DEF Hands
    <3> QED BY <1>5, <2>1, <2>4, <3>1
  <2> QED BY <2>2, <2>3, <2>4
<1>8. ParentIsJudged'
  BY DEF ReleaseInv, ParentIsJudged, Hands
<1>9. ApprovedIsParent'
  <2> SUFFICES ASSUME NEW q \in Reports, rel'[q].state # "none" PROVE parentSel[Judges[q]] = q
    BY DEF ApprovedIsParent, Hands
  <2>1. rel[q].state # "none"
    <3>1. CASE q \in {f, r}
      <4>1. f \in Reports => rel[f].state = "active"
        BY <1>2 DEF ReleaseInv, ActiveIsPointed, Hands
      <4> QED BY <3>1, <4>1 DEF Hands
    <3>2. CASE q \notin {f, r}
      BY <3>2 DEF Hands
    <3> QED BY <3>1, <3>2
  <2> QED BY <2>1 DEF ReleaseInv, ApprovedIsParent
<1> QED BY <1>6, <1>7, <1>8, <1>9, AuthoritiesStay DEF ReleaseInv, Hands

LEMMA ReleaseInvStep == ReleaseInv /\ [ReleaseNext]_relVars => ReleaseInv'
<1> SUFFICES ASSUME ReleaseInv, [ReleaseNext]_relVars PROVE ReleaseInv'
  OBVIOUS
<1>1. CASE UNCHANGED relVars
  <2>1. ReleaseTypeOK' /\ ActiveIsPointed' /\ ParentIsJudged' /\ ApprovedIsParent'
    BY <1>1 DEF ReleaseInv, relVars, ReleaseTypeOK, ActiveIsPointed, ParentIsJudged, ApprovedIsParent
  <2> QED BY <1>1, <2>1, AuthoritiesStay DEF ReleaseInv, relVars
<1>2. ASSUME NEW s \in Sources, begin_revoke_source(s) PROVE ReleaseInv'
  BY <1>2, RevokeInv
<1>3. ASSUME NEW p \in Profiles, NEW g \in Registrations, freeze_profile_original(p, g) PROVE ReleaseInv'
  BY <1>3, SelectInv
<1>4. ASSUME NEW c \in Candidates, stage_current_bundle(c) PROVE ReleaseInv'
  BY <1>4, StageInv
<1>5. ASSUME NEW r \in Reports, issue_complete_authority(r) \/ approve_verified(r) \/ advance_canary(r) PROVE ReleaseInv'
  BY <1>5, IssueInv, ApproveInv, CanaryInv
<1>6. ASSUME NEW r \in Reports, NEW e, activate(r, e) PROVE ReleaseInv'
  BY <1>6, ActivateHands, HandsInv
<1>7. ASSUME NEW r \in Reports, NEW e, rollback(ReleaseProfile(r), r, e) PROVE ReleaseInv'
  <2>1. ReleaseProfile(r) \in Profiles
    BY ReleaseShape DEF ReleaseProfile
  <2> QED BY <1>7, <2>1, RollbackHands, HandsInv
<1> QED BY <1>1, <1>2, <1>3, <1>4, <1>5, <1>6, <1>7 DEF ReleaseNext

\* What no transaction of the store does to a release.
RowsMoveRight ==
    /\ \A r \in Reports : rel[r].state # "active" /\ rel'[r].state = "active" => Foundations(r) \cap revoked = {}
    /\ \A r \in Reports : rel[r].state = "rolled_back" => rel'[r] = rel[r]

LEMMA HandsRight == ASSUME ReleaseInv, NEW p, NEW f, NEW r, Hands(p, f, r) PROVE RowsMoveRight
<1>1. f \in Reports => rel[f].state = "active"
  BY DEF ReleaseInv, ActiveIsPointed, Hands
<1>2. Foundations(r) \cap revoked = {}
  BY StandingIsClean DEF Hands
<1>3. ASSUME NEW q \in Reports, rel[q].state = "rolled_back" PROVE rel'[q] = rel[q]
  BY <1>1, <1>3 DEF Hands
<1>4. ASSUME NEW q \in Reports, rel[q].state # "active", rel'[q].state = "active" PROVE q = r
  BY <1>1, <1>4 DEF Hands
<1> QED BY <1>2, <1>3, <1>4 DEF RowsMoveRight

LEMMA ReleaseStepRight == ReleaseInv /\ [ReleaseNext]_relVars => RowsMoveRight
<1> SUFFICES ASSUME ReleaseInv, [ReleaseNext]_relVars PROVE RowsMoveRight
  OBVIOUS
<1>1. CASE UNCHANGED rel
  BY <1>1 DEF RowsMoveRight
<1>2. ASSUME NEW r \in Reports, approve_verified(r) \/ advance_canary(r) PROVE RowsMoveRight
  <2> DEFINE w(s) == Written(rel, r, s)
  <2>1. /\ w("approved")[r].state = "approved" /\ w("canary")[r].state = "canary"
        /\ \A s \in {"approved", "canary"} : w(s) \in [Reports -> ReleaseRecord]
        /\ \A s \in {"approved", "canary"}, q \in Reports : q # r => w(s)[q] = rel[q]
    BY WrittenRow DEF ReleaseInv, ReleaseTypeOK, States
  <2>2. /\ \/ rel' = [w("approved") EXCEPT ![r].base = pointer[ReleaseProfile(r)].active]
           \/ rel' = w("canary")
        /\ rel[r].state \in {"none", "approved"}
    BY <1>2 DEF approve_verified, advance_canary
  <2> HIDE DEF w
  <2>3. rel'[r].state \in {"approved", "canary"} /\ \A q \in Reports : q # r => rel'[q] = rel[q]
    BY <2>1, <2>2 DEF ReleaseRecord
  <2> QED BY <2>2, <2>3 DEF RowsMoveRight
<1>3. ASSUME NEW r \in Reports, NEW e, activate(r, e) PROVE RowsMoveRight
  BY <1>3, ActivateHands, HandsRight
<1>4. ASSUME NEW r \in Reports, NEW e, rollback(ReleaseProfile(r), r, e) PROVE RowsMoveRight
  <2>1. ReleaseProfile(r) \in Profiles
    BY ReleaseShape DEF ReleaseProfile
  <2> QED BY <1>4, <2>1, RollbackHands, HandsRight
<1> QED BY <1>1, <1>2, <1>3, <1>4
        DEF ReleaseNext, relVars, begin_revoke_source, freeze_profile_original, stage_current_bundle, issue_complete_authority

-----------------------------------------------------------------------------
(* The service.                                                            *)

ServiceTypeOK ==
    /\ surfaces \subseteq Surfaces
    /\ pc \in [PrepareCalls -> {"idle", "done", "refused"} \cup InFlight]
    /\ snap \in [Runs -> {NoSnapshot} \cup Snapshot]
    /\ runs \in [Runs -> PrepareCalls \cup {None}]
    /\ replies \in [Keys -> {NoReply} \cup Reply]
    /\ answer \in [PrepareCalls -> PrepareCalls \cup {None}]
    /\ facts \in [Runs -> Nat] /\ captured \in [Runs -> Nat \cup {NotYet}]
    /\ applying \in {None} \cup Application
    /\ receipts \subseteq Runs
    /\ applied \in [Runs -> {NotYet} \cup Claims]
    /\ feedbacks \in [FeedbackKeys -> Runs \cup {None}]
    /\ proposals \in [ProposalKeys -> {None} \cup Proposal]
    /\ \A n \in Runs : runs[n] = None <=> facts[n] = 0

\* A cached reply is of the call that created the run, and the run stands.
ReplyStands(k) ==
    LET hit == replies[k] IN
    /\ hit.by \in PrepareCalls /\ hit.config = Config[hit.by] /\ hit.run = RunOf(hit.by) /\ Config[hit.by].key = k
    /\ runs[hit.run] = hit.by /\ snap[hit.run] # NoSnapshot
RepliesStand == \A k \in Keys : replies[k] # NoReply => ReplyStands(k)

\* An answered call was answered from the cache of its key.
DoneIsCached ==
    \A c \in PrepareCalls : pc[c] = "done" =>
        LET hit == replies[Config[c].key] IN hit # NoReply /\ hit.config = Config[c] /\ answer[c] = hit.by

ServiceInv == ServiceTypeOK /\ RepliesStand /\ DoneIsCached /\ WithinCapacity

LEMMA HostTypeIsBoth == ReleaseTypeOK /\ ServiceTypeOK <=> HostTypeOK
BY DEF ServiceTypeOK, HostTypeOK

LEMMA RunsAreFinite == IsFiniteSet(Runs) /\ IsFiniteSet(PrepareCalls)
<1> DEFINE f == [c \in PrepareCalls |-> RunOf(c)]
<1>1. f \in Surjection(PrepareCalls, Runs)
  BY DEF Runs, Surjection
<1> HIDE DEF f
<1> QED BY <1>1, HostRunShape, FS_Surjection

LEMMA HostLimits == MAX_PREPARE \in Nat /\ MAX_RUNS \in Nat
BY HostRunShape

LEMMA OneAnswer == ServiceInv => OneAnswerPerKey
<1> SUFFICES ASSUME ServiceInv, NEW c \in PrepareCalls, NEW d \in PrepareCalls, pc[c] = "done"
             PROVE  /\ runs[RunOf(c)] = answer[c] /\ snap[RunOf(c)] # NoSnapshot
                    /\ pc[d] = "done" /\ Config[c].key = Config[d].key => answer[c] = answer[d]
  BY DEF OneAnswerPerKey
<1> DEFINE hit == replies[Config[c].key]
<1>1. hit # NoReply /\ hit.config = Config[c] /\ answer[c] = hit.by /\ Config[c].key \in Keys
  BY DEF ServiceInv, DoneIsCached, Keys
<1>2. ReplyStands(Config[c].key)
  BY <1>1 DEF ServiceInv, RepliesStand
<1>3. hit.run = RunOf(c)
  BY <1>1, <1>2 DEF ReplyStands, RunOf
<1>4. pc[d] = "done" /\ Config[c].key = Config[d].key => answer[d] = hit.by
  BY DEF ServiceInv, DoneIsCached
<1> QED BY <1>1, <1>2, <1>3, <1>4 DEF ReplyStands

LEMMA ServiceInvInit == ServiceInit => ServiceInv
<1> SUFFICES ASSUME ServiceInit PROVE ServiceInv
  OBVIOUS
<1>1. ServiceTypeOK
  BY DEF ServiceInit, ServiceTypeOK
<1>2. {c \in PrepareCalls : pc[c] \in InFlight} = {} /\ {n \in Runs : runs[n] # None} = {}
  BY DEF ServiceInit, InFlight
<1>3. RunCount = 0 /\ inflight = 0
  BY <1>2, FS_EmptySet DEF RunCount, inflight
<1>4. WithinCapacity
  BY <1>3, HostLimits DEF WithinCapacity
<1> QED BY <1>1, <1>4 DEF ServiceInv, ServiceInit, RepliesStand, DoneIsCached

\* Calls in flight, when one call moves.
LEMMA InflightMoves ==
    ASSUME ServiceInv, NEW c \in PrepareCalls, NEW to, Step(c, to),
           to \in InFlight => pc[c] \in InFlight \/ inflight < MAX_PREPARE
    PROVE  inflight' <= MAX_PREPARE
<1> DEFINE F == {d \in PrepareCalls : pc[d] \in InFlight}
<1>1. IsFiniteSet(F) /\ Cardinality(F) \in Nat /\ Cardinality(F) <= MAX_PREPARE /\ inflight = Cardinality(F)
  BY RunsAreFinite, FS_Subset, FS_CardinalityType DEF ServiceInv, WithinCapacity, inflight
<1>2. pc'[c] = to /\ \A d \in PrepareCalls : d # c => pc'[d] = pc[d]
  BY DEF Step, ServiceInv, ServiceTypeOK
<1>3. inflight' = Cardinality({d \in PrepareCalls : pc'[d] \in InFlight})
  BY DEF inflight, InFlight
<1>4. CASE to \in InFlight
  <2>1. {d \in PrepareCalls : pc'[d] \in InFlight} = F \cup {c}
    BY <1>2, <1>4
  <2>2. Cardinality(F \cup {c}) = IF c \in F THEN Cardinality(F) ELSE Cardinality(F) + 1
    BY <1>1, FS_AddElement
  <2> HIDE DEF F
  <2>3. CASE c \in F
    BY <1>1, <1>3, <2>1, <2>2, <2>3
  <2>4. CASE c \notin F
    <3>1. Cardinality(F) < MAX_PREPARE
      BY <1>1, <1>4, <2>4 DEF F
    <3>2. inflight' = Cardinality(F) + 1
      BY <1>3, <2>1, <2>2, <2>4
    <3> QED BY <1>1, <3>1, <3>2, HostLimits
  <2> QED BY <2>3, <2>4
<1>5. CASE to \notin InFlight
  <2>1. {d \in PrepareCalls : pc'[d] \in InFlight} \in SUBSET F
    BY <1>2, <1>5
  <2>2. Cardinality({d \in PrepareCalls : pc'[d] \in InFlight}) <= Cardinality(F)
    BY <1>1, <2>1, FS_Subset
  <2>3. Cardinality({d \in PrepareCalls : pc'[d] \in InFlight}) \in Nat
    BY <1>1, <2>1, FS_Subset, FS_CardinalityType
  <2> HIDE DEF F
  <2> QED BY <1>1, <1>3, <2>2, <2>3, HostLimits
<1> QED BY <1>4, <1>5

\* The records a prepare leaves stay.
Prepared == <<snap, runs, replies, answer>>

\* A call goes on, or ends without an answer.
LEMMA CallGoesOn ==
    ASSUME ServiceInv, NEW c \in PrepareCalls, NEW to \in {"refused"} \cup InFlight, Step(c, to),
           to \in InFlight => pc[c] \in InFlight \/ inflight < MAX_PREPARE,
           UNCHANGED <<Prepared, surfaces, facts, notes>>
    PROVE  ServiceInv'
<1>1. pc'[c] = to /\ to # "done" /\ \A d \in PrepareCalls : d # c => pc'[d] = pc[d]
  BY DEF Step, ServiceInv, ServiceTypeOK, InFlight
<1>2. pc' \in [PrepareCalls -> {"idle", "done", "refused"} \cup InFlight]
  BY DEF Step, ServiceInv, ServiceTypeOK
<1>3. ServiceTypeOK'
  BY <1>2 DEF ServiceInv, ServiceTypeOK, Prepared, notes
<1>4. RepliesStand'
  BY DEF ServiceInv, RepliesStand, ReplyStands, Prepared
<1>5. DoneIsCached'
  BY <1>1 DEF ServiceInv, DoneIsCached, Prepared
<1>6. WithinCapacity'
  BY InflightMoves DEF ServiceInv, WithinCapacity, RunCount, Prepared
<1> QED BY <1>3, <1>4, <1>5, <1>6 DEF ServiceInv

\* A call is answered from the cache.
LEMMA CachedCallDone ==
    ASSUME ServiceInv, NEW c \in PrepareCalls, Cached(c), Answer(c),
           UNCHANGED <<snap, runs, replies, surfaces, facts, notes>>
    PROVE  ServiceInv'
<1>1. CASE ~CachedAnswers(c)
  BY <1>1, CallGoesOn DEF Answer, Prepared, InFlight
<1>2. CASE CachedAnswers(c)
  <2> DEFINE hit == replies[Config[c].key]
  <2>1. Step(c, "done") /\ answer' = [answer EXCEPT ![c] = hit.by] /\ hit # NoReply /\ hit.config = Config[c]
    BY <1>2 DEF Answer, Cached, CachedAnswers
  <2>2. Config[c].key \in Keys /\ hit \in Reply /\ hit.by \in PrepareCalls
    BY <2>1 DEF ServiceInv, ServiceTypeOK, Keys, Reply
  <2>3. pc'[c] = "done" /\ \A d \in PrepareCalls : d # c => pc'[d] = pc[d]
    BY <2>1 DEF Step, ServiceInv, ServiceTypeOK
  <2>4. answer'[c] = hit.by /\ \A d \in PrepareCalls : d # c => answer'[d] = answer[d]
    BY <2>1 DEF ServiceInv, ServiceTypeOK
  <2>5. /\ pc' \in [PrepareCalls -> {"idle", "done", "refused"} \cup InFlight]
        /\ answer' \in [PrepareCalls -> PrepareCalls \cup {None}]
    BY <2>1, <2>2 DEF Step, ServiceInv, ServiceTypeOK
  <2>6. ServiceTypeOK'
    BY <2>5 DEF ServiceInv, ServiceTypeOK, notes
  <2>7. RepliesStand'
    BY DEF ServiceInv, RepliesStand, ReplyStands
  <2>8. DoneIsCached'
    BY <2>1, <2>3, <2>4 DEF ServiceInv, DoneIsCached
  <2>9. WithinCapacity'
    BY <2>1, InflightMoves DEF ServiceInv, WithinCapacity, RunCount, InFlight
  <2> QED BY <2>6, <2>7, <2>8, <2>9 DEF ServiceInv
<1> QED BY <1>1, <1>2

\* A run's snapshot is written once.
LEMMA FreezeInv ==
    ASSUME ServiceInv, ReleaseTypeOK, NEW c \in PrepareCalls, prepare_run_material(c)
    PROVE  ServiceInv' /\ \A n \in Runs : snap[n] # NoSnapshot => snap'[n] = snap[n]
<1> DEFINE n0 == RunOf(c)
           y == [config |-> Config[c], release |-> ServedRelease(c), epoch |-> pointer[Config[c].profile].epoch]
<1>1. /\ pc[c] \in InFlight /\ UNCHANGED <<surfaces, runs, replies, answer, facts, notes>>
      /\ Step(c, "frozen") \/ Step(c, "refused")
      /\ snap' \in {snap, Frozen(c)}
  BY DEF prepare_run_material, InFlight
<1>2. n0 \in Runs
  BY DEF Runs
<1>3. y \in Snapshot
  <2>1. Config[c].profile \in Profiles
    BY HostRunShape
  <2>2. pointer[Config[c].profile] \in Pointer
    BY <2>1 DEF ReleaseTypeOK
  <2>3. ServedRelease(c) \in Reports \cup {None} /\ pointer[Config[c].profile].epoch \in Nat
    BY <2>2 DEF ServedRelease, Pointer
  <2> QED BY <2>3 DEF Snapshot
<1>4. snap' = snap \/ (snap[n0] = NoSnapshot /\ snap' = [snap EXCEPT ![n0] = y])
  BY <1>1 DEF Frozen
<1> HIDE DEF y, n0
<1>5. /\ snap' \in [Runs -> {NoSnapshot} \cup Snapshot]
      /\ \A n \in Runs : snap[n] # NoSnapshot => snap'[n] = snap[n]
  BY <1>2, <1>3, <1>4 DEF ServiceInv, ServiceTypeOK
<1>6. \E to \in {"frozen", "refused"} : Step(c, to)
  BY <1>1
<1>7. /\ pc' \in [PrepareCalls -> {"idle", "done", "refused"} \cup InFlight] /\ pc'[c] # "done"
      /\ \A d \in PrepareCalls : d # c => pc'[d] = pc[d]
  BY <1>6 DEF Step, ServiceInv, ServiceTypeOK, InFlight
<1>8. ServiceTypeOK'
  BY <1>1, <1>5, <1>7 DEF ServiceInv, ServiceTypeOK, notes
<1>9. RepliesStand'
  <2> SUFFICES ASSUME NEW k \in Keys, replies[k] # NoReply PROVE ReplyStands(k)'
    BY <1>1 DEF RepliesStand
  <2>1. ReplyStands(k) /\ replies[k].run \in Runs
    BY DEF ServiceInv, RepliesStand, ServiceTypeOK, Reply
  <2> QED BY <1>1, <1>5, <2>1 DEF ReplyStands
<1>10. DoneIsCached'
  BY <1>1, <1>7 DEF ServiceInv, DoneIsCached
<1>11. WithinCapacity'
  BY <1>1, <1>6, InflightMoves DEF ServiceInv, WithinCapacity, RunCount
<1> QED BY <1>5, <1>8, <1>9, <1>10, <1>11 DEF ServiceInv

\* The run and its reply are written together, once.
Commits(c) ==
    LET n == RunOf(c) IN
    /\ pc[c] = "frozen" /\ ~Cached(c) /\ SnapshotLive(n) /\ CommitAdmits(c) /\ Step(c, "done")
    /\ runs' = [runs EXCEPT ![n] = c]
    /\ replies' = [replies EXCEPT ![n.key] = [config |-> Config[c], run |-> n, by |-> c]]
    /\ answer' = [answer EXCEPT ![c] = c]
    /\ facts' = [facts EXCEPT ![n] = @ + 1]
    /\ UNCHANGED <<surfaces, snap, notes>>

LEMMA CommitInv == ASSUME ServiceInv, NEW c \in PrepareCalls, Commits(c) PROVE ServiceInv'
<1> DEFINE n == RunOf(c)
           k == Config[c].key
           y == [config |-> Config[c], run |-> n, by |-> c]
           R == {m \in Runs : runs[m] # None}
<1>1. n \in Runs /\ k \in Keys /\ n.key = k /\ c # None
  BY HostRunAbsent DEF Runs, Keys, RunOf
<1>2. y \in Reply /\ y # None /\ y.config = Config[c] /\ y.run = n /\ y.by = c
  BY <1>1, HostRunAbsent DEF Reply
<1>3. /\ runs[n] = None /\ RunCount < MAX_RUNS /\ snap[n] # NoSnapshot /\ replies[k] = NoReply
      /\ runs' = [runs EXCEPT ![n] = c] /\ replies' = [replies EXCEPT ![k] = y]
      /\ answer' = [answer EXCEPT ![c] = c] /\ facts' = [facts EXCEPT ![n] = facts[n] + 1]
      /\ Step(c, "done") /\ UNCHANGED <<surfaces, snap, notes>>
  BY <1>1 DEF Commits, CommitAdmits, Admits, SnapshotLive, Cached
<1> HIDE DEF n, k, y
<1>4. /\ runs' \in [Runs -> PrepareCalls \cup {None}] /\ runs'[n] = c
      /\ \A m \in Runs : m # n => runs'[m] = runs[m]
  BY <1>1, <1>3 DEF ServiceInv, ServiceTypeOK
<1>5. /\ replies' \in [Keys -> {NoReply} \cup Reply] /\ replies'[k] = y
      /\ \A l \in Keys : l # k => replies'[l] = replies[l]
  BY <1>1, <1>2, <1>3 DEF ServiceInv, ServiceTypeOK
<1>6. /\ answer' \in [PrepareCalls -> PrepareCalls \cup {None}] /\ answer'[c] = c
      /\ \A d \in PrepareCalls : d # c => answer'[d] = answer[d]
  BY <1>3 DEF ServiceInv, ServiceTypeOK
<1>7. /\ facts' \in [Runs -> Nat] /\ facts'[n] # 0
      /\ \A m \in Runs : m # n => facts'[m] = facts[m]
  BY <1>1, <1>3 DEF ServiceInv, ServiceTypeOK
<1>8. /\ pc' \in [PrepareCalls -> {"idle", "done", "refused"} \cup InFlight] /\ pc'[c] = "done"
      /\ \A d \in PrepareCalls : d # c => pc'[d] = pc[d]
  BY <1>3 DEF Step, ServiceInv, ServiceTypeOK
<1>9. ServiceTypeOK'
  <2>1. \A m \in Runs : runs'[m] = None <=> facts'[m] = 0
    BY <1>1, <1>4, <1>7 DEF ServiceInv, ServiceTypeOK
  <2> QED BY <1>3, <1>4, <1>5, <1>6, <1>7, <1>8, <2>1 DEF ServiceInv, ServiceTypeOK, notes
<1>10. RepliesStand'
  <2> SUFFICES ASSUME NEW l \in Keys, replies'[l] # NoReply PROVE ReplyStands(l)'
    BY DEF RepliesStand
  <2>1. CASE l = k
    BY <1>2, <1>3, <1>4, <1>5, <2>1 DEF ReplyStands, n, k
  <2>2. CASE l # k
    <3>1. ReplyStands(l) /\ replies[l].run \in Runs /\ replies'[l] = replies[l]
      BY <1>5, <2>2 DEF ServiceInv, RepliesStand, ServiceTypeOK, Reply
    <3>2. replies[l].run # n
      BY <3>1, <1>3, HostRunAbsent DEF ReplyStands
    <3> QED BY <1>3, <1>4, <3>1, <3>2 DEF ReplyStands
  <2> QED BY <2>1, <2>2
<1>11. DoneIsCached'
  <2> SUFFICES ASSUME NEW d \in PrepareCalls, pc'[d] = "done"
               PROVE  /\ replies'[Config[d].key] # NoReply /\ replies'[Config[d].key].config = Config[d]
                      /\ answer'[d] = replies'[Config[d].key].by
    BY DEF DoneIsCached
  <2>1. CASE d = c
    BY <1>2, <1>5, <1>6, <2>1 DEF k
  <2>2. CASE d # c
    <3>1. /\ replies[Config[d].key] # NoReply /\ replies[Config[d].key].config = Config[d]
          /\ answer[d] = replies[Config[d].key].by /\ Config[d].key \in Keys
      BY <1>8, <2>2 DEF ServiceInv, DoneIsCached, Keys
    <3> QED BY <1>3, <1>5, <1>6, <2>2, <3>1
  <2> QED BY <2>1, <2>2
<1>12. WithinCapacity'
  <2>1. IsFiniteSet(R) /\ Cardinality(R) \in Nat /\ Cardinality(R) < MAX_RUNS
    BY <1>3, RunsAreFinite, FS_Subset, FS_CardinalityType DEF RunCount
  <2>2. {m \in Runs : runs'[m] # None} = R \cup {n} /\ n \notin R
    BY <1>1, <1>3, <1>4
  <2>3. Cardinality(R \cup {n}) = Cardinality(R) + 1
    BY <2>1, <2>2, FS_AddElement
  <2>4. RunCount' = Cardinality({m \in Runs : runs'[m] # None})
    BY DEF RunCount
  <2> HIDE DEF R
  <2>5. RunCount' <= MAX_RUNS
    BY <2>1, <2>2, <2>3, <2>4, HostLimits
  <2> QED BY <1>3, <2>5, InflightMoves DEF WithinCapacity, InFlight
<1> QED BY <1>9, <1>10, <1>11, <1>12 DEF ServiceInv

\* The prepares stay as they are; what is recorded about runs keeps its types.
LEMMA NotesInv ==
    ASSUME ServiceInv, ServiceTypeOK', UNCHANGED <<pc, Prepared>>
    PROVE  ServiceInv'
<1>1. RepliesStand' /\ DoneIsCached'
  BY DEF ServiceInv, RepliesStand, ReplyStands, DoneIsCached, Prepared
<1>2. WithinCapacity'
  BY DEF ServiceInv, WithinCapacity, RunCount, inflight, Prepared
<1> QED BY <1>1, <1>2 DEF ServiceInv

\* One more success of a run.
LEMMA FactMore ==
    ASSUME ServiceInv, NEW n \in Runs, runs[n] # None, facts' = [facts EXCEPT ![n] = @ + 1]
    PROVE  facts' \in [Runs -> Nat] /\ \A m \in Runs : runs[m] = None <=> facts'[m] = 0
BY DEF ServiceInv, ServiceTypeOK

\* What no step of the service does to a run.
RunsMoveRight ==
    /\ \A n \in Runs : snap[n] # NoSnapshot => snap'[n] = snap[n]
    /\ \A n \in Runs : facts'[n] # facts[n] => SnapshotLive(n)
    /\ \A n \in Runs : captured'[n] # captured[n] =>
          captured[n] = NotYet /\ captured'[n] <= facts[n] /\ FactSource[n] \notin revoked

LEMMA FeedbackStep ==
    ASSUME ServiceInv, NEW k \in FeedbackKeys, NEW n \in Runs, feedback(k, n)
    PROVE  ServiceInv' /\ RunsMoveRight
<1>1. /\ SnapshotLive(n) /\ runs[n] # None /\ feedbacks' = [feedbacks EXCEPT ![k] = n]
      /\ facts' = [facts EXCEPT ![n] = @ + 1]
      /\ UNCHANGED <<surfaces, pc, snap, runs, replies, answer, captured, applying, receipts, applied, proposals>>
  BY DEF feedback
<1>2. facts' \in [Runs -> Nat] /\ \A m \in Runs : runs[m] = None <=> facts'[m] = 0
  BY <1>1, FactMore
<1>3. feedbacks' \in [FeedbackKeys -> Runs \cup {None}] /\ \A m \in Runs : m # n => facts'[m] = facts[m]
  BY <1>1 DEF ServiceInv, ServiceTypeOK
<1>4. ServiceTypeOK'
  BY <1>1, <1>2, <1>3 DEF ServiceInv, ServiceTypeOK
<1> QED BY <1>1, <1>3, <1>4, NotesInv DEF Prepared, RunsMoveRight

LEMMA ProposeStep ==
    ASSUME ServiceInv, NEW k \in ProposalKeys, NEW n \in Runs, NEW E \in SUBSET FeedbackKeys, propose(k, n, E)
    PROVE  ServiceInv' /\ RunsMoveRight
<1>1. /\ SnapshotLive(n) /\ runs[n] # None /\ proposals' = [proposals EXCEPT ![k] = [run |-> n, evidence |-> E]]
      /\ facts' = [facts EXCEPT ![n] = @ + 1]
      /\ UNCHANGED <<surfaces, pc, snap, runs, replies, answer, captured, applying, receipts, applied, feedbacks>>
  BY DEF propose
<1>2. facts' \in [Runs -> Nat] /\ \A m \in Runs : runs[m] = None <=> facts'[m] = 0
  BY <1>1, FactMore
<1>3. [run |-> n, evidence |-> E] \in Proposal
  BY DEF Proposal
<1>4. proposals' \in [ProposalKeys -> {None} \cup Proposal] /\ \A m \in Runs : m # n => facts'[m] = facts[m]
  BY <1>1, <1>3 DEF ServiceInv, ServiceTypeOK
<1>5. ServiceTypeOK'
  BY <1>1, <1>2, <1>4 DEF ServiceInv, ServiceTypeOK
<1> QED BY <1>1, <1>4, <1>5, NotesInv DEF Prepared, RunsMoveRight

LEMMA CaptureStep ==
    ASSUME ServiceInv, NEW n \in Runs, record_service_facts(n)
    PROVE  ServiceInv' /\ RunsMoveRight
<1>1. /\ captured[n] = NotYet /\ FactSource[n] \notin revoked /\ captured' = [captured EXCEPT ![n] = facts[n]]
      /\ UNCHANGED <<surfaces, pc, snap, runs, replies, answer, facts, applying, receipts, applied, feedbacks, proposals>>
  BY DEF record_service_facts, CaptureAllowed
<1>2. /\ captured' \in [Runs -> Nat \cup {NotYet}] /\ captured'[n] = facts[n] /\ facts[n] \in Nat
      /\ \A m \in Runs : m # n => captured'[m] = captured[m]
  BY <1>1 DEF ServiceInv, ServiceTypeOK
<1>3. ServiceTypeOK'
  BY <1>1, <1>2 DEF ServiceInv, ServiceTypeOK
<1>4. RunsMoveRight
  BY <1>1, <1>2 DEF RunsMoveRight
<1> QED BY <1>1, <1>3, <1>4, NotesInv DEF Prepared

LEMMA ApplicationSteps ==
    ASSUME ServiceInv,
           \/ \E n \in Runs : store_host_execution_receipt(n) \/ \E claim \in Claims : record_application(n, claim)
           \/ \E u \in Surfaces : register_host_surface_from_source(u)
           \/ record_applied_request
    PROVE  ServiceInv' /\ RunsMoveRight
<1>1. UNCHANGED <<pc, Prepared, facts, captured, feedbacks, proposals>>
  BY DEF store_host_execution_receipt, record_application, register_host_surface_from_source, record_applied_request,
         Prepared, notes
<1>2. surfaces' \subseteq Surfaces /\ receipts' \subseteq Runs
  BY DEF store_host_execution_receipt, record_application, register_host_surface_from_source, record_applied_request,
         notes, ServiceInv, ServiceTypeOK
<1>3. applying' \in {None} \cup Application
  <2>1. ASSUME NEW n \in Runs, NEW claim \in Claims, record_application(n, claim) PROVE applying' \in Application
    BY <2>1 DEF record_application, Application
  <2> QED BY <2>1 DEF store_host_execution_receipt, register_host_surface_from_source, record_applied_request,
                      notes, ServiceInv, ServiceTypeOK
<1>4. applied' \in [Runs -> {NotYet} \cup Claims]
  <2>1. ASSUME record_applied_request PROVE applied' \in [Runs -> {NotYet} \cup Claims]
    <3>1. applying.run \in Runs /\ applying.claim \in Claims
      BY <2>1 DEF record_applied_request, ServiceInv, ServiceTypeOK, Application
    <3> QED BY <2>1, <3>1 DEF record_applied_request, ServiceInv, ServiceTypeOK
  <2> QED BY <2>1 DEF store_host_execution_receipt, register_host_surface_from_source, record_application,
                      notes, ServiceInv, ServiceTypeOK
<1>5. ServiceTypeOK'
  BY <1>1, <1>2, <1>3, <1>4 DEF ServiceInv, ServiceTypeOK, Prepared
<1>6. RunsMoveRight
  BY <1>1 DEF RunsMoveRight, Prepared
<1> QED BY <1>1, <1>5, <1>6, NotesInv

LEMMA PrepareSteps ==
    ASSUME ServiceInv, ReleaseTypeOK, NEW c \in PrepareCalls,
           \/ begin_inflight_prepare(c) \/ prepare_admit(c) \/ prepare_run_material(c)
           \/ prepare_commit(c) \/ prepare_lost(c)
    PROVE  ServiceInv' /\ RunsMoveRight
<1>1. CASE begin_inflight_prepare(c) \/ prepare_lost(c) \/ (prepare_admit(c) /\ ~Cached(c))
  <2>1. UNCHANGED <<Prepared, surfaces, facts, notes>>
    BY <1>1 DEF begin_inflight_prepare, prepare_lost, prepare_admit, Prepared
  <2>2. PICK to \in {"refused"} \cup InFlight :
             Step(c, to) /\ (to \in InFlight => pc[c] \in InFlight \/ inflight < MAX_PREPARE)
    BY <1>1 DEF begin_inflight_prepare, prepare_lost, prepare_admit, InFlight
  <2>3. ServiceInv'
    <3>1. CASE to \notin InFlight
      BY <2>1, <2>2, <3>1, CallGoesOn
    <3>2. CASE to \in InFlight
      BY <2>1, <2>2, <3>2, CallGoesOn
    <3> QED BY <3>1, <3>2
  <2> QED BY <2>1, <2>3 DEF RunsMoveRight, Prepared, notes
<1>2. CASE (prepare_admit(c) \/ prepare_commit(c)) /\ Cached(c)
  <2>1. Answer(c) /\ UNCHANGED <<snap, runs, replies, surfaces, facts, notes>>
    BY <1>2 DEF prepare_admit, prepare_commit
  <2>2. ServiceInv'
    BY <1>2, <2>1, CachedCallDone
  <2> QED BY <2>1, <2>2 DEF RunsMoveRight, notes
<1>3. CASE prepare_run_material(c)
  <2>1. UNCHANGED <<facts, captured>>
    BY <1>3 DEF prepare_run_material, notes
  <2> QED BY <1>3, <2>1, FreezeInv DEF RunsMoveRight
<1>4. CASE prepare_commit(c) /\ ~Cached(c) /\ SnapshotLive(RunOf(c)) /\ CommitAdmits(c)
  <2>1. Commits(c)
    BY <1>4 DEF prepare_commit, Commits
  <2>2. UNCHANGED <<snap, captured>> /\ \A n \in Runs : n # RunOf(c) => facts'[n] = facts[n]
    BY <2>1 DEF Commits, notes, ServiceInv, ServiceTypeOK
  <2> QED BY <1>4, <2>1, <2>2, CommitInv DEF RunsMoveRight
<1>5. CASE prepare_commit(c) /\ ~Cached(c) /\ ~(SnapshotLive(RunOf(c)) /\ CommitAdmits(c))
  <2>1. Step(c, "refused") /\ UNCHANGED <<Prepared, surfaces, facts, notes>>
    BY <1>5 DEF prepare_commit, Prepared
  <2>2. ServiceInv'
    BY <2>1, CallGoesOn DEF InFlight
  <2> QED BY <2>1, <2>2 DEF RunsMoveRight, Prepared, notes
<1> QED BY <1>1, <1>2, <1>3, <1>4, <1>5

-----------------------------------------------------------------------------
(* The results.                                                            *)

HostInv == ReleaseInv /\ ServiceInv

LEMMA HostInvStep == HostInv /\ [HostNext]_hostVars => HostInv' /\ RowsMoveRight /\ RunsMoveRight
<1> SUFFICES ASSUME HostInv, [HostNext]_hostVars PROVE HostInv' /\ RowsMoveRight /\ RunsMoveRight
  OBVIOUS
<1>1. ReleaseInv /\ ServiceInv /\ ReleaseTypeOK
  BY DEF HostInv, ReleaseInv
<1>2. CASE (ReleaseNext \/ UNCHANGED relVars) /\ UNCHANGED serviceVars
  <2>1. ReleaseInv' /\ RowsMoveRight
    BY <1>1, <1>2, ReleaseInvStep, ReleaseStepRight
  <2>2. ServiceTypeOK'
    BY <1>1, <1>2 DEF ServiceInv, ServiceTypeOK, serviceVars, notes
  <2>3. ServiceInv'
    BY <1>1, <1>2, <2>2, NotesInv DEF serviceVars, Prepared
  <2> QED BY <1>2, <2>1, <2>3 DEF HostInv, RunsMoveRight, serviceVars, notes
<1>3. ASSUME UNCHANGED relVars, ServiceInv' /\ RunsMoveRight PROVE HostInv' /\ RowsMoveRight /\ RunsMoveRight
  BY <1>1, <1>3, ReleaseInvStep, ReleaseStepRight DEF HostInv
<1>4. ASSUME NEW c \in PrepareCalls,
             \/ begin_inflight_prepare(c) \/ prepare_admit(c) \/ prepare_run_material(c)
             \/ prepare_commit(c) \/ prepare_lost(c)
      PROVE  UNCHANGED relVars /\ ServiceInv' /\ RunsMoveRight
  <2>1. UNCHANGED relVars
    BY <1>4 DEF begin_inflight_prepare, prepare_admit, prepare_run_material, prepare_commit, prepare_lost
  <2> QED BY <1>1, <1>4, <2>1, PrepareSteps
<1>5. ASSUME NEW n \in Runs,
             \/ \E k \in FeedbackKeys : feedback(k, n)
             \/ \E k \in ProposalKeys, E \in SUBSET FeedbackKeys : propose(k, n, E)
             \/ record_service_facts(n)
      PROVE  UNCHANGED relVars /\ ServiceInv' /\ RunsMoveRight
  <2>1. UNCHANGED relVars
    BY <1>5 DEF feedback, propose, record_service_facts
  <2> QED BY <1>1, <1>5, <2>1, FeedbackStep, ProposeStep, CaptureStep
<1>6. ASSUME \/ \E n \in Runs : store_host_execution_receipt(n) \/ \E claim \in Claims : record_application(n, claim)
             \/ \E u \in Surfaces : register_host_surface_from_source(u)
             \/ record_applied_request
      PROVE  UNCHANGED relVars /\ ServiceInv' /\ RunsMoveRight
  <2>1. UNCHANGED relVars
    BY <1>6 DEF store_host_execution_receipt, record_application, register_host_surface_from_source, record_applied_request
  <2> QED BY <1>1, <1>6, <2>1, ApplicationSteps
<1>7. CASE UNCHANGED hostVars
  BY <1>2, <1>7 DEF hostVars
<1>8. CASE HostNext
  BY <1>2, <1>3, <1>4, <1>5, <1>6, <1>8 DEF HostNext
<1> QED BY <1>7, <1>8

LEMMA HostInvAlways == HostSpec => []HostInv
<1>1. HostInit => HostInv
  BY ReleaseInvInit, ServiceInvInit DEF HostInit, HostInv
<1> QED BY <1>1, HostInvStep, PTL DEF HostSpec

\* In every state of every instance a profile's pointer names its one active
\* release, a bundle is approved through one report, calls of one key are
\* answered with one run whose snapshot is stored, and runs and prepares stay
\* within their limits.
THEOREM HostIsSafe == HostSpec => []HostSafe
<1>1. HostInv => HostSafe
  BY InvMeansOneActive, InvMeansOneApproval, OneAnswer, HostTypeIsBoth DEF HostInv, ReleaseInv, ServiceInv, HostSafe
<1> QED BY <1>1, HostInvAlways, PTL

\* A run whose snapshot is live rests on nothing revoked.
LEMMA LiveIsClean ==
    ASSUME HostInv, NEW n \in Runs, SnapshotLive(n), snap[n].release # None
    PROVE  Foundations(snap[n].release) \cap revoked = {}
<1>1. snap[n].release \in Reports
  BY DEF SnapshotLive, HostInv, ServiceInv, ServiceTypeOK, Snapshot
<1>2. AuthorityStands(snap[n].release, rel)
  BY DEF SnapshotLive, ReleaseServes, Revalidates
<1> QED BY <1>1, <1>2, StandingIsClean DEF HostInv

\* No step activates a release that rests, through any of its ancestors, on a
\* revoked source, revives one that was rolled back, moves a run to another
\* release, records a success of a run over revoked sources, or captures the
\* facts of a run twice.
THEOREM HostStandsAlways == HostSpec => HostStands
<1>1. HostInv /\ [HostNext]_hostVars =>
        [\A r \in Reports : rel[r].state # "active" /\ rel'[r].state = "active"
                             => Foundations(r) \cap revoked = {}]_relVars
  BY HostInvStep DEF RowsMoveRight
<1>2. HostInv /\ [HostNext]_hostVars => [\A r \in Reports : rel[r].state = "rolled_back" => rel'[r] = rel[r]]_relVars
  BY HostInvStep DEF RowsMoveRight
<1>3. HostInv /\ [HostNext]_hostVars => [\A n \in Runs : snap[n] # NoSnapshot => snap'[n] = snap[n]]_hostVars
  BY HostInvStep DEF RunsMoveRight
<1>4. HostInv /\ [HostNext]_hostVars =>
        [\A n \in Runs : facts'[n] # facts[n] /\ snap[n].release # None
                          => Foundations(snap[n].release) \cap revoked = {}]_hostVars
  BY HostInvStep, LiveIsClean DEF RunsMoveRight
<1>5. HostInv /\ [HostNext]_hostVars =>
        [\A n \in Runs : captured'[n] # captured[n]
            => captured[n] = NotYet /\ captured'[n] <= facts[n] /\ FactSource[n] \notin revoked]_hostVars
  BY HostInvStep DEF RunsMoveRight
<1> QED BY <1>1, <1>2, <1>3, <1>4, <1>5, HostInvAlways, PTL
        DEF HostSpec, HostStands, ActivatedIsClean, RolledBackIsFinal, OneReleasePerRun, NoUseAfterRevoke, FactsCapturedOnce

-----------------------------------------------------------------------------
(***************************************************************************)
(* The costs of a replay experiment, for any number of calls, requests,    *)
(* jobs and revocations.  A request acts on what it read in an earlier     *)
(* transaction; RequestSound says what of it is still so.                  *)
(***************************************************************************)

USE DEF EcoIds, Amounts, CallStates, EcoExperiment

-----------------------------------------------------------------------------
(* The arithmetic: the divisors are numerals, one case each.               *)

LEMMA BreakEvenFor ==
    ASSUME NEW o \in 0..6
    PROVE  \A d \in 1..5, c \in 1..3 :
              LET n == break_even_tasks(o, d, c) IN
              /\ net_saving(n, d, c, 0) >= o
              /\ n > 0 => net_saving(n - 1, d, c, 0) < o
<1> DEFINE Least(d, c) == LET n == break_even_tasks(o, d, c) IN
                          /\ net_saving(n, d, c, 0) >= o
                          /\ n > 0 => net_saving(n - 1, d, c, 0) < o
<1>1. Least(1, 1) /\ Least(2, 1) /\ Least(3, 1) /\ Least(4, 1) /\ Least(5, 1)
  BY DEF break_even_tasks, net_saving
<1>2. Least(1, 2) /\ Least(2, 2) /\ Least(3, 2) /\ Least(4, 2) /\ Least(5, 2)
  BY DEF break_even_tasks, net_saving
<1>3. Least(1, 3) /\ Least(2, 3) /\ Least(3, 3) /\ Least(4, 3) /\ Least(5, 3)
  BY DEF break_even_tasks, net_saving
<1> HIDE DEF Least
<1>4. \A d \in 1..5, c \in 1..3 : Least(d, c)
  BY <1>1, <1>2, <1>3
<1> QED BY <1>4 DEF Least

-----------------------------------------------------------------------------
(* The invariant.                                                          *)

\* A receipt of call c says nothing final that the ledger does not.
Actual(c, r) ==
    /\ r.state = "known_final" => ecoCall[c] = [state |-> "closed", cost |-> r.amount]
    /\ r.state = "not_incurred" => ecoCall[c].state = "released"

HasJob(k) == k \in EcoKeys /\ ecoJobs[k] # None

\* What a request relies on at each of its steps.
RequestSound(q) ==
    /\ q.at = "starting" => q.key \in EcoKeys /\ q.seq \in EcoSeqs
    /\ q.at = "measured" => /\ HasJob(q.key) /\ q.id \in EcoIds /\ q.receipt \in EcoReceipt
                            /\ q.id \in EcoCalls => Actual(q.id, q.receipt)
    /\ q.at \in {"building", "writing"} => HasJob(q.key) /\ q.job.report = None

\* A report is of a job that has it.
ReportsAreJobs == \A r \in ecoReports : HasJob(r.job) /\ ecoJobs[r.job].report # None

EcoInv ==
    /\ EconomicsTypeOK /\ FinalIsActual /\ OneReportPerJob /\ ReportsAreJobs
    /\ DOMAIN ecoProc = EcoProcs /\ \A p \in EcoProcs : RequestSound(ecoProc[p])

LEMMA EcoInvInit == economics_init => EcoInv
<1> SUFFICES ASSUME economics_init PROVE EcoInv
  OBVIOUS
<1>1. EconomicsTypeOK
  <2>1. 1 \in 1..EcoMarks
    BY EconomicsShape
  <2>2. \A c \in EcoCalls : ecoCall[c] \in [state : CallStates, cost : Amounts]
    BY DEF economics_init
  <2> QED BY <2>1, <2>2 DEF economics_init, EconomicsTypeOK
<1>2. \A p \in EcoProcs : ecoProc[p].at = "idle"
  BY DEF economics_init, IdleRequest
<1>3. \A p \in EcoProcs : RequestSound(ecoProc[p])
  BY <1>2 DEF RequestSound
<1> QED BY <1>1, <1>3 DEF economics_init, EcoInv, FinalIsActual, OneReportPerJob, ReportsAreJobs

\* What no step takes back: a job and its report, and how a call ended.
EconomicsKept ==
    /\ \A k \in EcoKeys : ecoJobs[k] # None =>
          ecoJobs'[k] # None /\ (ecoJobs[k].report # None => ecoJobs'[k].report # None)
    /\ \A c \in EcoCalls : ecoCall[c].state \in {"closed", "released"} => ecoCall'[c] = ecoCall[c]

LEMMA SoundIsKept ==
    ASSUME EconomicsKept, NEW q, RequestSound(q) PROVE RequestSound(q)'
<1>1. ASSUME NEW c \in EcoCalls, NEW r, Actual(c, r) PROVE Actual(c, r)'
  BY <1>1 DEF Actual, EconomicsKept
<1>2. ASSUME NEW k, HasJob(k) PROVE HasJob(k)'
  BY <1>2 DEF HasJob, EconomicsKept
<1> QED BY <1>1, <1>2 DEF RequestSound

\* A step keeps the invariant if it keeps what stands and leaves the request it
\* moves sound.
LEMMA StepKeepsInv ==
    ASSUME EcoInv, EconomicsTypeOK', FinalIsActual', OneReportPerJob', ReportsAreJobs', EconomicsKept,
           \/ ecoProc' = ecoProc
           \/ \E p \in EcoProcs : \E q : ecoProc' = [ecoProc EXCEPT ![p] = q] /\ RequestSound(q)'
    PROVE  EcoInv'
<1>1. CASE ecoProc' = ecoProc
  BY <1>1, SoundIsKept DEF EcoInv
<1>2. ASSUME NEW p \in EcoProcs, NEW q, ecoProc' = [ecoProc EXCEPT ![p] = q], RequestSound(q)'
      PROVE  EcoInv'
  <2>1. DOMAIN ecoProc' = EcoProcs
    BY <1>2 DEF EcoInv
  <2>2. ASSUME NEW o \in EcoProcs PROVE RequestSound(ecoProc[o])'
    <3>1. CASE o = p
      <4>1. ecoProc'[o] = q
        BY <1>2, <3>1 DEF EcoInv
      <4> QED BY <1>2, <4>1
    <3>2. CASE o # p
      <4>1. ecoProc'[o] = ecoProc[o] /\ RequestSound(ecoProc[o])
        BY <1>2, <3>2 DEF EcoInv
      <4> QED BY <4>1, SoundIsKept
    <3> QED BY <3>1, <3>2
  <2> QED BY <2>1, <2>2 DEF EcoInv
<1> QED BY <1>1, <1>2

LEMMA IdleIsSound == RequestSound(IdleRequest)'
<1>1. IdleRequest.at = "idle"
  BY DEF IdleRequest
<1> QED BY <1>1 DEF RequestSound

\* The records alone.
Records == <<ecoMark, experiment, ecoJobs, ecoReceipts, ecoReports, ecoCall>>

LEMMA OnlyRequestMoves ==
    ASSUME EcoInv, UNCHANGED Records, NEW p \in EcoProcs, NEW q, Request(p, q), RequestSound(q)
    PROVE  EcoInv'
<1>1. EconomicsTypeOK' /\ FinalIsActual' /\ OneReportPerJob' /\ ReportsAreJobs' /\ EconomicsKept
  BY DEF Records, EcoInv, EconomicsTypeOK, FinalIsActual, OneReportPerJob, ReportsAreJobs, HasJob, EconomicsKept
<1>2. RequestSound(q)'
  BY <1>1, SoundIsKept
<1> QED BY <1>1, <1>2, StepKeepsInv DEF Request

-----------------------------------------------------------------------------
(* One lemma per operation.                                                *)

LEMMA CallMoves ==
    ASSUME EcoInv, NEW c \in EcoCalls, NEW s \in CallStates, NEW cost \in Amounts, budget_call_moves(c, s, cost)
    PROVE  EcoInv'
<1> DEFINE y == [state |-> s, cost |-> cost]
<1>1. y \in [state : CallStates, cost : Amounts]
  OBVIOUS
<1>2. ecoCall[c].state \notin {"closed", "released"}
  BY DEF budget_call_moves
<1> HIDE DEF y
<1>3. ecoCall' = [ecoCall EXCEPT ![c] = y] /\ DOMAIN ecoCall = EcoCalls
  BY DEF budget_call_moves, y, EcoInv, EconomicsTypeOK
<1>4. ecoCall' \in [EcoCalls -> [state : CallStates, cost : Amounts]]
  BY <1>1, <1>3 DEF EcoInv, EconomicsTypeOK
<1>5. \A o \in EcoCalls : o # c => ecoCall'[o] = ecoCall[o]
  BY <1>3
<1>6. EconomicsKept
  BY <1>2, <1>5 DEF budget_call_moves, EconomicsKept
<1>7. EconomicsTypeOK' /\ OneReportPerJob' /\ ReportsAreJobs'
  BY <1>4 DEF budget_call_moves, EcoInv, EconomicsTypeOK, OneReportPerJob, ReportsAreJobs, HasJob
<1>8. FinalIsActual'
  <2>1. FinalIsActual /\ UNCHANGED ecoReceipts
    BY DEF EcoInv, budget_call_moves
  <2> QED BY <2>1, <1>2, <1>5 DEF FinalIsActual
<1> QED BY <1>6, <1>7, <1>8, StepKeepsInv DEF budget_call_moves

LEMMA EconomicsRevokeKeeps == ASSUME EcoInv, economics_revoke PROVE EcoInv'
<1>1. ecoMark' \in 1..EcoMarks
  BY EconomicsShape DEF economics_revoke, EcoInv, EconomicsTypeOK
<1>2. EconomicsTypeOK' /\ FinalIsActual' /\ OneReportPerJob' /\ ReportsAreJobs' /\ EconomicsKept
  BY <1>1 DEF economics_revoke, EcoInv, EconomicsTypeOK, FinalIsActual, OneReportPerJob, ReportsAreJobs, HasJob, EconomicsKept
<1> QED BY <1>2, StepKeepsInv DEF economics_revoke

LEMMA RegisterKeeps == ASSUME EcoInv, register_experiment PROVE EcoInv'
<1>1. EconomicsTypeOK' /\ FinalIsActual' /\ OneReportPerJob' /\ ReportsAreJobs' /\ EconomicsKept
  BY DEF register_experiment, EcoInv, EconomicsTypeOK, FinalIsActual, OneReportPerJob, ReportsAreJobs, HasJob, EconomicsKept
<1> QED BY <1>1, StepKeepsInv DEF register_experiment

\* A request that has read.
LEMMA RequestReads ==
    ASSUME EcoInv, NEW p \in EcoProcs, NEW k \in EcoKeys,
           \/ \E n \in EcoSeqs : start(p, k, n)
           \/ \E c \in EcoCalls : record_budget_cost(p, k, c)
           \/ \E i \in AdminIds, amount \in EcoCosts : register_admin_cost(p, k, i, amount)
           \/ build_blocked_report(p, k)
    PROVE  EcoInv'
<1>1. ASSUME NEW n \in EcoSeqs, start(p, k, n) PROVE EcoInv'
  <2> DEFINE q == [IdleRequest EXCEPT !.at = "starting", !.key = k, !.seq = n]
  <2>1. q.at = "starting" /\ q.key = k /\ q.seq = n
    BY DEF IdleRequest
  <2>2. Request(p, q) /\ UNCHANGED Records
    BY <1>1 DEF start, Records
  <2> HIDE DEF q
  <2>3. RequestSound(q)
    BY <2>1 DEF RequestSound
  <2> QED BY <2>2, <2>3, OnlyRequestMoves
<1>2. ASSUME NEW c \in EcoCalls, record_budget_cost(p, k, c) PROVE EcoInv'
  <2> DEFINE r == measure_cost(ecoCall[c])
             q == [IdleRequest EXCEPT !.at = "measured", !.key = k, !.id = c, !.receipt = r]
  <2>1. ecoCall[c] \in [state : CallStates, cost : Amounts] /\ 0 \in Amounts
    BY DEF EcoInv, EconomicsTypeOK
  <2>2. r \in EcoReceipt
    BY <2>1, EconomicsAbsent DEF measure_cost, CostReceipt, EcoReceipt
  <2>3. Actual(c, r)
    BY <2>1 DEF measure_cost, CostReceipt, Actual
  <2> HIDE DEF r
  <2>4. q.at = "measured" /\ q.key = k /\ q.id = c /\ q.receipt = r
    BY DEF IdleRequest
  <2>5. Request(p, q) /\ UNCHANGED Records /\ HasJob(k)
    BY <1>2 DEF record_budget_cost, Records, r, HasJob
  <2> HIDE DEF q
  <2>6. RequestSound(q)
    BY <2>2, <2>3, <2>4, <2>5 DEF RequestSound
  <2> QED BY <2>5, <2>6, OnlyRequestMoves
<1>3. ASSUME NEW i \in AdminIds, NEW amount \in EcoCosts, register_admin_cost(p, k, i, amount) PROVE EcoInv'
  <2> DEFINE r == CostReceipt("known_final", amount, None)
             q == [IdleRequest EXCEPT !.at = "measured", !.key = k, !.id = i, !.receipt = r]
  <2>2. r \in EcoReceipt
    BY DEF CostReceipt, EcoReceipt
  <2>3. i \notin EcoCalls
    BY EconomicsShape
  <2> HIDE DEF r
  <2>4. q.at = "measured" /\ q.key = k /\ q.id = i /\ q.receipt = r
    BY DEF IdleRequest
  <2>5. Request(p, q) /\ UNCHANGED Records /\ HasJob(k)
    BY <1>3 DEF register_admin_cost, Records, r, HasJob
  <2> HIDE DEF q
  <2>6. RequestSound(q)
    BY <2>2, <2>3, <2>4, <2>5 DEF RequestSound
  <2> QED BY <2>5, <2>6, OnlyRequestMoves
<1>4. ASSUME build_blocked_report(p, k) PROVE EcoInv'
  <2> DEFINE q == [IdleRequest EXCEPT !.at = "building", !.key = k, !.job = ecoJobs[k],
                                      !.receipts = SnapshotOf(ecoJobs[k])]
  <2>1. q.at = "building" /\ q.key = k /\ q.job = ecoJobs[k]
    BY DEF IdleRequest
  <2>2. Request(p, q) /\ UNCHANGED Records /\ HasJob(k) /\ ecoJobs[k].report = None
    BY <1>4 DEF build_blocked_report, SnapshotTaken, Records, HasJob
  <2> HIDE DEF q
  <2>3. RequestSound(q)
    BY <2>1, <2>2 DEF RequestSound
  <2> QED BY <2>2, <2>3, OnlyRequestMoves
<1> QED BY <1>1, <1>2, <1>3, <1>4

\* The four steps that act on what was read.
LEMMA StartWriteKeeps == ASSUME EcoInv, NEW p \in EcoProcs, write_started_job(p) PROVE EcoInv'
<1> DEFINE q == ecoProc[p]
           y == NewJob(q.seq)
<1>1. RequestSound(q) /\ q.at = "starting"
  BY DEF EcoInv, write_started_job
<1>2. q.key \in EcoKeys /\ q.seq \in EcoSeqs
  BY <1>1 DEF RequestSound
<1>3. CASE InputsStand /\ ecoJobs[q.key] = None
  <2>1. y \in EcoJob /\ y.report = None
    BY <1>2 DEF NewJob, EcoJob
  <2>2. /\ ecoJobs' = [ecoJobs EXCEPT ![q.key] = y] /\ Request(p, IdleRequest)
        /\ UNCHANGED <<ecoMark, experiment, ecoReceipts, ecoReports, ecoCall>>
    BY <1>3 DEF write_started_job, StartWrites
  <2> HIDE DEF y, q
  <2>3. ecoJobs' \in [EcoKeys -> EcoJob \cup {None}]
    BY <2>1, <2>2 DEF EcoInv, EconomicsTypeOK
  <2>4. \A k \in EcoKeys : ecoJobs[k] # None => ecoJobs'[k] = ecoJobs[k]
    BY <2>2, <1>3 DEF EcoInv, EconomicsTypeOK
  <2>5. EconomicsKept
    BY <2>2, <2>4 DEF EconomicsKept
  <2>6. EconomicsTypeOK' /\ FinalIsActual' /\ OneReportPerJob'
    BY <2>2, <2>3 DEF EcoInv, EconomicsTypeOK, FinalIsActual, OneReportPerJob
  <2>7. ReportsAreJobs'
    BY <2>2, <2>4 DEF EcoInv, ReportsAreJobs, HasJob
  <2> QED BY <2>2, <2>5, <2>6, <2>7, IdleIsSound, StepKeepsInv DEF Request
<1>4. CASE ~(InputsStand /\ ecoJobs[q.key] = None)
  <2>1. Request(p, IdleRequest) /\ UNCHANGED Records
    BY <1>4 DEF write_started_job, Records
  <2>2. RequestSound(IdleRequest)
    BY DEF RequestSound, IdleRequest
  <2> QED BY <2>1, <2>2, OnlyRequestMoves
<1> QED BY <1>3, <1>4

\* A job that moves keeps its request, its costs and its report.
Grows(old, new) ==
    /\ new \in EcoJob /\ new.seq = old.seq /\ old.receipts \subseteq new.receipts
    /\ new.report = old.report

LEMMA JobGrows ==
    ASSUME EcoInv, NEW k \in EcoKeys, ecoJobs[k] # None, NEW y, Grows(ecoJobs[k], y),
           ecoJobs' = [ecoJobs EXCEPT ![k] = y], UNCHANGED <<ecoReports, ecoCall>>
    PROVE  EconomicsKept /\ ReportsAreJobs' /\ OneReportPerJob' /\ ecoJobs' \in [EcoKeys -> EcoJob \cup {None}]
<1>1. y # None /\ y \in EcoJob /\ y.report = ecoJobs[k].report
  BY EconomicsAbsent DEF Grows
<1>2. ecoJobs'[k] = y /\ \A o \in EcoKeys : o # k => ecoJobs'[o] = ecoJobs[o]
  BY DEF EcoInv, EconomicsTypeOK
<1>3. EconomicsKept
  BY <1>1, <1>2 DEF EconomicsKept
<1>4. ReportsAreJobs'
  <2> SUFFICES ASSUME NEW r \in ecoReports PROVE HasJob(r.job)' /\ (ecoJobs[r.job].report # None)'
    BY DEF ReportsAreJobs
  <2>1. r.job \in EcoKeys /\ ecoJobs[r.job] # None /\ ecoJobs[r.job].report # None
    BY DEF EcoInv, ReportsAreJobs, HasJob
  <2> QED BY <2>1, <1>3 DEF HasJob, EconomicsKept
<1>5. OneReportPerJob'
  BY DEF EcoInv, OneReportPerJob
<1>6. ecoJobs' \in [EcoKeys -> EcoJob \cup {None}]
  BY <1>1 DEF EcoInv, EconomicsTypeOK
<1> QED BY <1>3, <1>4, <1>5, <1>6

LEMMA CancelGrows ==
    ASSUME EcoInv, NEW k \in EcoKeys, cancel_job(k, "operator")
    PROVE  \E y : Grows(ecoJobs[k], y) /\ ecoJobs' = [ecoJobs EXCEPT ![k] = y]
<1> DEFINE y == [ecoJobs[k] EXCEPT !.state = "cancelled", !.reason = "operator"]
<1>1. ecoJobs[k] \in EcoJob
  BY DEF cancel_job, EcoInv, EconomicsTypeOK
<1>2. Grows(ecoJobs[k], y)
  BY <1>1 DEF Grows, EcoJob
<1>3. ecoJobs' = [ecoJobs EXCEPT ![k] = y]
  BY DEF cancel_job, EcoInv, EconomicsTypeOK
<1> QED BY <1>2, <1>3

LEMMA CancelKeeps == ASSUME EcoInv, NEW k \in EcoKeys, cancel_job(k, "operator") PROVE EcoInv'
<1>1. PICK y : Grows(ecoJobs[k], y) /\ ecoJobs' = [ecoJobs EXCEPT ![k] = y]
  BY CancelGrows
<1>2. ecoJobs[k] # None /\ UNCHANGED <<ecoMark, experiment, ecoReceipts, ecoReports, ecoCall, ecoProc>>
  BY DEF cancel_job
<1>3. EconomicsKept /\ ReportsAreJobs' /\ OneReportPerJob' /\ ecoJobs' \in [EcoKeys -> EcoJob \cup {None}]
  BY <1>1, <1>2, JobGrows
<1>4. EconomicsTypeOK' /\ FinalIsActual'
  BY <1>2, <1>3 DEF EcoInv, EconomicsTypeOK, FinalIsActual
<1> QED BY <1>2, <1>3, <1>4, StepKeepsInv

\* What storing a receipt does: nothing, a refresh of an uncertain receipt by a
\* final one, or a new receipt in the index of its job.
PersistDoes(k, i, new) ==
    \/ UNCHANGED <<ecoReceipts, ecoJobs>>
    \/ /\ ecoReceipts[i] # None /\ ecoReceipts[i].state = "usage_uncertain"
       /\ ecoReceipts' = [ecoReceipts EXCEPT ![i] = new] /\ UNCHANGED ecoJobs
    \/ /\ ecoReceipts[i] = None /\ ecoReceipts' = [ecoReceipts EXCEPT ![i] = new]
       /\ \E y : Grows(ecoJobs[k], y) /\ ecoJobs' = [ecoJobs EXCEPT ![k] = y]

LEMMA PersistSteps ==
    ASSUME EcoInv, NEW p \in EcoProcs, persist_cost_receipt(p)
    PROVE  /\ PersistDoes(ecoProc[p].key, ecoProc[p].id, ecoProc[p].receipt)
           /\ RequestSound(ecoProc[p]) /\ ecoProc[p].at = "measured"
<1> DEFINE q == ecoProc[p]
           k == q.key
           job == ecoJobs[k]
           y == [job EXCEPT !.receipts = @ \cup {q.id},
                            !.state = IF q.receipt.state = "usage_uncertain" /\ @ # "cancelled"
                                      THEN "usage_uncertain" ELSE @]
<1>1. RequestSound(q) /\ q.at = "measured"
  BY DEF EcoInv, persist_cost_receipt
<1>2. k \in EcoKeys /\ job \in EcoJob /\ q.id \in EcoIds
  BY <1>1 DEF RequestSound, HasJob, EcoInv, EconomicsTypeOK
<1>3. CASE SourceTaken(job, q.id)
  BY <1>1, <1>3 DEF persist_cost_receipt, PersistDoes
<1>4. CASE ~SourceTaken(job, q.id) /\ ecoReceipts[q.id] # None
  BY <1>1, <1>4 DEF persist_cost_receipt, PersistDoes, MayRefresh
<1>5. CASE ~SourceTaken(job, q.id) /\ ecoReceipts[q.id] = None
  <2>1. Grows(job, y)
    BY <1>2 DEF Grows, EcoJob
  <2>2. ecoJobs' = [ecoJobs EXCEPT ![k] = y]
    BY <1>2, <1>5 DEF persist_cost_receipt, EcoInv, EconomicsTypeOK
  <2>3. ecoReceipts' = [ecoReceipts EXCEPT ![q.id] = q.receipt]
    BY <1>5 DEF persist_cost_receipt
  <2> HIDE DEF y
  <2> QED BY <1>1, <1>5, <2>1, <2>2, <2>3 DEF PersistDoes
<1> QED BY <1>3, <1>4, <1>5

LEMMA PersistKeeps == ASSUME EcoInv, NEW p \in EcoProcs, persist_cost_receipt(p) PROVE EcoInv'
<1> DEFINE q == ecoProc[p]
<1>1. PersistDoes(q.key, q.id, q.receipt) /\ RequestSound(q) /\ q.at = "measured"
  BY PersistSteps
<1>2. /\ HasJob(q.key) /\ q.id \in EcoIds /\ q.receipt \in EcoReceipt
      /\ q.id \in EcoCalls => Actual(q.id, q.receipt)
  BY <1>1 DEF RequestSound
<1>3. Request(p, IdleRequest) /\ UNCHANGED <<ecoMark, experiment, ecoReports, ecoCall>>
  BY DEF persist_cost_receipt
<1> HIDE DEF q
<1>4. EconomicsKept /\ ReportsAreJobs' /\ OneReportPerJob' /\ ecoJobs' \in [EcoKeys -> EcoJob \cup {None}]
  <2>1. CASE UNCHANGED ecoJobs
    BY <2>1, <1>3 DEF EconomicsKept, EcoInv, EconomicsTypeOK, ReportsAreJobs, OneReportPerJob, HasJob
  <2>2. ASSUME NEW y, Grows(ecoJobs[q.key], y), ecoJobs' = [ecoJobs EXCEPT ![q.key] = y]
        PROVE  EconomicsKept /\ ReportsAreJobs' /\ OneReportPerJob' /\ ecoJobs' \in [EcoKeys -> EcoJob \cup {None}]
    BY <2>2, <1>2, <1>3, JobGrows DEF HasJob
  <2> QED BY <2>1, <2>2, <1>1 DEF PersistDoes
<1>5. ecoReceipts' = ecoReceipts \/ ecoReceipts' = [ecoReceipts EXCEPT ![q.id] = q.receipt]
  BY <1>1 DEF PersistDoes
<1>6. ecoReceipts' \in [EcoIds -> EcoReceipt \cup {None}]
  BY <1>2, <1>5 DEF EcoInv, EconomicsTypeOK
<1>7. EconomicsTypeOK'
  BY <1>3, <1>4, <1>6 DEF EcoInv, EconomicsTypeOK
<1>8. FinalIsActual'
  <2>1. CASE ecoReceipts' = ecoReceipts
    BY <2>1, <1>3 DEF EcoInv, FinalIsActual
  <2>2. CASE ecoReceipts' = [ecoReceipts EXCEPT ![q.id] = q.receipt]
    <3> SUFFICES ASSUME NEW c \in EcoCalls, ecoReceipts'[c] # None PROVE Actual(c, ecoReceipts[c])'
      BY DEF FinalIsActual, Actual
    <3>1. CASE c = q.id
      <4>1. ecoReceipts'[c] = q.receipt
        BY <2>2, <3>1, <1>2 DEF EcoInv, EconomicsTypeOK
      <4>2. Actual(c, q.receipt)
        BY <3>1, <1>2
      <4> QED BY <4>1, <4>2, <1>3 DEF Actual
    <3>2. CASE c # q.id
      <4>1. ecoReceipts'[c] = ecoReceipts[c]
        BY <2>2, <3>2, <1>2 DEF EcoInv, EconomicsTypeOK
      <4>2. FinalIsActual
        BY DEF EcoInv
      <4> QED BY <4>1, <4>2, <1>3 DEF FinalIsActual, Actual
    <3> QED BY <3>1, <3>2
  <2> QED BY <1>5, <2>1, <2>2
<1> QED BY <1>3, <1>4, <1>7, <1>8, IdleIsSound, StepKeepsInv DEF Request

LEMMA CompareKeeps == ASSUME EcoInv, NEW p \in EcoProcs, compare_calls(p) PROVE EcoInv'
<1> DEFINE q == [ecoProc[p] EXCEPT !.at = "writing"]
<1>1. UNCHANGED Records
  BY DEF compare_calls, Records
<1>2. RequestSound(ecoProc[p]) /\ ecoProc[p].at = "building"
  BY DEF EcoInv, compare_calls
<1>3. CASE Request(p, IdleRequest)
  <2>1. RequestSound(IdleRequest)
    BY DEF RequestSound, IdleRequest
  <2> QED BY <1>1, <1>3, <2>1, OnlyRequestMoves
<1>4. CASE Request(p, q)
  <2>1. q.key = ecoProc[p].key /\ q.job = ecoProc[p].job
    OBVIOUS
  <2>2. q.at \notin {"starting", "measured"}
    BY <1>2
  <2>3. HasJob(q.key) /\ q.job.report = None
    BY <1>2, <2>1 DEF RequestSound
  <2> HIDE DEF q
  <2>4. RequestSound(q)
    BY <2>2, <2>3 DEF RequestSound
  <2> QED BY <1>1, <1>4, <2>4, OnlyRequestMoves
<1> QED BY <1>3, <1>4 DEF compare_calls

\* What writing a report does: nothing, or one report of a job that has none.
ReportDoes(k, r) ==
    \/ UNCHANGED <<ecoReports, ecoJobs>>
    \/ /\ HasJob(k) /\ ecoJobs[k].report = None /\ ecoJobs[k].state # "cancelled" /\ InputsStand
       /\ r.job = k /\ r.receipts = SnapshotOf(ecoJobs[k]) /\ r.terminal \in {"blocked_support", "usage_uncertain"}
       /\ ecoReports' = ecoReports \cup {r}
       /\ ecoJobs' = [ecoJobs EXCEPT ![k] = [@ EXCEPT !.report = r.terminal]]

LEMMA ReportSteps ==
    ASSUME EcoInv, NEW p \in EcoProcs, write_report(p)
    PROVE  \E k, r : ReportDoes(k, r)
<1> DEFINE q == ecoProc[p]
           job == ecoJobs[q.key]
           r == ReportOf(p)
<1>1. RequestSound(q) /\ q.at = "writing"
  BY DEF EcoInv, write_report
<1>2. HasJob(q.key) /\ q.job.report = None
  BY <1>1 DEF RequestSound
<1>3. r.job = q.key /\ r.receipts = q.receipts /\ r.terminal \in {"blocked_support", "usage_uncertain"}
  BY DEF ReportOf, Terminal
<1> HIDE DEF r
<1>4. CASE job.state # "cancelled" /\ InputsStand /\ job = q.job /\ SnapshotOf(job) = q.receipts
  <2>1. /\ ecoReports' = ecoReports \cup {r}
        /\ ecoJobs' = [ecoJobs EXCEPT ![q.key].report = r.terminal]
    BY <1>4 DEF write_report, ReportWritten, r
  <2>2. ReportDoes(q.key, r)
    BY <2>1, <1>2, <1>3, <1>4 DEF ReportDoes
  <2> QED BY <2>2
<1>5. CASE ~(job.state # "cancelled" /\ InputsStand /\ job = q.job /\ SnapshotOf(job) = q.receipts)
  BY <1>5 DEF write_report, ReportDoes
<1> QED BY <1>4, <1>5

LEMMA ReportKeeps == ASSUME EcoInv, NEW p \in EcoProcs, write_report(p) PROVE EcoInv'
<1>1. PICK k, r : ReportDoes(k, r)
  BY ReportSteps
<1>2. Request(p, IdleRequest) /\ UNCHANGED <<ecoMark, experiment, ecoReceipts, ecoCall>>
  BY DEF write_report, ReportWritten
<1>3. CASE UNCHANGED <<ecoReports, ecoJobs>>
  <2>1. RequestSound(IdleRequest)
    BY DEF RequestSound, IdleRequest
  <2> QED BY <1>2, <1>3, <2>1, OnlyRequestMoves DEF Records
<1>4. CASE ~UNCHANGED <<ecoReports, ecoJobs>>
  <2> DEFINE y == [ecoJobs[k] EXCEPT !.report = r.terminal]
  <2>1. /\ k \in EcoKeys /\ ecoJobs[k] \in EcoJob /\ ecoJobs[k].report = None
        /\ r.job = k /\ r.terminal \in {"blocked_support", "usage_uncertain"}
        /\ ecoReports' = ecoReports \cup {r} /\ ecoJobs' = [ecoJobs EXCEPT ![k] = y]
    BY <1>1, <1>4 DEF ReportDoes, HasJob, EcoInv, EconomicsTypeOK
  <2>2. y \in EcoJob /\ y.report # None
    BY <2>1, EconomicsAbsent DEF EcoJob
  <2>3. y # None
    BY <2>2, EconomicsAbsent
  <2> HIDE DEF y
  <2>4. ecoJobs'[k] = y /\ \A o \in EcoKeys : o # k => ecoJobs'[o] = ecoJobs[o]
    BY <2>1 DEF EcoInv, EconomicsTypeOK
  <2>5. EconomicsKept
    BY <1>2, <2>2, <2>3, <2>4 DEF EconomicsKept
  <2>6. ecoJobs' \in [EcoKeys -> EcoJob \cup {None}]
    BY <2>1, <2>2 DEF EcoInv, EconomicsTypeOK
  <2>7. EconomicsTypeOK' /\ FinalIsActual'
    BY <1>2, <2>1, <2>6 DEF EcoInv, EconomicsTypeOK, FinalIsActual
  <2>8. \A t \in ecoReports : t.job # k /\ t.job \in EcoKeys /\ ecoJobs[t.job] # None /\ ecoJobs[t.job].report # None
    BY <2>1 DEF EcoInv, ReportsAreJobs, HasJob
  <2>9. OneReportPerJob'
    BY <2>1, <2>8 DEF EcoInv, OneReportPerJob
  <2>10. ReportsAreJobs'
    BY <2>1, <2>2, <2>3, <2>4, <2>8 DEF ReportsAreJobs, HasJob
  <2> QED BY <1>2, <2>5, <2>7, <2>9, <2>10, IdleIsSound, StepKeepsInv DEF Request
<1> QED BY <1>3, <1>4

LEMMA EcoInvStep == EcoInv /\ [economics_next]_ecovars => EcoInv'
<1> SUFFICES ASSUME EcoInv, [economics_next]_ecovars PROVE EcoInv'
  OBVIOUS
<1>1. CASE UNCHANGED ecovars
  <2>1. EconomicsTypeOK' /\ FinalIsActual' /\ OneReportPerJob' /\ ReportsAreJobs' /\ EconomicsKept /\ ecoProc' = ecoProc
    BY <1>1 DEF ecovars, EcoInv, EconomicsTypeOK, FinalIsActual, OneReportPerJob, ReportsAreJobs, HasJob, EconomicsKept
  <2> QED BY <2>1, StepKeepsInv
<1>2. CASE register_experiment \/ economics_revoke
  BY <1>2, RegisterKeeps, EconomicsRevokeKeeps
<1>3. ASSUME NEW c \in EcoCalls, NEW s \in CallStates, NEW cost \in Amounts, budget_call_moves(c, s, cost) PROVE EcoInv'
  BY <1>3, CallMoves
<1>4. ASSUME NEW k \in EcoKeys, cancel_job(k, "operator") PROVE EcoInv'
  BY <1>4, CancelKeeps
<1>5. ASSUME NEW p \in EcoProcs, economics_step(p) PROVE EcoInv'
  <2>1. CASE write_started_job(p) \/ persist_cost_receipt(p) \/ compare_calls(p) \/ write_report(p)
    BY <2>1, StartWriteKeeps, PersistKeeps, CompareKeeps, ReportKeeps
  <2> QED BY <2>1, <1>5, RequestReads DEF economics_step
<1> QED BY <1>1, <1>2, <1>3, <1>4, <1>5 DEF economics_next

-----------------------------------------------------------------------------
(* The results.                                                            *)

LEMMA EcoInvAlways == economics_spec => []EcoInv
BY EcoInvInit, EcoInvStep, PTL DEF economics_spec

\* In every state of every instance: a cost booked as final is what the ledger
\* has for a closed call, a job has at most one report, and break_even_tasks is
\* the least number of tasks that saves money.
THEOREM EconomicsIsSafe == economics_spec => []EconomicsSafe
<1>1. BreakEvenIsLeast
  BY BreakEvenFor DEF BreakEvenIsLeast
<1>2. EcoInv => EconomicsSafe
  BY <1>1 DEF EcoInv, EconomicsSafe
<1> QED BY <1>2, EcoInvAlways, PTL

\* The step properties, as one step.
Final(r) == r # None /\ r.state \in {"known_final", "not_incurred"}
StoredStep ==
    /\ \A i \in EcoIds : Final(ecoReceipts[i]) => ecoReceipts'[i] = ecoReceipts[i]
    /\ \A k \in EcoKeys : ecoJobs[k] # None =>
          ecoJobs'[k].seq = ecoJobs[k].seq /\ ecoJobs[k].receipts \subseteq ecoJobs'[k].receipts
    /\ (\E k \in EcoKeys : ecoJobs[k] = None /\ ecoJobs'[k] # None) \/ ecoReports' # ecoReports => InputsStand
    /\ \A r \in ecoReports' \ ecoReports :
          ecoJobs[r.job].state # "cancelled" /\ r.receipts = SnapshotOf(ecoJobs[r.job])

LEMMA JobMovesWithin ==
    ASSUME EcoInv, NEW k \in EcoKeys, ecoJobs[k] # None, NEW y, ecoJobs' = [ecoJobs EXCEPT ![k] = y],
           y.seq = ecoJobs[k].seq, ecoJobs[k].receipts \subseteq y.receipts
    PROVE  /\ \A o \in EcoKeys : ecoJobs[o] # None =>
                 ecoJobs'[o].seq = ecoJobs[o].seq /\ ecoJobs[o].receipts \subseteq ecoJobs'[o].receipts
           /\ ~\E o \in EcoKeys : ecoJobs[o] = None /\ ecoJobs'[o] # None
<1>1. ecoJobs'[k] = y /\ \A o \in EcoKeys : o # k => ecoJobs'[o] = ecoJobs[o]
  BY DEF EcoInv, EconomicsTypeOK
<1> QED BY <1>1

LEMMA StepIsStoredStep == EcoInv /\ [economics_next]_ecovars => StoredStep
<1> SUFFICES ASSUME EcoInv, [economics_next]_ecovars PROVE StoredStep
  OBVIOUS
<1>1. CASE UNCHANGED <<ecoJobs, ecoReceipts, ecoReports>>
  BY <1>1 DEF StoredStep
<1>2. ASSUME NEW k \in EcoKeys, cancel_job(k, "operator") PROVE StoredStep
  <2>1. PICK y : Grows(ecoJobs[k], y) /\ ecoJobs' = [ecoJobs EXCEPT ![k] = y]
    BY <1>2, CancelGrows
  <2>2. ecoJobs[k] # None /\ UNCHANGED <<ecoReceipts, ecoReports>>
    BY <1>2 DEF cancel_job
  <2> QED BY <2>1, <2>2, JobMovesWithin DEF Grows, StoredStep
<1>3. ASSUME NEW p \in EcoProcs, persist_cost_receipt(p) PROVE StoredStep
  <2> DEFINE q == ecoProc[p]
  <2>1. PersistDoes(q.key, q.id, q.receipt) /\ RequestSound(q) /\ q.at = "measured"
    BY <1>3, PersistSteps
  <2>2. HasJob(q.key) /\ q.id \in EcoIds /\ UNCHANGED ecoReports
    BY <1>3, <2>1 DEF RequestSound, persist_cost_receipt
  <2> HIDE DEF q
  <2>3. \A i \in EcoIds : Final(ecoReceipts[i]) => ecoReceipts'[i] = ecoReceipts[i]
    BY <2>1, <2>2 DEF PersistDoes, Final, EcoInv, EconomicsTypeOK
  <2>4. CASE UNCHANGED ecoJobs
    BY <2>2, <2>3, <2>4 DEF StoredStep
  <2>5. ASSUME NEW y, Grows(ecoJobs[q.key], y), ecoJobs' = [ecoJobs EXCEPT ![q.key] = y] PROVE StoredStep
    BY <2>2, <2>3, <2>5, JobMovesWithin DEF HasJob, Grows, StoredStep
  <2> QED BY <2>1, <2>4, <2>5 DEF PersistDoes
<1>4. ASSUME NEW p \in EcoProcs, write_started_job(p), ~UNCHANGED <<ecoJobs, ecoReceipts, ecoReports>> PROVE StoredStep
  <2>1. /\ InputsStand /\ ecoJobs[ecoProc[p].key] = None
        /\ ecoJobs' = [ecoJobs EXCEPT ![ecoProc[p].key] = NewJob(ecoProc[p].seq)]
        /\ UNCHANGED <<ecoReceipts, ecoReports>>
    BY <1>4 DEF write_started_job, StartWrites
  <2>2. \A k \in EcoKeys : ecoJobs[k] # None => ecoJobs'[k] = ecoJobs[k]
    BY <2>1 DEF EcoInv, EconomicsTypeOK
  <2> QED BY <2>1, <2>2 DEF StoredStep
<1>5. ASSUME NEW p \in EcoProcs, write_report(p), ~UNCHANGED <<ecoJobs, ecoReceipts, ecoReports>> PROVE StoredStep
  <2>1. UNCHANGED ecoReceipts
    BY <1>5 DEF write_report, ReportWritten
  <2>2. PICK k, r : ReportDoes(k, r)
    BY <1>5, ReportSteps
  <2> DEFINE y == [ecoJobs[k] EXCEPT !.report = r.terminal]
  <2>3. /\ k \in EcoKeys /\ ecoJobs[k] # None /\ ecoJobs[k] \in EcoJob /\ ecoJobs[k].state # "cancelled" /\ InputsStand
        /\ r.job = k /\ r.receipts = SnapshotOf(ecoJobs[k])
        /\ ecoReports' = ecoReports \cup {r} /\ ecoJobs' = [ecoJobs EXCEPT ![k] = y]
    BY <1>5, <2>1, <2>2 DEF ReportDoes, HasJob, EcoInv, EconomicsTypeOK
  <2>4. y.seq = ecoJobs[k].seq /\ ecoJobs[k].receipts \subseteq y.receipts
    BY <2>3 DEF EcoJob
  <2> HIDE DEF y
  <2> QED BY <2>1, <2>3, <2>4, JobMovesWithin DEF StoredStep
<1>6. CASE \/ UNCHANGED ecovars \/ register_experiment \/ economics_revoke
           \/ \E c \in EcoCalls, s \in CallStates, cost \in Amounts : budget_call_moves(c, s, cost)
  BY <1>1, <1>6 DEF ecovars, register_experiment, economics_revoke, budget_call_moves
<1>7. ASSUME NEW p \in EcoProcs, economics_step(p) PROVE StoredStep
  <2>1. CASE \/ compare_calls(p)
             \/ \E k \in EcoKeys :
                   \/ \E n \in EcoSeqs : start(p, k, n)
                   \/ \E c \in EcoCalls : record_budget_cost(p, k, c)
                   \/ \E i \in AdminIds, amount \in EcoCosts : register_admin_cost(p, k, i, amount)
                   \/ build_blocked_report(p, k)
    BY <1>1, <2>1 DEF compare_calls, start, record_budget_cost, register_admin_cost, build_blocked_report, SnapshotTaken
  <2> QED BY <1>1, <1>3, <1>4, <1>5, <1>7, <2>1 DEF economics_step
<1> QED BY <1>2, <1>6, <1>7 DEF economics_next

\* A final receipt is never taken back, by a request that measured the call
\* before it was closed or by any other step.
THEOREM FinalReceiptsStay == economics_spec => FinalStays
<1>1. StoredStep => \A i \in EcoIds : ecoReceipts[i] # None /\ ecoReceipts[i].state \in {"known_final", "not_incurred"} =>
                        ecoReceipts'[i] = ecoReceipts[i]
  BY DEF StoredStep, Final
<1> QED BY <1>1, EcoInvAlways, StepIsStoredStep, PTL DEF economics_spec, FinalStays

\* A job keeps its request and every cost it has collected, whatever a second
\* start of its key, a cancellation or a report does.
THEOREM JobsKeepTheirCosts == economics_spec => JobKeepsItsCosts
<1>1. StoredStep => \A k \in EcoKeys : ecoJobs[k] # None =>
                        ecoJobs'[k].seq = ecoJobs[k].seq /\ ecoJobs[k].receipts \subseteq ecoJobs'[k].receipts
  BY DEF StoredStep
<1> QED BY <1>1, EcoInvAlways, StepIsStoredStep, PTL DEF economics_spec, JobKeepsItsCosts

\* No job and no report comes to be over sources that were revoked after the
\* transaction that decided on it.
THEOREM NothingOverRevokedSources == economics_spec => OverStandingSources
<1>1. StoredStep => ((\E k \in EcoKeys : ecoJobs[k] = None /\ ecoJobs'[k] # None) \/ ecoReports' # ecoReports => InputsStand)
  BY DEF StoredStep
<1> QED BY <1>1, EcoInvAlways, StepIsStoredStep, PTL DEF economics_spec, OverStandingSources

\* A report is of the receipts its job has when it is written, though they were
\* read two transactions earlier, and never of a cancelled job.
THEOREM ReportsMatchTheirJobs == economics_spec => ReportIsOfTheJob
<1>1. StoredStep => \A r \in ecoReports' \ ecoReports :
                        /\ ecoJobs[r.job].state # "cancelled"
                        /\ r.receipts = SnapshotOf(ecoJobs[r.job])
  BY DEF StoredStep
<1> QED BY <1>1, EcoInvAlways, StepIsStoredStep, PTL DEF economics_spec, ReportIsOfTheJob

-----------------------------------------------------------------------------
(***************************************************************************)
(* The formal authority, for any number of hosts, users, registrations,    *)
(* processes and changes of the root.                                      *)
(***************************************************************************)

(* The invariant.                                                          *)

IsStore(s) == DOMAIN s = {"docs", "wit", "acts"}

\* What an action says was said on an authenticated connection; that of a release
\* asks for the very status it signs.
ActSound(x, a, done) ==
    /\ x = <<x[1], x[2]>> /\ a.uid \in AUids
    /\ <<a.host, a.uid, a.op, x[1], a.body>> \in done
    /\ x[1] = ReleaseId => a.op = a.body

\* Witnesses and actions are of stored bodies.
TablesSound(s, done) ==
    /\ IsStore(s)
    /\ \A x \in DOMAIN s.wit : x[1] \in {"Admin", "Evaluator", "Host"} /\ x[2] \in DOMAIN s.docs
    /\ \A x \in DOMAIN s.acts : x[1] \in DOMAIN s.docs /\ ActSound(x, s.acts[x], done)

\* What the bodies of single ids say.
BodySound(id, body) ==
    /\ id = PointerId => body \in DOMAIN AProfiles
    /\ id = ParentId => body = "root"
    /\ id = ReportId => body = "final"
    /\ id = CostId => body.measured = body.seal

RowSigned(s) ==
    Stored(s, ReleaseId) =>
      <<ReleaseId, "Admin">> \in DOMAIN s.acts /\ s.acts[<<ReleaseId, "Admin">>].body = s.docs[ReleaseId]

StoreSound(s, done) ==
    /\ TablesSound(s, done) /\ RowSigned(s)
    /\ \A id \in DOMAIN s.docs : BodySound(id, s.docs[id])

\* What is measured lies between the seal that was read and the one of now.
MeterSound ==
    metering # None =>
      /\ DOMAIN metering = {"profile", "seal", "measured"}
      /\ metering.seal \in Nat /\ metering.seal <= seal
      /\ metering.measured # None =>
           metering.measured \in Nat /\ metering.seal <= metering.measured /\ metering.measured <= seal

ProcessesSound ==
    grader \in [AHosts -> APids \cup {None}] /\ hostpid \in APids /\ seal \in 0..ABound

AuthorityInv == StoreSound(reg, did) /\ MeterSound /\ ProcessesSound

\* What a session may not do to the bodies.
AuthorityKept(docs, new) ==
    \A id \in DOMAIN docs : id \notin {PointerId, ReleaseId} => id \in DOMAIN new /\ new[id] = docs[id]

LEMMA IdsDiffer ==
    /\ ReleaseId # PointerId /\ ReleaseId # ParentId /\ ReleaseId # RootId /\ ReleaseId # ReportId /\ ReleaseId # CostId
    /\ ReleaseId # CandidateId /\ ReleaseId # ControlId /\ ReleaseId # CaptureId /\ ReleaseId # GradeId
    /\ ReleaseId # IssuedId /\ PointerId # ParentId /\ PointerId # RootId /\ PointerId # ReportId /\ PointerId # CostId
    /\ PointerId # CandidateId /\ PointerId # ControlId /\ PointerId # CaptureId /\ PointerId # GradeId
    /\ PointerId # IssuedId /\ RootId # ParentId /\ RootId # ReportId /\ RootId # CostId
    /\ CandidateId # ParentId /\ CandidateId # ReportId /\ CandidateId # CostId
    /\ ControlId # ParentId /\ ControlId # ReportId /\ ControlId # CostId
    /\ CaptureId # ParentId /\ CaptureId # ReportId /\ CaptureId # CostId
    /\ GradeId # ParentId /\ GradeId # ReportId /\ GradeId # CostId
    /\ IssuedId # ParentId /\ IssuedId # ReportId /\ IssuedId # CostId
    /\ ParentId # ReportId /\ ParentId # CostId /\ ReportId # CostId
  BY DEF ReleaseId, PointerId, ParentId, RootId, ReportId, CostId, CandidateId, ControlId, CaptureId, GradeId, IssuedId

\* A registration is none of the single ids.
Registration(id) == id[1] \in {"host", "set", "provider", "meter", "profile"}
LEMMA RegistrationsDiffer ==
    ASSUME NEW id, Registration(id)
    PROVE  id # ReleaseId /\ id # PointerId /\ id # ParentId /\ id # RootId /\ id # ReportId /\ id # CostId
  BY DEF Registration, ReleaseId, PointerId, ParentId, RootId, ReportId, CostId

LEMMA WriteFacts ==
    ASSUME NEW s, IsStore(s), NEW id, NEW body
    PROVE  /\ IsStore(Write(s, id, body)) /\ Write(s, id, body).docs = Put(s.docs, id, body)
           /\ Write(s, id, body).wit = s.wit /\ Write(s, id, body).acts = s.acts
  BY DEF IsStore, Write

LEMMA WitnessFacts ==
    ASSUME NEW s, IsStore(s), NEW id, NEW role
    PROVE  /\ IsStore(write_content_witness(s, role, id)) /\ write_content_witness(s, role, id).docs = s.docs
           /\ write_content_witness(s, role, id).wit = Put(s.wit, <<role, id>>, s.docs[id])
           /\ write_content_witness(s, role, id).acts = s.acts
  BY DEF IsStore, write_content_witness

LEMMA ActionFacts ==
    ASSUME NEW s, IsStore(s), NEW cap, NEW h, NEW id, NEW role
    PROVE  /\ IsStore(persist_principal_action(s, cap, h, id, role))
           /\ persist_principal_action(s, cap, h, id, role).docs = s.docs
           /\ persist_principal_action(s, cap, h, id, role).wit = s.wit
           /\ persist_principal_action(s, cap, h, id, role).acts =
                Put(s.acts, <<id, role>>, [host |-> h, uid |-> cap.uid, op |-> cap.op, body |-> s.docs[id]])
  BY DEF IsStore, persist_principal_action

LEMMA AuthorityInvIsSafe == AuthorityInv => AuthoritySafe
<1> SUFFICES ASSUME AuthorityInv PROVE AuthoritySafe
  OBVIOUS
<1> USE DEF AuthorityInv
<1>1. AuthorityTypeOK
  BY DEF AuthorityTypeOK, StoreSound, TablesSound, IsStore, ActSound, ProcessesSound
<1>2. RowMatchesSignature
  BY DEF RowMatchesSignature, StoreSound, RowSigned
<1>3. CostIsOfTheRoot
  <2>1. Stored(reg, CostId) => reg.docs[CostId].measured = reg.docs[CostId].seal
    BY DEF Stored, StoreSound, BodySound
  <2>2. verify_issued_authority(reg) => reg.docs[CostId].seal = seal
    BY DEF verify_issued_authority, cost_stands
  <2> QED BY <2>1, <2>2 DEF CostIsOfTheRoot
\* A principal's action is in the history.
<1>4. ASSUME NEW h, NEW id, NEW role \in {"Admin", "Worker"}, require_principal_action(reg, h, id, role)
      PROVE  \E op \in (IF role = "Admin" THEN Admins ELSE {"stage"}) :
               /\ <<h, ASet[h][role], op, id, reg.docs[id]>> \in did
               /\ id = ReleaseId => op = reg.docs[id]
  <2> DEFINE a == reg.acts[<<id, role>>]
  <2>1. /\ <<id, role>> \in DOMAIN reg.acts /\ a.host = h /\ a.uid = ASet[h][role] /\ a.body = reg.docs[id]
        /\ a.op \in IF role = "Admin" THEN Admins ELSE {"stage"}
    BY <1>4 DEF require_principal_action
  <2>2. ActSound(<<id, role>>, a, did)
    BY <2>1 DEF StoreSound, TablesSound
  <2> HIDE DEF a
  <2> QED BY <2>1, <2>2 DEF ActSound
<1>5. ReadIsAuthorised
  <2> SUFFICES ASSUME NEW id \in DOMAIN reg.docs, Governed(id), attested_read(reg, id),
                      enforced(reg, registered_subject_host(reg, id))
               PROVE  \E op \in Admins :
                        <<registered_subject_host(reg, id), ASet[registered_subject_host(reg, id)]["Admin"], op, id, reg.docs[id]>> \in did
    BY DEF ReadIsAuthorised
  <2>1. require_principal_action(reg, registered_subject_host(reg, id), id, "Admin")
    BY DEF attested_read, require_registered_body_authority
  <2> QED BY <2>1, <1>4
<1>6. ReleaseIsSigned
  <2> SUFFICES ASSUME verify_release_principal(reg)
               PROVE  /\ <<Host(reg), ASet[Host(reg)]["Admin"], reg.docs[ReleaseId], ReleaseId, reg.docs[ReleaseId]>> \in did
                      /\ <<Host(reg), ASet[Host(reg)]["Worker"], "stage", CandidateId, reg.docs[CandidateId]>> \in did
    BY DEF ReleaseIsSigned
  <2>1. /\ require_principal_action(reg, Host(reg), ReleaseId, "Admin")
        /\ require_principal_action(reg, Host(reg), CandidateId, "Worker")
    BY DEF verify_release_principal
  <2> QED BY <2>1, <1>4
<1> QED BY <1>1, <1>2, <1>3, <1>5, <1>6 DEF AuthoritySafe

LEMMA AuthorityInvInit == authority_init => AuthorityInv
<1> SUFFICES ASSUME authority_init PROVE AuthorityInv
  OBVIOUS
<1> USE DEF authority_init
<1>1. IsStore(reg) /\ DOMAIN reg.docs = {} /\ DOMAIN reg.wit = {} /\ DOMAIN reg.acts = {}
  BY DEF IsStore
<1>2. StoreSound(reg, did)
  BY <1>1 DEF StoreSound, TablesSound, RowSigned, Stored
<1>3. MeterSound
  BY DEF MeterSound
<1>4. ProcessesSound
  <2>1. ABound \in Nat /\ 1 \in APids
    BY AuthorityShape
  <2> QED BY <2>1 DEF ProcessesSound
<1> QED BY <1>2, <1>3, <1>4 DEF AuthorityInv

-----------------------------------------------------------------------------
(* What the parts of a session do to a store.                              *)

LEMMA MoreDone ==
    ASSUME NEW s, NEW done, NEW more, done \subseteq more, StoreSound(s, done) PROVE StoreSound(s, more)
  BY DEF StoreSound, TablesSound, ActSound

LEMMA WriteSound ==
    ASSUME NEW s, NEW done, StoreSound(s, done), NEW id, NEW body, id # ReleaseId, BodySound(id, body)
    PROVE  /\ StoreSound(Write(s, id, body), done)
           /\ DOMAIN Write(s, id, body).docs = DOMAIN s.docs \cup {id} /\ Write(s, id, body).docs[id] = body
           /\ \A x \in DOMAIN s.docs : x # id => Write(s, id, body).docs[x] = s.docs[x]
           /\ immutable(s, id, body) \/ id = PointerId => AuthorityKept(s.docs, Write(s, id, body).docs)
<1> DEFINE t == Write(s, id, body)
<1>1. /\ IsStore(s) /\ IsStore(t) /\ t.docs = Put(s.docs, id, body) /\ t.wit = s.wit /\ t.acts = s.acts
  BY WriteFacts DEF StoreSound, TablesSound
<1> HIDE DEF t
<1>2. /\ DOMAIN t.docs = DOMAIN s.docs \cup {id} /\ t.docs[id] = body
      /\ \A x \in DOMAIN s.docs : x # id => t.docs[x] = s.docs[x]
  BY <1>1 DEF Put
<1>3. TablesSound(t, done)
  BY <1>1, <1>2 DEF StoreSound, TablesSound
<1>4. RowSigned(t)
  BY <1>1, <1>2 DEF StoreSound, RowSigned, Stored
<1>5. \A x \in DOMAIN t.docs : BodySound(x, t.docs[x])
  BY <1>2 DEF StoreSound
<1>6. immutable(s, id, body) \/ id = PointerId => AuthorityKept(s.docs, t.docs)
  BY <1>2 DEF immutable, Stored, AuthorityKept
<1> QED BY <1>2, <1>3, <1>4, <1>5, <1>6 DEF StoreSound, t

LEMMA WitnessSound ==
    ASSUME NEW s, NEW done, StoreSound(s, done), NEW role \in {"Admin", "Evaluator", "Host"}, NEW id \in DOMAIN s.docs
    PROVE  StoreSound(write_content_witness(s, role, id), done) /\ write_content_witness(s, role, id).docs = s.docs
<1> DEFINE t == write_content_witness(s, role, id)
<1>1. /\ IsStore(s) /\ IsStore(t) /\ t.docs = s.docs /\ t.wit = Put(s.wit, <<role, id>>, s.docs[id]) /\ t.acts = s.acts
  BY WitnessFacts DEF StoreSound, TablesSound
<1> HIDE DEF t
<1>2. DOMAIN t.wit = DOMAIN s.wit \cup {<<role, id>>}
  BY <1>1 DEF Put
<1>3. TablesSound(t, done)
  BY <1>1, <1>2 DEF StoreSound, TablesSound
<1>4. RowSigned(t)
  BY <1>1 DEF StoreSound, RowSigned, Stored
<1> QED BY <1>1, <1>3, <1>4 DEF StoreSound, t

LEMMA ActionSound ==
    ASSUME NEW s, NEW done, StoreSound(s, done), NEW role, NEW id \in DOMAIN s.docs, NEW cap, NEW h,
           cap.uid \in AUids, id # ReleaseId, <<h, cap.uid, cap.op, id, s.docs[id]>> \in done
    PROVE  /\ StoreSound(persist_principal_action(s, cap, h, id, role), done)
           /\ persist_principal_action(s, cap, h, id, role).docs = s.docs
<1> DEFINE t == persist_principal_action(s, cap, h, id, role)
           a == [host |-> h, uid |-> cap.uid, op |-> cap.op, body |-> s.docs[id]]
           k == <<id, role>>
<1>1. /\ IsStore(s) /\ IsStore(t) /\ t.docs = s.docs /\ t.wit = s.wit /\ t.acts = Put(s.acts, k, a)
  BY ActionFacts DEF StoreSound, TablesSound
<1>2. ActSound(k, a, done) /\ k[1] = id /\ k # <<ReleaseId, "Admin">>
  BY DEF ActSound
<1> HIDE DEF t, a, k
<1>3. /\ DOMAIN t.acts = DOMAIN s.acts \cup {k} /\ t.acts[k] = a
      /\ \A x \in DOMAIN s.acts : x # k => t.acts[x] = s.acts[x]
  BY <1>1 DEF Put
<1>4. TablesSound(t, done)
  BY <1>1, <1>2, <1>3 DEF StoreSound, TablesSound
<1>5. RowSigned(t)
  BY <1>1, <1>2, <1>3 DEF StoreSound, RowSigned, Stored
<1> QED BY <1>1, <1>4, <1>5 DEF StoreSound, t

\* The witness of a registration, and the action of its operator if it needs one.
LEMMA AttestSound ==
    ASSUME NEW s, NEW done, StoreSound(s, done), NEW id \in DOMAIN s.docs, id # ReleaseId, NEW cap,
           may_attest(s, cap, id),
           cap # None => cap.uid \in AUids /\ <<cap.host, cap.uid, cap.op, id, s.docs[id]>> \in done
    PROVE  StoreSound(attest_content(s, cap, id), done) /\ attest_content(s, cap, id).docs = s.docs
<1> DEFINE w == write_content_witness(s, "Admin", id)
           h == registered_subject_host(w, id)
<1>1. StoreSound(w, done) /\ w.docs = s.docs
  BY WitnessSound
<1>2. CASE Governed(id) /\ enforced(w, h)
  <2>1. may_sign(w, cap, h, "Admin") /\ attest_content(s, cap, id) = persist_principal_action(w, cap, h, id, "Admin")
    BY <1>2 DEF may_attest, attest_content
  <2> HIDE DEF w, h
  <2>2. cap # None /\ cap.host = h
    BY <2>1 DEF may_sign
  <2>3. cap.uid \in AUids /\ id \in DOMAIN w.docs /\ <<h, cap.uid, cap.op, id, w.docs[id]>> \in done
    BY <1>1, <2>2
  <2> QED BY <1>1, <2>1, <2>3, ActionSound
<1>3. CASE ~(Governed(id) /\ enforced(w, h))
  BY <1>1, <1>3 DEF attest_content
<1> QED BY <1>2, <1>3

-----------------------------------------------------------------------------
(* Sessions.                                                               *)

StepRight == AuthorityInv' /\ AuthorityKept(reg.docs, reg'.docs)

LEMMA SessionRight ==
    ASSUME AuthorityInv, StoreSound(reg', did'), AuthorityKept(reg.docs, reg'.docs), Elsewhere PROVE StepRight
  BY DEF AuthorityInv, MeterSound, ProcessesSound, Elsewhere, StepRight

LEMMA CommitFacts ==
    ASSUME NEW s, NEW cap, NEW ids, Commit(s, cap, ids)
    PROVE  /\ reg' = s /\ did \subseteq did'
           /\ cap # None => \A id \in ids : <<cap.host, cap.uid, cap.op, id, s.docs[id]>> \in did'
           /\ AuthorityInv => StoreSound(reg, did')
<1>1. /\ reg' = s /\ did \subseteq did'
      /\ cap # None => \A id \in ids : <<cap.host, cap.uid, cap.op, id, s.docs[id]>> \in did'
  BY DEF Commit
<1> QED BY <1>1, MoreDone DEF AuthorityInv

LEMMA KeptAgain ==
    ASSUME NEW a, NEW b, NEW c, AuthorityKept(a, b), AuthorityKept(b, c) PROVE AuthorityKept(a, c)
  BY DEF AuthorityKept

LEMMA OperatorSound ==
    ASSUME NEW op \in Operations, NEW cap \in serve_connection(op)
    PROVE  cap.uid \in AUids /\ cap.op = op /\ cap \in Capability
<1>1. PICK x \in AHosts \X AUids \X AUids :
        cap = [host |-> x[1], uid |-> x[2], role |-> command_role(op), op |-> op]
  BY DEF serve_connection
<1>2. command_role(op) \in Roles
  BY DEF command_role, Roles
<1> QED BY <1>1, <1>2 DEF Capability

Operator(cap, op) == cap # None => cap.uid \in AUids /\ cap.op = op

LEMMA RegisterHostStep ==
    ASSUME AuthorityInv, NEW h \in AHosts, NEW v \in AVersions, register_host(h, v) PROVE StepRight
<1> DEFINE id == <<"host", h>>
           s == Write(reg, id, v)
<1>1. /\ immutable(reg, id, v) /\ may_attest(s, None, id) /\ Elsewhere
      /\ Commit(attest_content(s, None, id), None, {})
  BY DEF register_host
<1>2. Registration(id)
  BY DEF Registration
<1> HIDE DEF id
<1>3. BodySound(id, v) /\ id # ReleaseId
  BY <1>2, RegistrationsDiffer DEF BodySound
<1>4. StoreSound(reg, did')
  BY <1>1, CommitFacts
<1>5. StoreSound(s, did') /\ id \in DOMAIN s.docs /\ AuthorityKept(reg.docs, s.docs)
  BY <1>1, <1>3, <1>4, WriteSound
<1> HIDE DEF s
<1>6. StoreSound(attest_content(s, None, id), did') /\ attest_content(s, None, id).docs = s.docs
  BY <1>1, <1>3, <1>5, AttestSound
<1>7. reg' = attest_content(s, None, id)
  BY <1>1, CommitFacts
<1> QED BY <1>1, <1>5, <1>6, <1>7, SessionRight

\* Attesting writes no body.
LEMMA AttestKeepsBodies ==
    ASSUME NEW s, IsStore(s), NEW cap, NEW id
    PROVE  IsStore(attest_content(s, cap, id)) /\ attest_content(s, cap, id).docs = s.docs
<1> DEFINE w == write_content_witness(s, "Admin", id)
           h == registered_subject_host(w, id)
           t == attest_content(s, cap, id)
<1>1. IsStore(w) /\ w.docs = s.docs
  BY WitnessFacts
<1>2. t = w \/ t = persist_principal_action(w, cap, h, id, "Admin")
  BY DEF attest_content
<1> HIDE DEF w, h
<1>3. /\ IsStore(persist_principal_action(w, cap, h, id, "Admin"))
      /\ persist_principal_action(w, cap, h, id, "Admin").docs = w.docs
  BY <1>1 DEF persist_principal_action, IsStore
<1> QED BY <1>1, <1>2, <1>3

LEMMA StoreIsStore ==
    ASSUME NEW s, NEW done, StoreSound(s, done) PROVE IsStore(s)
  BY DEF StoreSound, TablesSound

LEMMA BootstrapStep ==
    ASSUME AuthorityInv, NEW h \in AHosts, NEW v \in AVersions, NEW cap, cap # None, Operator(cap, "bootstrap"),
           bootstrap(h, v, cap)
    PROVE  StepRight
<1> DEFINE host == <<"host", h>>
           set == <<"set", h>>
           a == Write(reg, host, v)
           s == write_content_witness(a, "Admin", host)
           o == Write(s, set, grader[h])
           u == write_content_witness(o, "Admin", set)
           w == write_content_witness(u, "Evaluator", set)
<1>1. /\ immutable(reg, host, v) /\ immutable(s, set, grader[h]) /\ may_attest(w, cap, host) /\ Elsewhere
      /\ Commit(attest_content(w, cap, host), cap, {host, set})
  BY DEF bootstrap
<1>2. Registration(host) /\ Registration(set) /\ host # set
  BY DEF Registration
<1> HIDE DEF host, set
<1>3. /\ BodySound(host, v) /\ host # ReleaseId /\ BodySound(set, grader[h]) /\ set # ReleaseId
  BY <1>2, RegistrationsDiffer DEF BodySound
<1>4. StoreSound(reg, did') /\ reg' = attest_content(w, cap, host)
      /\ <<cap.host, cap.uid, cap.op, host, attest_content(w, cap, host).docs[host]>> \in did'
  BY <1>1, CommitFacts
<1>5. StoreSound(a, did') /\ host \in DOMAIN a.docs /\ AuthorityKept(reg.docs, a.docs)
  BY <1>1, <1>3, <1>4, WriteSound
<1> HIDE DEF a
<1>6. StoreSound(s, did') /\ s.docs = a.docs
  BY <1>5, WitnessSound
<1> HIDE DEF s
<1>7. /\ StoreSound(o, did') /\ set \in DOMAIN o.docs /\ AuthorityKept(s.docs, o.docs)
      /\ host \in DOMAIN o.docs
  BY <1>1, <1>3, <1>5, <1>6, WriteSound
<1> HIDE DEF o
<1>8. StoreSound(u, did') /\ u.docs = o.docs
  BY <1>7, WitnessSound
<1> HIDE DEF u
<1>9. StoreSound(w, did') /\ w.docs = o.docs
  BY <1>7, <1>8, WitnessSound
<1> HIDE DEF w
<1>10. attest_content(w, cap, host).docs = w.docs
  BY <1>9, StoreIsStore, AttestKeepsBodies
<1>11. cap.uid \in AUids /\ <<cap.host, cap.uid, cap.op, host, w.docs[host]>> \in did'
  BY <1>4, <1>10 DEF Operator
<1>12. StoreSound(attest_content(w, cap, host), did')
  BY <1>1, <1>3, <1>7, <1>9, <1>11, AttestSound
<1>13. AuthorityKept(reg.docs, o.docs)
  BY <1>5, <1>6, <1>7, KeptAgain
<1> QED BY <1>1, <1>4, <1>9, <1>10, <1>12, <1>13, SessionRight

LEMMA RegisterStep ==
    ASSUME AuthorityInv, NEW id, Registration(id), NEW h, NEW v, NEW cap, NEW op, Operator(cap, op),
           register(id, h, v, cap)
    PROVE  StepRight
<1> DEFINE s == Write(reg, id, v)
           t == attest_content(s, cap, id)
<1>1. /\ immutable(reg, id, v) /\ may_attest(s, cap, id) /\ Elsewhere /\ Commit(t, cap, {id})
  BY DEF register
<1>2. BodySound(id, v) /\ id # ReleaseId
  BY RegistrationsDiffer DEF BodySound
<1>3. /\ StoreSound(reg, did') /\ reg' = t
      /\ cap # None => <<cap.host, cap.uid, cap.op, id, t.docs[id]>> \in did'
  BY <1>1, CommitFacts
<1>4. StoreSound(s, did') /\ id \in DOMAIN s.docs /\ AuthorityKept(reg.docs, s.docs)
  BY <1>1, <1>2, <1>3, WriteSound
<1> HIDE DEF s
<1>5. t.docs = s.docs
  BY <1>4, StoreIsStore, AttestKeepsBodies
<1>6. StoreSound(t, did')
  <2>1. cap # None => cap.uid \in AUids /\ <<cap.host, cap.uid, cap.op, id, s.docs[id]>> \in did'
    BY <1>3, <1>5 DEF Operator
  <2> QED BY <1>1, <1>2, <1>4, <2>1, AttestSound
<1> QED BY <1>1, <1>3, <1>4, <1>5, <1>6, SessionRight

\* Two bodies attested in one session, the second of another id.
LEMMA TwoBodies ==
    ASSUME AuthorityInv, NEW x, NEW v, NEW y, NEW b, NEW cap, NEW op, Operator(cap, op), x # y,
           x # ReleaseId, y # ReleaseId, BodySound(x, v), BodySound(y, b),
           immutable(reg, x, v), y = PointerId \/ immutable(attest_content(Write(reg, x, v), cap, x), y, b),
           may_attest(Write(reg, x, v), cap, x),
           may_attest(Write(attest_content(Write(reg, x, v), cap, x), y, b), cap, y), Elsewhere,
           Commit(attest_content(Write(attest_content(Write(reg, x, v), cap, x), y, b), cap, y), cap, {x, y})
    PROVE  StepRight
<1> DEFINE a == Write(reg, x, v)
           s == attest_content(a, cap, x)
           t == Write(s, y, b)
           u == attest_content(t, cap, y)
<1>1. /\ StoreSound(reg, did') /\ reg' = u
      /\ cap # None => /\ cap.uid \in AUids
                       /\ <<cap.host, cap.uid, cap.op, x, u.docs[x]>> \in did'
                       /\ <<cap.host, cap.uid, cap.op, y, u.docs[y]>> \in did'
  BY CommitFacts DEF Operator
<1>2. may_attest(a, cap, x) /\ may_attest(t, cap, y) /\ (y = PointerId \/ immutable(s, y, b))
  OBVIOUS
<1>3. StoreSound(a, did') /\ x \in DOMAIN a.docs /\ AuthorityKept(reg.docs, a.docs)
  BY <1>1, WriteSound
<1> HIDE DEF a
<1>4. s.docs = a.docs
  BY <1>3, StoreIsStore, AttestKeepsBodies
\* The bodies of the session are those it ends with, so it may be judged by them.
<1>5. IsStore(a) /\ IsStore(s) /\ t.docs = Put(s.docs, y, b) /\ u.docs = t.docs
  <2>1. IsStore(a)
    BY <1>3 DEF StoreSound, TablesSound
  <2>2. IsStore(s)
    BY <2>1, AttestKeepsBodies
  <2>3. IsStore(t) /\ t.docs = Put(s.docs, y, b)
    BY <2>2, WriteFacts
  <2> HIDE DEF t
  <2>4. u.docs = t.docs
    BY <2>3, AttestKeepsBodies
  <2> QED BY <2>1, <2>2, <2>3, <2>4
<1>6. u.docs[x] = a.docs[x]
  BY <1>3, <1>4, <1>5 DEF Put
<1>7. StoreSound(s, did')
  <2>1. cap # None => cap.uid \in AUids /\ <<cap.host, cap.uid, cap.op, x, a.docs[x]>> \in did'
    BY <1>1, <1>6
  <2> QED BY <1>2, <1>3, <2>1, AttestSound
<1> HIDE DEF s
<1>8. StoreSound(t, did') /\ y \in DOMAIN t.docs /\ AuthorityKept(s.docs, t.docs)
  BY <1>2, <1>7, WriteSound
<1> HIDE DEF t
<1>9. StoreSound(u, did')
  <2>1. cap # None => cap.uid \in AUids /\ <<cap.host, cap.uid, cap.op, y, t.docs[y]>> \in did'
    BY <1>1, <1>5
  <2> QED BY <1>2, <1>8, <2>1, AttestSound
<1>10. AuthorityKept(reg.docs, u.docs)
  BY <1>3, <1>4, <1>5, <1>8, KeptAgain
<1> QED BY <1>1, <1>9, <1>10, SessionRight

LEMMA FreezeStep ==
    ASSUME AuthorityInv, NEW f \in DOMAIN AProfiles, NEW v, NEW cap, NEW op, Operator(cap, op), freeze_profile(f, v, cap)
    PROVE  StepRight
<1> DEFINE id == <<"profile", f>>
<1>1. /\ immutable(reg, id, v) /\ may_attest(Write(reg, id, v), cap, id) /\ Elsewhere
      /\ may_attest(Write(attest_content(Write(reg, id, v), cap, id), PointerId, f), cap, PointerId)
      /\ Commit(attest_content(Write(attest_content(Write(reg, id, v), cap, id), PointerId, f), cap, PointerId),
                cap, {id, PointerId})
  BY DEF freeze_profile
<1>2. Registration(id)
  BY DEF Registration
<1> HIDE DEF id
<1>3. id # ReleaseId /\ id # PointerId /\ BodySound(id, v) /\ PointerId # ReleaseId /\ BodySound(PointerId, f)
  BY <1>2, RegistrationsDiffer, IdsDiffer DEF BodySound
<1> QED BY <1>1, <1>3, TwoBodies

LEMMA EmptyRootStep ==
    ASSUME AuthorityInv, NEW f \in DOMAIN AProfiles, NEW cap, NEW op, Operator(cap, op), authorize_empty_root(f, cap)
    PROVE  StepRight
<1> DEFINE s == attest_content(Write(reg, RootId, f), cap, RootId)
<1>1. /\ immutable(reg, RootId, f) /\ may_attest(Write(reg, RootId, f), cap, RootId) /\ Elsewhere
      /\ may_attest(Write(s, ParentId, "root"), cap, ParentId)
      /\ Commit(attest_content(Write(s, ParentId, "root"), cap, ParentId), cap, {RootId, ParentId})
  BY DEF authorize_empty_root
<1>2. /\ RootId # ReleaseId /\ ParentId # ReleaseId /\ RootId # ParentId
      /\ BodySound(RootId, f) /\ BodySound(ParentId, "root")
  BY IdsDiffer DEF BodySound
<1>3. immutable(s, ParentId, "root")
  <2>1. StoreSound(Write(reg, RootId, f), did)
    BY <1>2, WriteSound DEF AuthorityInv
  <2>2. s.docs = Write(reg, RootId, f).docs
    BY <2>1, StoreIsStore, AttestKeepsBodies
  <2> HIDE DEF s
  <2> QED BY <2>1, <2>2 DEF StoreSound, BodySound, immutable, Stored
<1> QED BY <1>1, <1>2, <1>3, TwoBodies


\* One body, signed by its operator.
LEMMA SignedStep ==
    ASSUME AuthorityInv, NEW id, NEW b, NEW cap, NEW h, NEW role, id # ReleaseId, BodySound(id, b), immutable(reg, id, b),
           cap # None, cap.uid \in AUids, cap.host = h, Elsewhere,
           Commit(persist_principal_action(Write(reg, id, b), cap, h, id, role), cap, {id})
    PROVE  StepRight
<1> DEFINE s == Write(reg, id, b)
           t == persist_principal_action(s, cap, h, id, role)
<1>1. StoreSound(reg, did') /\ reg' = t /\ <<h, cap.uid, cap.op, id, t.docs[id]>> \in did'
  BY CommitFacts
<1>2. StoreSound(s, did') /\ id \in DOMAIN s.docs /\ AuthorityKept(reg.docs, s.docs)
  BY <1>1, WriteSound
<1> HIDE DEF s
<1>3. t.docs = s.docs
  <2>1. IsStore(s)
    BY <1>2, StoreIsStore
  <2> QED BY <2>1 DEF persist_principal_action, IsStore
<1>4. StoreSound(t, did')
  BY <1>1, <1>2, <1>3, ActionSound
<1> QED BY <1>1, <1>2, <1>3, <1>4, SessionRight

\* One body under a witness, signed by nobody.
LEMMA WitnessedWrite ==
    ASSUME AuthorityInv, NEW id, NEW b, NEW role \in {"Admin", "Evaluator", "Host"}, id # ReleaseId, BodySound(id, b),
           immutable(reg, id, b), reg' = write_content_witness(Write(reg, id, b), role, id), UNCHANGED did
    PROVE  StoreSound(reg', did') /\ AuthorityKept(reg.docs, reg'.docs)
<1> DEFINE s == Write(reg, id, b)
<1>1. StoreSound(s, did) /\ id \in DOMAIN s.docs /\ AuthorityKept(reg.docs, s.docs)
  BY WriteSound DEF AuthorityInv
<1>2. reg' = write_content_witness(s, role, id)
  OBVIOUS
<1> HIDE DEF s
<1> QED BY <1>1, <1>2, WitnessSound

LEMMA StageStep ==
    ASSUME AuthorityInv, NEW cap, Operator(cap, "stage"), stage(cap) PROVE StepRight
<1> DEFINE f == Profile(reg)
           h == Host(reg)
<1>1. /\ immutable(reg, CandidateId, f) /\ Elsewhere
      /\ has_set(reg, h) => /\ may_sign(reg, cap, h, "Worker")
                            /\ Commit(persist_principal_action(Write(reg, CandidateId, f), cap, h, CandidateId, "Worker"),
                                      cap, {CandidateId})
      /\ ~has_set(reg, h) => Commit(Write(reg, CandidateId, f), None, {})
  BY DEF stage
<1> HIDE DEF f, h
<1>2. CandidateId # ReleaseId /\ BodySound(CandidateId, f)
  BY IdsDiffer DEF BodySound
<1>3. CASE has_set(reg, h)
  <2>1. cap # None /\ cap.host = h /\ cap.uid \in AUids
    BY <1>1, <1>3 DEF may_sign, Operator
  <2> QED BY <1>1, <1>2, <1>3, <2>1, SignedStep
<1>4. CASE ~has_set(reg, h)
  <2>1. StoreSound(reg, did') /\ reg' = Write(reg, CandidateId, f)
    BY <1>1, <1>4, CommitFacts
  <2>2. StoreSound(reg', did') /\ AuthorityKept(reg.docs, reg'.docs)
    BY <1>1, <1>2, <2>1, WriteSound
  <2> QED BY <1>1, <2>2, SessionRight
<1> QED BY <1>3, <1>4

LEMMA ControlStep ==
    ASSUME AuthorityInv, NEW h \in AHosts, NEW cap, cap # None, Operator(cap, "register_control"), register_control(h, cap)
    PROVE  StepRight
<1>1. /\ immutable(reg, ControlId, h) /\ cap.host = h /\ Elsewhere
      /\ Commit(persist_principal_action(Write(reg, ControlId, h), cap, h, ControlId, "Evaluator"), cap, {ControlId})
  BY DEF register_control
<1>2. ControlId # ReleaseId /\ BodySound(ControlId, h)
  BY IdsDiffer DEF BodySound
<1>3. cap.uid \in AUids
  BY DEF Operator
<1> QED BY <1>1, <1>2, <1>3, SignedStep

LEMMA ExecuteStep ==
    ASSUME AuthorityInv, execute_formal \/ capture_independent_grade PROVE StepRight
<1>1. StoreSound(reg', did') /\ AuthorityKept(reg.docs, reg'.docs)
  <2>1. CASE execute_formal
    <3>1. CaptureId # ReleaseId /\ BodySound(CaptureId, formal_capture)
      BY IdsDiffer DEF BodySound
    <3>2. /\ immutable(reg, CaptureId, formal_capture) /\ UNCHANGED did
          /\ reg' = write_content_witness(Write(reg, CaptureId, formal_capture), "Host", CaptureId)
      BY <2>1 DEF execute_formal, persist_formal_capture
    <3> QED BY <3>1, <3>2, WitnessedWrite
  <2>2. CASE capture_independent_grade
    <3> DEFINE b == grader[Host(reg)]
    <3>1. GradeId # ReleaseId /\ BodySound(GradeId, b)
      BY IdsDiffer DEF BodySound
    <3>2. /\ immutable(reg, GradeId, b) /\ UNCHANGED did
          /\ reg' = write_content_witness(Write(reg, GradeId, b), "Evaluator", GradeId)
      BY <2>2 DEF capture_independent_grade
    <3> HIDE DEF b
    <3> QED BY <3>1, <3>2, WitnessedWrite
  <2> QED BY <2>1, <2>2
<1>2. Elsewhere
  BY DEF execute_formal, capture_independent_grade, Elsewhere
<1> QED BY <1>1, <1>2, SessionRight

\* Nothing is written.
LEMMA QuietStep ==
    ASSUME AuthorityInv, UNCHANGED <<reg, did>>, MeterSound', ProcessesSound' PROVE StepRight
  BY DEF AuthorityInv, StepRight, AuthorityKept

\* What is measured lies between the seal that was read and the seal of now: when
\* these are the same, it is what was read.
LEMMA MeasurementSteps ==
    ASSUME AuthorityInv, begin_measurement \/ measure \/ record_cost \/ lose_measurement PROVE StepRight
<1>1. MeterSound /\ ProcessesSound /\ seal \in Nat
  <2>1. ABound \in Nat
    BY AuthorityShape
  <2> QED BY <2>1 DEF AuthorityInv, ProcessesSound
<1>2. UNCHANGED <<grader, hostpid, transport, seal, did>>
  BY DEF begin_measurement, measure, record_cost, lose_measurement
<1>3. ProcessesSound'
  BY <1>1, <1>2 DEF ProcessesSound
<1>4. CASE begin_measurement
  <2>1. metering' = [profile |-> Profile(reg), seal |-> seal, measured |-> None] /\ UNCHANGED reg
    BY <1>4 DEF begin_measurement
  <2>2. MeterSound'
    BY <1>1, <1>2, <2>1 DEF MeterSound
  <2> QED BY <1>2, <1>3, <2>1, <2>2, QuietStep
<1>5. CASE measure
  <2>1. metering # None /\ metering' = [metering EXCEPT !.measured = seal] /\ UNCHANGED reg
    BY <1>5 DEF measure
  <2>2. MeterSound'
    BY <1>1, <1>2, <2>1 DEF MeterSound
  <2> QED BY <1>2, <1>3, <2>1, <2>2, QuietStep
<1>6. CASE record_cost
  <2> DEFINE b == [profile |-> metering.profile, seal |-> metering.seal, measured |-> metering.measured]
  <2>1. /\ metering # None /\ metering.measured # None /\ metering.seal = seal /\ metering' = None
        /\ immutable(reg, CostId, b) /\ reg' = write_content_witness(Write(reg, CostId, b), "Host", CostId)
    BY <1>6 DEF record_cost, root_unchanged
  <2>2. CostId # ReleaseId /\ BodySound(CostId, b)
    <3>1. metering.measured = metering.seal
      BY <1>1, <2>1 DEF MeterSound
    <3>2. b.measured = b.seal
      BY <3>1
    <3> HIDE DEF b
    <3> QED BY <3>2, IdsDiffer DEF BodySound
  <2> HIDE DEF b
  <2>3. StoreSound(reg', did') /\ AuthorityKept(reg.docs, reg'.docs)
    BY <1>2, <2>1, <2>2, WitnessedWrite
  <2>4. MeterSound'
    BY <2>1 DEF MeterSound
  <2> QED BY <1>3, <2>3, <2>4 DEF StepRight, AuthorityInv
<1>7. CASE lose_measurement
  <2>1. metering' = None /\ UNCHANGED reg
    BY <1>7 DEF lose_measurement
  <2>2. MeterSound'
    BY <2>1 DEF MeterSound
  <2> QED BY <1>2, <1>3, <2>1, <2>2, QuietStep
<1> QED BY <1>4, <1>5, <1>6, <1>7


\* The report is signed by the grader process, on behalf of the set's evaluator.
LEMMA IssueStep ==
    ASSUME AuthorityInv, issue_report PROVE StepRight
<1> DEFINE h == Host(reg)
           cap == [host |-> h, uid |-> ASet[h]["Evaluator"], role |-> "Evaluator", op |-> "issue_report"]
           r == Write(reg, ReportId, "final")
           s == persist_principal_action(r, cap, h, ReportId, "Evaluator")
           b == [seal |-> seal, profile |-> Profile(reg), host |-> h]
           t == Write(s, IssuedId, b)
           w == write_content_witness(t, "Evaluator", IssuedId)
<1>1. /\ ~Stored(reg, IssuedId) /\ Elsewhere /\ Stored(reg, PointerId) /\ Commit(w, cap, {ReportId})
  BY DEF issue_report, complete_authority_material, task_is_current, resolve_current_bundle, attested_read,
         require_content_witness
<1>2. h \in AHosts
  <2>1. Profile(reg) \in DOMAIN AProfiles
    BY <1>1 DEF AuthorityInv, StoreSound, Stored, BodySound, Profile
  <2> QED BY <2>1, AuthorityShape DEF Host
<1> HIDE DEF h, b
<1>3. /\ cap \in Capability /\ cap.host = h /\ cap.uid \in AUids /\ cap.op = "issue_report"
  <2>1. ASet[h]["Evaluator"] \in AUids
    BY <1>2, AuthorityShape DEF validate_loaded, Roles
  <2> QED BY <1>2, <2>1 DEF Capability, Roles
<1> HIDE DEF cap
<1>4. cap # None
  BY <1>3, AuthorityAbsent
<1>5. StoreSound(reg, did') /\ reg' = w /\ <<h, cap.uid, cap.op, ReportId, w.docs[ReportId]>> \in did'
  BY <1>1, <1>3, <1>4, CommitFacts
<1>6. /\ ReportId # ReleaseId /\ IssuedId # ReleaseId /\ ReportId # IssuedId
      /\ BodySound(ReportId, "final") /\ BodySound(IssuedId, b)
  BY IdsDiffer DEF BodySound
<1>7. immutable(reg, ReportId, "final")
  BY DEF immutable, Stored, AuthorityInv, StoreSound, BodySound
<1>8. /\ StoreSound(r, did') /\ DOMAIN r.docs = DOMAIN reg.docs \cup {ReportId} /\ AuthorityKept(reg.docs, r.docs)
  BY <1>5, <1>6, <1>7, WriteSound
<1> HIDE DEF r
<1>9. IsStore(s) /\ s.docs = r.docs
  <2>1. IsStore(r)
    BY <1>8, StoreIsStore
  <2> QED BY <2>1 DEF persist_principal_action, IsStore
<1>10. w.docs[ReportId] = r.docs[ReportId]
  <2>1. IsStore(t) /\ t.docs = Put(s.docs, IssuedId, b)
    BY <1>9, WriteFacts
  <2> HIDE DEF t
  <2>2. w.docs = t.docs
    BY <2>1, WitnessFacts
  <2> HIDE DEF w
  <2> QED BY <1>6, <1>8, <1>9, <2>1, <2>2 DEF Put
<1>11. StoreSound(s, did')
  <2>1. <<h, cap.uid, cap.op, ReportId, r.docs[ReportId]>> \in did' /\ ReportId \in DOMAIN r.docs
    BY <1>5, <1>8, <1>10
  <2> QED BY <1>3, <1>6, <1>8, <2>1, ActionSound
<1> HIDE DEF s
<1>12. immutable(s, IssuedId, b)
  BY <1>1, <1>6, <1>8, <1>9 DEF immutable, Stored
<1>13. StoreSound(t, did') /\ IssuedId \in DOMAIN t.docs /\ AuthorityKept(s.docs, t.docs)
  BY <1>6, <1>11, <1>12, WriteSound
<1> HIDE DEF t
<1>14. StoreSound(w, did') /\ w.docs = t.docs
  BY <1>13, WitnessSound
<1>15. AuthorityKept(reg.docs, w.docs)
  BY <1>8, <1>9, <1>13, <1>14, KeptAgain
<1> QED BY <1>1, <1>5, <1>14, <1>15, SessionRight

\* A status, its witness and its action are written together, and the action asks
\* for the status it signs.
LEMMA ReleaseStep ==
    ASSUME AuthorityInv, NEW n \in DOMAIN Statuses, NEW cap, cap # None, Operator(cap, Statuses[n]), write_release(n, cap)
    PROVE  StepRight
<1> DEFINE h == Host(reg)
           b == Statuses[n]
           s == Write(reg, ReleaseId, b)
           w == write_content_witness(s, "Admin", ReleaseId)
           t == persist_principal_action(w, cap, h, ReleaseId, "Admin")
           k == <<ReleaseId, "Admin">>
           a == [host |-> h, uid |-> cap.uid, op |-> cap.op, body |-> w.docs[ReleaseId]]
<1>1. may_sign(reg, cap, h, "Admin") /\ Elsewhere /\ Commit(t, cap, {ReleaseId})
  BY DEF write_release, bind_release_principal
<1>2. /\ StoreSound(reg, did') /\ reg' = t /\ cap.host = h /\ cap.uid \in AUids /\ cap.op = b
      /\ <<h, cap.uid, cap.op, ReleaseId, t.docs[ReleaseId]>> \in did'
  BY <1>1, CommitFacts DEF may_sign, Operator
<1> HIDE DEF h, b
<1>3. IsStore(reg)
  BY <1>2, StoreIsStore
<1>4. IsStore(s) /\ s.docs = Put(reg.docs, ReleaseId, b) /\ s.wit = reg.wit /\ s.acts = reg.acts
  BY <1>3, WriteFacts
<1> HIDE DEF s
<1>5. /\ IsStore(w) /\ w.docs = s.docs /\ w.wit = Put(s.wit, <<"Admin", ReleaseId>>, s.docs[ReleaseId]) /\ w.acts = s.acts
  BY <1>4, WitnessFacts
<1> HIDE DEF w
<1>6. IsStore(t) /\ t.docs = w.docs /\ t.wit = w.wit /\ t.acts = Put(w.acts, k, a)
  BY <1>5 DEF persist_principal_action, IsStore
<1>7. a.body = w.docs[ReleaseId] /\ a.uid = cap.uid /\ a.op = cap.op /\ a.host = h
  OBVIOUS
<1> HIDE DEF t, a
<1>8. /\ DOMAIN t.docs = DOMAIN reg.docs \cup {ReleaseId} /\ t.docs[ReleaseId] = b
      /\ \A x \in DOMAIN reg.docs : x # ReleaseId => t.docs[x] = reg.docs[x]
  BY <1>4, <1>5, <1>6 DEF Put
<1>9. ActSound(k, a, did') /\ k[1] = ReleaseId /\ a.body = t.docs[ReleaseId]
  BY <1>2, <1>6, <1>7, <1>8 DEF ActSound
<1> HIDE DEF k
<1>10. /\ DOMAIN t.acts = DOMAIN reg.acts \cup {k} /\ t.acts[k] = a
       /\ \A x \in DOMAIN reg.acts : x # k => t.acts[x] = reg.acts[x]
  BY <1>4, <1>5, <1>6 DEF Put
<1>11. DOMAIN t.wit = DOMAIN reg.wit \cup {<<"Admin", ReleaseId>>}
  BY <1>4, <1>5, <1>6 DEF Put
<1>12. TablesSound(t, did')
  <2>1. \A x \in DOMAIN t.wit : x[1] \in {"Admin", "Evaluator", "Host"} /\ x[2] \in DOMAIN t.docs
    BY <1>2, <1>8, <1>11 DEF StoreSound, TablesSound
  <2>2. \A x \in DOMAIN t.acts : x[1] \in DOMAIN t.docs /\ ActSound(x, t.acts[x], did')
    BY <1>2, <1>8, <1>9, <1>10 DEF StoreSound, TablesSound
  <2> QED BY <1>6, <2>1, <2>2 DEF TablesSound
<1>13. RowSigned(t)
  BY <1>9, <1>10 DEF RowSigned, k
<1>14. \A x \in DOMAIN t.docs : BodySound(x, t.docs[x])
  <2>1. BodySound(ReleaseId, t.docs[ReleaseId])
    BY IdsDiffer DEF BodySound
  <2> QED BY <1>2, <1>8, <2>1 DEF StoreSound
<1>15. AuthorityKept(reg.docs, t.docs)
  BY <1>8 DEF AuthorityKept
<1>16. StoreSound(t, did')
  BY <1>12, <1>13, <1>14 DEF StoreSound
<1> QED BY <1>1, <1>2, <1>15, <1>16, SessionRight

LEMMA SurroundingSteps ==
    ASSUME AuthorityInv,
           \/ late_usage \/ \E p \in DOMAIN AProviders : connect(p)
           \/ \E pid \in APids : restart_host(pid) \/ \E h \in AHosts : restart_grader(h, pid)
    PROVE  StepRight
<1>1. UNCHANGED <<reg, did, metering>>
  BY DEF late_usage, connect, restart_host, restart_grader
<1>2. ABound \in Nat /\ seal \in 0..ABound
  BY AuthorityShape DEF AuthorityInv, ProcessesSound
<1>3. seal' = seal \/ late_usage
  BY DEF connect, restart_host, restart_grader
<1>4. seal' \in 0..ABound /\ seal <= seal'
  BY <1>2, <1>3 DEF late_usage
<1>5. MeterSound'
  <2>1. CASE metering = None
    BY <1>1, <2>1 DEF MeterSound
  <2>2. CASE metering # None
    <3>1. /\ DOMAIN metering = {"profile", "seal", "measured"} /\ metering.seal \in Nat /\ metering.seal <= seal
          /\ metering.measured # None =>
               metering.measured \in Nat /\ metering.seal <= metering.measured /\ metering.measured <= seal
      BY <2>2 DEF AuthorityInv, MeterSound
    <3> QED BY <1>1, <1>2, <1>4, <3>1 DEF MeterSound
  <2> QED BY <2>1, <2>2
<1>6. grader' \in [AHosts -> APids \cup {None}] /\ hostpid' \in APids
  BY DEF AuthorityInv, ProcessesSound, late_usage, connect, restart_host, restart_grader
<1>7. ProcessesSound'
  BY <1>4, <1>6 DEF ProcessesSound
<1> QED BY <1>1, <1>5, <1>7, QuietStep

-----------------------------------------------------------------------------
(* The theorems.                                                           *)

LEMMA CommandStep ==
    ASSUME AuthorityInv, NEW op \in Operations, NEW cap, Operator(cap, op), OperatorCommand(op, cap) PROVE StepRight
<1>1. CASE op = "bootstrap" /\ cap # None /\ \E h \in AHosts, v \in AVersions : bootstrap(h, v, cap)
  BY <1>1, BootstrapStep
<1>2. CASE \E p \in DOMAIN AProviders, v \in AVersions : register_provider(p, v, cap)
  <2>1. PICK p, v : register(<<"provider", p>>, AProviders[p].host, v, cap)
    BY <1>2 DEF register_provider
  <2>2. Registration(<<"provider", p>>)
    BY DEF Registration
  <2> QED BY <2>1, <2>2, RegisterStep
<1>3. CASE \E m \in DOMAIN AMeters, v \in AVersions : register_meter(m, v, cap)
  <2>1. PICK m, v : register(<<"meter", m>>, AMeters[m], v, cap)
    BY <1>3 DEF register_meter
  <2>2. Registration(<<"meter", m>>)
    BY DEF Registration
  <2> QED BY <2>1, <2>2, RegisterStep
<1>4. CASE \E f \in DOMAIN AProfiles, v \in AVersions : freeze_profile(f, v, cap)
  BY <1>4, FreezeStep
<1>5. CASE \E f \in DOMAIN AProfiles : authorize_empty_root(f, cap)
  BY <1>5, EmptyRootStep
<1>6. CASE op = "stage" /\ stage(cap)
  BY <1>6, StageStep
<1>7. CASE op = "register_control" /\ cap # None /\ \E h \in AHosts : register_control(h, cap)
  BY <1>7, ControlStep
<1>8. CASE \E n \in DOMAIN Statuses : op = Statuses[n] /\ cap # None /\ write_release(n, cap)
  BY <1>8, ReleaseStep
<1> QED BY <1>1, <1>2, <1>3, <1>4, <1>5, <1>6, <1>7, <1>8 DEF OperatorCommand

LEMMA AuthorityStepRight == AuthorityInv /\ [authority_next]_avars => StepRight
<1> SUFFICES ASSUME AuthorityInv, [authority_next]_avars PROVE StepRight
  OBVIOUS
<1>1. CASE \E h \in AHosts, v \in AVersions : register_host(h, v)
  BY <1>1, RegisterHostStep
<1>2. CASE \E op \in Operations : \E cap \in serve_connection(op) \cup {None} : OperatorCommand(op, cap)
  <2>1. PICK op \in Operations : \E cap \in serve_connection(op) \cup {None} : OperatorCommand(op, cap)
    BY <1>2
  <2>2. PICK cap \in serve_connection(op) \cup {None} : OperatorCommand(op, cap)
    BY <2>1
  <2>3. Operator(cap, op)
    BY OperatorSound DEF Operator
  <2> QED BY <2>2, <2>3, CommandStep
<1>3. CASE execute_formal \/ capture_independent_grade
  BY <1>3, ExecuteStep
<1>4. CASE begin_measurement \/ measure \/ record_cost \/ lose_measurement
  BY <1>4, MeasurementSteps
<1>5. CASE issue_report
  BY <1>5, IssueStep
<1>6. CASE \/ late_usage \/ \E p \in DOMAIN AProviders : connect(p)
           \/ \E pid \in APids : restart_host(pid) \/ \E h \in AHosts : restart_grader(h, pid)
  BY <1>6, SurroundingSteps
<1>7. CASE UNCHANGED avars
  BY <1>7 DEF avars, StepRight, AuthorityInv, MeterSound, ProcessesSound, AuthorityKept
<1> QED BY <1>1, <1>2, <1>3, <1>4, <1>5, <1>6, <1>7 DEF authority_next

\* Whatever order operators, processes and late usage come in: what an administrator's
\* registration says under a principal set was said by that set's administrator on an
\* authenticated connection, a release that verifies was staged and written by the
\* principals of the host selected now, its row is the one that was signed, and the
\* cost of an episode was measured on the root it is recorded for.
THEOREM AuthorityIsSafe == AuthoritySpec => []AuthoritySafe
<1>1. AuthorityInv /\ [authority_next]_avars => AuthorityInv'
  BY AuthorityStepRight DEF StepRight
<1> QED BY <1>1, AuthorityInvInit, AuthorityInvIsSafe, PTL DEF AuthoritySpec

\* No session changes or removes a registered body; only the selection and the status
\* of a release move.
THEOREM RegistrationsStand == AuthoritySpec => RegisteredForGood
<1>1. AuthorityInv /\ [authority_next]_avars => AuthorityInv'
  BY AuthorityStepRight DEF StepRight
<1>2. AuthorityInv /\ [authority_next]_avars =>
        [\A id \in DOMAIN reg.docs :
           id \notin {PointerId, ReleaseId} => id \in DOMAIN reg'.docs /\ reg'.docs[id] = reg.docs[id]]_avars
  BY AuthorityStepRight DEF StepRight, AuthorityKept
<1> QED BY <1>1, <1>2, AuthorityInvInit, PTL DEF AuthoritySpec, RegisteredForGood

-----------------------------------------------------------------------------
(***************************************************************************)
(* The curriculum: failures are those of the recorded cycles, and what is  *)
(* due for a retest carries its mark, for any families, cycles, releases   *)
(* and proposals.                                                          *)
(***************************************************************************)

RecordRow == [cluster : CFamilies, type : {"absolute", "regression"}, cycle : DOMAIN CCycles, snapshot : Nat,
              status : {"active", "retest_due", "resolved"}, release : DOMAIN CReleases \cup {None},
              resolved : DOMAIN CCycles \cup {None}]
MarkRow == [family : CFamilies, release : DOMAIN CReleases, consumed : BOOLEAN]

RecordsSound(records) == records \subseteq RecordRow /\ \A x \in records : ValidRecord(x)

MarksSound(marks, assets) ==
    marks \in Seq(MarkRow) /\ \A i \in DOMAIN marks : marks[i].release \in assets

\* A record that is due, and the mark that brings it back.
MarkedBy(x, marks) ==
    \E i \in DOMAIN marks : marks[i].family = x.cluster /\ marks[i].release = x.release /\ ~marks[i].consumed
DueIsMarked(records, marks) == \A x \in records : x.status = "retest_due" => MarkedBy(x, marks)

\* What the cycles say of a family, and the records with it.
FailuresOf(cycles, records, f) ==
    /\ OpenOf(records, f, "absolute") <=> (Seen(cycles, f) # {} /\ ~Outcome(cycles, f).passed)
    /\ (Seen(cycles, f) # {} /\ Outcome(cycles, f).passed) =>
          (OpenOf(records, f, "regression") <=> Regressed(Outcome(cycles, f)))

CyclesSound(cycles, records) ==
    cycles \in Seq(DOMAIN CCycles) /\ \A f \in CFamilies : FailuresOf(cycles, records, f)

LearnerFields == {"mark", "snapshot", "cycles", "records", "observed", "assets", "marks", "cooldown", "trigger"}

LearnerSound(l) ==
    /\ DOMAIN l = LearnerFields /\ l = [x \in LearnerFields |-> l[x]]
    /\ l.snapshot \in Nat /\ l.cooldown \in 0..COOLDOWN /\ l.assets \subseteq DOMAIN CReleases
    /\ RecordsSound(l.records) /\ MarksSound(l.marks, l.assets)
    /\ DueIsMarked(l.records, l.marks) /\ CyclesSound(l.cycles, l.records)

JobsSound ==
    /\ cjobs = [t \in DOMAIN cjobs |-> cjobs[t]]
    /\ \A t \in DOMAIN cjobs : cjobs[t] \in ProbeJob
    /\ cproposals \in ProbeProposals /\ ckeys \in ScheduleReceipts

Decision == [proposal : DOMAIN CProposals, rank : 0..3, asset : DOMAIN CReleases \cup {None}, frozen : DOMAIN CProposals]

CurriculumInv ==
    /\ Stands => LearnerSound(learner)
    /\ JobsSound /\ creports \subseteq ValidityReport /\ cwater \in Nat /\ cdecided \in Seq(Decision)

-----------------------------------------------------------------------------
(* Records that move, one by one.                                          *)

\* A record x and what it became: nothing of its evidence, nothing of being open.
Moved(x, y) ==
    /\ y \in RecordRow /\ ValidRecord(y) /\ Evidence(y) = Evidence(x)
    /\ y.cluster = x.cluster /\ y.type = x.type /\ (OpenRecord(y) <=> OpenRecord(x))
    /\ x.status = "resolved" => y = x

RecordsFollow(R, S) == (\A x \in R : \E y \in S : Moved(x, y)) /\ (\A y \in S : \E x \in R : Moved(x, y))

LEMMA FollowsKeepsOpen ==
    ASSUME NEW R, NEW S, RecordsFollow(R, S), NEW f, NEW type
    PROVE  OpenOf(S, f, type) <=> OpenOf(R, f, type)
<1>1. ASSUME NEW x \in R, x.cluster = f, x.type = type, OpenRecord(x) PROVE OpenOf(S, f, type)
  <2>1. PICK y \in S : Moved(x, y)
    BY DEF RecordsFollow
  <2> QED BY <1>1, <2>1 DEF Moved, OpenOf
<1>2. ASSUME NEW y \in S, y.cluster = f, y.type = type, OpenRecord(y) PROVE OpenOf(R, f, type)
  <2>1. PICK x \in R : Moved(x, y)
    BY DEF RecordsFollow
  <2> QED BY <1>2, <2>1 DEF Moved, OpenOf
<1> QED BY <1>1, <1>2, Zenon DEF OpenOf

LEMMA FollowsIsSound ==
    ASSUME NEW R, NEW S, RecordsFollow(R, S)
    PROVE  RecordsSound(S)
  BY Zenon DEF RecordsFollow, Moved, RecordsSound

LEMMA FollowsKeepsCycles ==
    ASSUME NEW R, NEW S, RecordsFollow(R, S), NEW cycles, CyclesSound(cycles, R)
    PROVE  CyclesSound(cycles, S)
<1>1. ASSUME NEW f \in CFamilies PROVE FailuresOf(cycles, S, f)
  BY Zenon, FollowsKeepsOpen DEF CyclesSound, FailuresOf
<1> QED BY <1>1 DEF CyclesSound

LEMMA FollowsTwice ==
    ASSUME NEW R, NEW S, NEW T, RecordsFollow(R, S), RecordsFollow(S, T)
    PROVE  RecordsFollow(R, T)
<1>1. ASSUME NEW x, NEW y, NEW z, Moved(x, y), Moved(y, z) PROVE Moved(x, z)
  BY <1>1, Zenon DEF Moved
<1> QED BY Zenon, <1>1 DEF RecordsFollow

LEMMA RecordsFollowThemselves ==
    ASSUME NEW R, RecordsSound(R)
    PROVE  RecordsFollow(R, R)
  BY Zenon DEF RecordsFollow, RecordsSound, Moved

\* A map of records each of which moves.
LEMMA MapFollows ==
    ASSUME NEW R, NEW g, DOMAIN g = R, \A x \in R : Moved(x, g[x])
    PROVE  RecordsFollow(R, {g[x] : x \in R})
  BY Zenon DEF RecordsFollow


LEMMA DueFollows ==
    ASSUME NEW R, RecordsSound(R), NEW F, NEW r \in DOMAIN CReleases
    PROVE  RecordsFollow(R, due_after_asset(R, F, r))
<1> DEFINE g(x) == IF x.cluster \in F /\ x.status = "active" THEN [x EXCEPT !.status = "retest_due", !.release = r] ELSE x
<1>1. ASSUME NEW x \in R PROVE Moved(x, g(x))
  <2>1. x \in RecordRow /\ ValidRecord(x)
    BY DEF RecordsSound
  <2>2. CASE x.cluster \in F /\ x.status = "active"
    <3> DEFINE y == [x EXCEPT !.status = "retest_due", !.release = r]
    <3>1. y \in RecordRow /\ y.status = "retest_due" /\ y.release = r /\ y.cluster = x.cluster /\ y.type = x.type
          /\ y.cycle = x.cycle /\ y.snapshot = x.snapshot /\ y.resolved = x.resolved
      BY <2>1 DEF RecordRow
    <3> HIDE DEF y
    <3>2. r # None
      BY CurriculumAbsent
    <3>3. ValidRecord(y) /\ Evidence(y) = Evidence(x) /\ OpenRecord(y) /\ OpenRecord(x)
      BY <2>1, <2>2, <3>1, <3>2 DEF ValidRecord, Evidence, OpenRecord
    <3>4. g(x) = y
      BY <2>2 DEF y
    <3> HIDE DEF g
    <3> QED BY <2>2, <3>1, <3>3, <3>4 DEF Moved
  <2>3. CASE ~(x.cluster \in F /\ x.status = "active")
    BY <2>1, <2>3 DEF Moved
  <2> QED BY <2>2, <2>3
<1>2. due_after_asset(R, F, r) = {g(x) : x \in R}
  BY DEF due_after_asset
<1> HIDE DEF g
<1> QED BY <1>1, <1>2, Zenon DEF RecordsFollow

\* A record that goes back among the gaps.
LEMMA BackIsMoved ==
    ASSUME NEW x \in RecordRow, ValidRecord(x), x.status = "retest_due"
    PROVE  /\ Moved(x, [x EXCEPT !.status = "active", !.release = None])
           /\ [x EXCEPT !.status = "active", !.release = None].release = None
           /\ [x EXCEPT !.status = "active", !.release = None].status = "active"
<1> DEFINE y == [x EXCEPT !.status = "active", !.release = None]
<1>1. y \in RecordRow /\ y.status = "active" /\ y.release = None /\ y.cluster = x.cluster /\ y.type = x.type
      /\ y.cycle = x.cycle /\ y.snapshot = x.snapshot /\ y.resolved = x.resolved
  BY DEF RecordRow
<1> HIDE DEF y
<1>2. ValidRecord(y) /\ Evidence(y) = Evidence(x) /\ OpenRecord(y) /\ OpenRecord(x)
  BY <1>1 DEF ValidRecord, Evidence, OpenRecord
<1>3. Moved(x, y)
  BY <1>1, <1>2 DEF Moved
<1> QED BY <1>1, <1>3 DEF y

LEMMA VoidFollows ==
    ASSUME NEW R, RecordsSound(R), NEW L
    PROVE  /\ RecordsFollow(R, void_retests(R, L))
           /\ \A y \in void_retests(R, L) : y.release # None => y.release \in L /\ y \in R
<1> DEFINE g(x) == IF x.release # None /\ x.release \notin L THEN [x EXCEPT !.status = "active", !.release = None] ELSE x
<1>1. ASSUME NEW x \in R PROVE Moved(x, g(x)) /\ (g(x).release # None => g(x).release \in L /\ g(x) = x)
  <2>1. x \in RecordRow /\ ValidRecord(x)
    BY DEF RecordsSound
  <2>2. CASE x.release # None /\ x.release \notin L
    <3>1. x.status = "retest_due"
      BY <2>1, <2>2 DEF ValidRecord
    <3>2. g(x) = [x EXCEPT !.status = "active", !.release = None]
      BY <2>2
    <3> HIDE DEF g
    <3> QED BY <2>1, <3>1, <3>2, BackIsMoved
  <2>3. CASE ~(x.release # None /\ x.release \notin L)
    BY <2>1, <2>3 DEF Moved
  <2> QED BY <2>2, <2>3
<1>2. void_retests(R, L) = {g(x) : x \in R}
  BY DEF void_retests
<1> HIDE DEF g
<1> QED BY <1>1, <1>2, Zenon DEF RecordsFollow

LEMMA ReturnFollows ==
    ASSUME NEW R, RecordsSound(R), NEW f, NEW r
    PROVE  /\ RecordsFollow(R, return_selected(R, f, r))
           /\ \A y \in return_selected(R, f, r) : y.release # None => y \in R /\ y.cluster # f
<1> DEFINE g(x) == IF x.status = "retest_due" /\ x.cluster = f THEN [x EXCEPT !.status = "active", !.release = None] ELSE x
<1>1. ASSUME NEW x \in R PROVE Moved(x, g(x)) /\ (g(x).release # None => g(x) = x /\ x.cluster # f)
  <2>1. x \in RecordRow /\ ValidRecord(x)
    BY DEF RecordsSound
  <2>2. CASE x.status = "retest_due" /\ x.cluster = f
    <3>2. g(x) = [x EXCEPT !.status = "active", !.release = None]
      BY <2>2
    <3> HIDE DEF g
    <3> QED BY <2>1, <2>2, <3>2, BackIsMoved
  <2>3. CASE ~(x.status = "retest_due" /\ x.cluster = f)
    <3>1. g(x) = x
      BY <2>3
    <3>2. x.release # None => x.cluster # f
      BY <2>1, <2>3 DEF ValidRecord
    <3> HIDE DEF g
    <3> QED BY <2>1, <3>1, <3>2 DEF Moved
  <2> QED BY <2>2, <2>3
<1>2. return_selected(R, f, r) = {g(x) : x \in R}
  BY DEF return_selected
<1> HIDE DEF g
<1> QED BY <1>1, <1>2, Zenon DEF RecordsFollow

-----------------------------------------------------------------------------
(* A cycle.                                                                *)

NewRecords(c, n) ==
    {Record(f, "absolute", c, n) : f \in {f \in DOMAIN CCycles[c] : ~CCycles[c][f].passed}}
      \cup {Record(f, "regression", c, n) : f \in {f \in DOMAIN CCycles[c] : Regressed(CCycles[c][f])}}

After(x, c) ==
    IF x.cluster \in DOMAIN CCycles[c] /\ OpenRecord(x) THEN record_after(x, CCycles[c][x.cluster], c) ELSE x

LEMMA NewIsSound ==
    ASSUME NEW c \in DOMAIN CCycles, NEW n \in Nat, NEW f \in DOMAIN CCycles[c], NEW type \in {"absolute", "regression"}
    PROVE  /\ Record(f, type, c, n) \in RecordRow /\ ValidRecord(Record(f, type, c, n))
           /\ Record(f, type, c, n).status = "active" /\ Record(f, type, c, n).cluster = f
           /\ Record(f, type, c, n).type = type
<1>1. f \in CFamilies
  BY CurriculumShape
<1> QED BY <1>1 DEF Record, RecordRow, ValidRecord

\* What a cycle makes of a record: its evidence stays, a resolved one stays as it is,
\* and an open one is open as long as the outcome leaves it so.
LEMMA AfterIsSound ==
    ASSUME NEW c \in DOMAIN CCycles, NEW x \in RecordRow, ValidRecord(x)
    PROVE  /\ After(x, c) \in RecordRow /\ ValidRecord(After(x, c)) /\ Evidence(After(x, c)) = Evidence(x)
           /\ After(x, c).cluster = x.cluster /\ After(x, c).type = x.type
           /\ x.status = "resolved" => After(x, c) = x
           /\ After(x, c).status = "retest_due" => After(x, c) = x
           /\ OpenRecord(After(x, c)) <=>
                 /\ OpenRecord(x)
                 /\ x.cluster \in DOMAIN CCycles[c] => still_failing(CCycles[c][x.cluster], x)
<1> DEFINE o == CCycles[c][x.cluster]
<1>1. CASE ~(x.cluster \in DOMAIN CCycles[c] /\ OpenRecord(x))
  <2>1. After(x, c) = x
    BY <1>1 DEF After
  <2> QED BY <1>1, <2>1, Zenon
<1>2. CASE x.cluster \in DOMAIN CCycles[c] /\ OpenRecord(x) /\ still_failing(o, x) /\ x.status = "retest_due"
  <2> DEFINE y == [x EXCEPT !.status = "active", !.release = None]
  <2>1. After(x, c) = y
    BY <1>2 DEF After, record_after
  <2>2. Moved(x, y) /\ y.status = "active"
    BY <1>2, BackIsMoved
  <2> HIDE DEF y
  <2> QED BY <1>2, <2>1, <2>2 DEF Moved
<1>3. CASE x.cluster \in DOMAIN CCycles[c] /\ OpenRecord(x) /\ still_failing(o, x) /\ x.status # "retest_due"
  <2>1. After(x, c) = x
    BY <1>3 DEF After, record_after
  <2> QED BY <1>3, <2>1
<1>4. CASE x.cluster \in DOMAIN CCycles[c] /\ OpenRecord(x) /\ ~still_failing(o, x)
  <2> DEFINE y == [x EXCEPT !.status = "resolved", !.release = None, !.resolved = c]
  <2>1. After(x, c) = y
    BY <1>4 DEF After, record_after
  <2>2. y \in RecordRow /\ y.status = "resolved" /\ y.release = None /\ y.cluster = x.cluster /\ y.type = x.type
        /\ y.cycle = x.cycle /\ y.snapshot = x.snapshot /\ y.resolved = c
    BY DEF RecordRow
  <2> HIDE DEF y
  <2>3. c # None
    BY CurriculumAbsent
  <2>4. ValidRecord(y) /\ Evidence(y) = Evidence(x) /\ ~OpenRecord(y) /\ x.status # "resolved"
    BY <1>4, <2>2, <2>3 DEF ValidRecord, Evidence, OpenRecord
  <2> QED BY <1>4, <2>1, <2>2, <2>4
<1> QED BY <1>1, <1>2, <1>3, <1>4

LEMMA CycleIsMap ==
    ASSUME NEW R, NEW c, NEW n
    PROVE  apply_cycle(R, c, n) = {After(x, c) : x \in R} \cup NewRecords(c, n)
  BY DEF apply_cycle, After, NewRecords


LEMMA NewIsActive ==
    ASSUME NEW c \in DOMAIN CCycles, NEW n \in Nat, NEW y \in NewRecords(c, n)
    PROVE  /\ y \in RecordRow /\ ValidRecord(y) /\ y.status = "active"
           /\ y.cluster \in DOMAIN CCycles[c]
           /\ y.type = "absolute" => ~CCycles[c][y.cluster].passed
           /\ y.type = "regression" => Regressed(CCycles[c][y.cluster])
<1>1. CASE \E f \in DOMAIN CCycles[c] : ~CCycles[c][f].passed /\ y = Record(f, "absolute", c, n)
  <2>1. PICK f \in DOMAIN CCycles[c] : ~CCycles[c][f].passed /\ y = Record(f, "absolute", c, n)
    BY <1>1
  <2> QED BY <2>1, NewIsSound
<1>2. CASE \E f \in DOMAIN CCycles[c] : Regressed(CCycles[c][f]) /\ y = Record(f, "regression", c, n)
  <2>1. PICK f \in DOMAIN CCycles[c] : Regressed(CCycles[c][f]) /\ y = Record(f, "regression", c, n)
    BY <1>2
  <2> QED BY <2>1, NewIsSound
<1> QED BY <1>1, <1>2 DEF NewRecords

LEMMA CycleIsSound ==
    ASSUME NEW R, RecordsSound(R), NEW c \in DOMAIN CCycles, NEW n \in Nat
    PROVE  /\ RecordsSound(apply_cycle(R, c, n))
           /\ \A x \in R : \E y \in apply_cycle(R, c, n) : Evidence(y) = Evidence(x) /\ (x.status = "resolved" => y = x)
           /\ \A y \in apply_cycle(R, c, n) : y.status = "retest_due" => y \in R
<1>1. \A x \in R : x \in RecordRow /\ ValidRecord(x)
  BY DEF RecordsSound
<1>2. \A y \in NewRecords(c, n) : y \in RecordRow /\ ValidRecord(y) /\ y.status # "retest_due"
  BY NewIsActive
<1>3. \A x \in R : /\ After(x, c) \in RecordRow /\ ValidRecord(After(x, c)) /\ Evidence(After(x, c)) = Evidence(x)
                   /\ x.status = "resolved" => After(x, c) = x
                   /\ After(x, c).status = "retest_due" => After(x, c) = x
  BY <1>1, AfterIsSound
<1> QED BY <1>2, <1>3, CycleIsMap, Zenon DEF RecordsSound

\* The open records of a cluster after a cycle are those of its outcome in it.
LEMMA CycleOpens ==
    ASSUME NEW R, RecordsSound(R), NEW c \in DOMAIN CCycles, NEW n \in Nat, NEW f \in DOMAIN CCycles[c]
    PROVE  /\ OpenOf(apply_cycle(R, c, n), f, "absolute") <=> ~CCycles[c][f].passed
           /\ CCycles[c][f].passed =>
                 (OpenOf(apply_cycle(R, c, n), f, "regression") <=> Regressed(CCycles[c][f]))
<1> DEFINE S == apply_cycle(R, c, n)  o == CCycles[c][f]
<1>1. S = {After(x, c) : x \in R} \cup NewRecords(c, n)
  BY CycleIsMap
<1>2. ASSUME NEW y \in S, y.cluster = f, OpenRecord(y), NEW type \in {"absolute", "regression"}, y.type = type
      PROVE  ~o.passed \/ (Regressed(o) /\ type = "regression")
  <2>1. CASE y \in NewRecords(c, n)
    BY <1>2, <2>1, NewIsActive
  <2>2. CASE \E x \in R : y = After(x, c)
    <3>1. PICK x \in R : y = After(x, c)
      BY <2>2
    <3>2. x \in RecordRow /\ ValidRecord(x)
      BY DEF RecordsSound
    <3>3. x.cluster = f /\ x.type = type /\ still_failing(o, x)
      BY <1>2, <3>1, <3>2, AfterIsSound
    <3> QED BY <3>3 DEF still_failing
  <2> QED BY <1>1, <2>1, <2>2
<1>3. ~o.passed => OpenOf(S, f, "absolute")
  <2> SUFFICES ASSUME ~o.passed PROVE OpenOf(S, f, "absolute")
    OBVIOUS
  <2>1. Record(f, "absolute", c, n) \in S
    BY <1>1 DEF NewRecords
  <2>2. /\ Record(f, "absolute", c, n).status = "active" /\ Record(f, "absolute", c, n).cluster = f
        /\ Record(f, "absolute", c, n).type = "absolute"
    BY DEF Record
  <2> QED BY <2>1, <2>2 DEF OpenOf, OpenRecord
<1>4. Regressed(o) => OpenOf(S, f, "regression")
  <2> SUFFICES ASSUME Regressed(o) PROVE OpenOf(S, f, "regression")
    OBVIOUS
  <2>1. Record(f, "regression", c, n) \in S
    BY <1>1 DEF NewRecords
  <2>2. /\ Record(f, "regression", c, n).status = "active" /\ Record(f, "regression", c, n).cluster = f
        /\ Record(f, "regression", c, n).type = "regression"
    BY DEF Record
  <2> QED BY <2>1, <2>2 DEF OpenOf, OpenRecord
<1> HIDE DEF S, o
<1>5. OpenOf(S, f, "absolute") => ~o.passed
  BY <1>2 DEF OpenOf
<1>6. OpenOf(S, f, "regression") => ~o.passed \/ Regressed(o)
  BY <1>2 DEF OpenOf
<1> QED BY <1>3, <1>4, <1>5, <1>6, Zenon DEF S, o

\* A cluster the cycle says nothing of keeps its open records.
LEMMA CycleLeavesOthers ==
    ASSUME NEW R, RecordsSound(R), NEW c \in DOMAIN CCycles, NEW n \in Nat,
           NEW f, f \notin DOMAIN CCycles[c], NEW type
    PROVE  OpenOf(apply_cycle(R, c, n), f, type) <=> OpenOf(R, f, type)
<1> DEFINE S == apply_cycle(R, c, n)
<1>1. S = {After(x, c) : x \in R} \cup NewRecords(c, n)
  BY CycleIsMap
<1>2. \A x \in R : After(x, c).cluster = f \/ x.cluster = f => After(x, c) = x
  <2> SUFFICES ASSUME NEW x \in R, After(x, c).cluster = f \/ x.cluster = f PROVE After(x, c) = x
    OBVIOUS
  <2>1. After(x, c).cluster = x.cluster
    BY AfterIsSound DEF RecordsSound
  <2> QED BY <2>1 DEF After
<1>3. \A y \in NewRecords(c, n) : y.cluster # f
  BY NewIsActive
<1> HIDE DEF S
<1>4. OpenOf(S, f, type) => OpenOf(R, f, type)
  BY <1>1, <1>2, <1>3, Zenon DEF OpenOf
<1>5. OpenOf(R, f, type) => OpenOf(S, f, type)
  BY <1>1, <1>2, Zenon DEF OpenOf
<1> QED BY <1>4, <1>5, Zenon DEF S

\* The latest of the cycles that have an outcome of a cluster is one of them.
LEMMA LatestIsSeen ==
    ASSUME NEW cycles \in Seq(DOMAIN CCycles), NEW f, Seen(cycles, f) # {}
    PROVE  \E i \in Seen(cycles, f) : \A j \in Seen(cycles, f) : j <= i
<1> DEFINE n == Len(cycles)
           T == {n - i : i \in Seen(cycles, f)}
<1>1. n \in Nat /\ Seen(cycles, f) \subseteq 1..n
  BY DEF Seen
<1>2. T \in SUBSET Nat /\ T # {}
  BY <1>1
<1>3. PICK m \in T : \A k \in T : m <= k
  BY <1>2, LeastNatural
<1>4. PICK i \in Seen(cycles, f) : m = n - i
  OBVIOUS
<1>5. ASSUME NEW j \in Seen(cycles, f) PROVE j <= i
  <2>1. n - j \in T
    OBVIOUS
  <2>2. n - i <= n - j
    BY <1>3, <1>4, <2>1
  <2> QED BY <1>1, <2>2
<1> QED BY <1>5

LEMMA SeenAfter ==
    ASSUME NEW cycles \in Seq(DOMAIN CCycles), NEW c \in DOMAIN CCycles, NEW f
    PROVE  /\ f \in DOMAIN CCycles[c] =>
                 Seen(Append(cycles, c), f) # {} /\ Outcome(Append(cycles, c), f) = CCycles[c][f]
           /\ f \notin DOMAIN CCycles[c] =>
                 /\ Seen(Append(cycles, c), f) = Seen(cycles, f)
                 /\ Seen(cycles, f) # {} => Outcome(Append(cycles, c), f) = Outcome(cycles, f)
<1> DEFINE n == Len(cycles)  s == Append(cycles, c)
<1>1. /\ n \in Nat /\ s \in Seq(DOMAIN CCycles) /\ Len(s) = n + 1 /\ DOMAIN s = 1..(n + 1) /\ DOMAIN cycles = 1..n
      /\ s[n + 1] = c /\ \A i \in 1..n : s[i] = cycles[i]
  BY AppendProperties
<1> HIDE DEF s, n
<1>2. CASE f \in DOMAIN CCycles[c]
  <2>1. n + 1 \in Seen(s, f) /\ \A j \in Seen(s, f) : j <= n + 1
    BY <1>1, <1>2 DEF Seen
  <2>2. \A i \in Seen(s, f) : (\A j \in Seen(s, f) : j <= i) => i = n + 1
    BY <1>1, <2>1 DEF Seen
  <2>3. (CHOOSE i \in Seen(s, f) : \A j \in Seen(s, f) : j <= i) = n + 1
    BY <2>1, <2>2
  <2> QED BY <1>1, <1>2, <2>1, <2>3 DEF s, Outcome
<1>3. CASE f \notin DOMAIN CCycles[c]
  <2>1. Seen(s, f) = Seen(cycles, f)
    BY <1>1, <1>3 DEF Seen
  <2>2. ASSUME Seen(cycles, f) # {} PROVE Outcome(s, f) = Outcome(cycles, f)
    <3> DEFINE k == CHOOSE i \in Seen(cycles, f) : \A j \in Seen(cycles, f) : j <= i
    <3>1. k \in Seen(cycles, f)
      BY <2>2, LatestIsSeen
    <3>2. s[k] = cycles[k]
      BY <1>1, <3>1 DEF Seen
    <3>3. Outcome(cycles, f) = CCycles[cycles[k]][f] /\ Outcome(s, f) = CCycles[s[k]][f]
      BY <2>1, Zenon DEF Outcome
    <3> QED BY <3>2, <3>3
  <2> QED BY <1>3, <2>1, <2>2 DEF s
<1> QED BY <1>2, <1>3

LEMMA CycleKeepsCycles ==
    ASSUME NEW R, RecordsSound(R), NEW c \in DOMAIN CCycles, NEW n \in Nat, NEW cycles, CyclesSound(cycles, R)
    PROVE  CyclesSound(Append(cycles, c), apply_cycle(R, c, n))
<1>1. cycles \in Seq(DOMAIN CCycles)
  BY DEF CyclesSound
<1>2. Append(cycles, c) \in Seq(DOMAIN CCycles)
  BY <1>1, AppendProperties
<1>3. ASSUME NEW f \in CFamilies PROVE FailuresOf(Append(cycles, c), apply_cycle(R, c, n), f)
  <2>1. CASE f \in DOMAIN CCycles[c]
    <3>1. Seen(Append(cycles, c), f) # {} /\ Outcome(Append(cycles, c), f) = CCycles[c][f]
      BY <1>1, <2>1, SeenAfter
    <3> QED BY <2>1, <3>1, CycleOpens, Zenon DEF FailuresOf
  <2>2. CASE f \notin DOMAIN CCycles[c]
    <3>1. /\ Seen(Append(cycles, c), f) = Seen(cycles, f)
          /\ Seen(cycles, f) # {} => Outcome(Append(cycles, c), f) = Outcome(cycles, f)
      BY <1>1, <2>2, SeenAfter
    <3>2. FailuresOf(cycles, R, f)
      BY DEF CyclesSound
    <3>3. \A type : OpenOf(apply_cycle(R, c, n), f, type) <=> OpenOf(R, f, type)
      BY <2>2, CycleLeavesOthers
    <3> QED BY <3>1, <3>2, <3>3, Zenon DEF FailuresOf
  <2> QED BY <2>1, <2>2
<1> QED BY <1>2, <1>3 DEF CyclesSound


-----------------------------------------------------------------------------
(* Marks.                                                                  *)

LEMMA InOrderIsAll ==
    ASSUME NEW F, IsFiniteSet(F)
    PROVE  /\ Cardinality(F) \in Nat /\ InOrder(F) \in [1..Cardinality(F) -> F]
           /\ \A f \in F : \E i \in 1..Cardinality(F) : InOrder(F)[i] = f
<1>1. Cardinality(F) \in Nat /\ ExistsBijection(1..Cardinality(F), F)
  BY FS_CardinalityType
<1>2. \E s \in [1..Cardinality(F) -> F] : \A f \in F : \E i \in DOMAIN s : s[i] = f
  BY <1>1, Zenon DEF ExistsBijection, Bijection, Surjection
<1>3. InOrder(F) \in [1..Cardinality(F) -> F] /\ \A f \in F : \E i \in DOMAIN InOrder(F) : InOrder(F)[i] = f
  BY <1>2, Zenon DEF InOrder
<1> QED BY <1>1, <1>3

\* The marks m of the learner once a release is applied.
AppliedMarks(m, marks, assets, r) ==
    /\ MarksSound(m, assets)
    /\ \A i \in DOMAIN marks : i \in DOMAIN m /\ m[i] = marks[i]
    /\ \A f \in CReleases[r] : \E i \in DOMAIN m : m[i].family = f /\ m[i].release = r /\ ~m[i].consumed

LEMMA MarksAfter ==
    ASSUME NEW marks, NEW assets \in SUBSET DOMAIN CReleases, MarksSound(marks, assets),
           NEW r \in DOMAIN CReleases, r \notin assets,
           NEW m, m = marks_after_asset(marks, CReleases[r], r)
    PROVE  AppliedMarks(m, marks, assets \cup {r}, r)
<1> DEFINE F == CReleases[r]
           more == [i \in 1..Cardinality(F) |-> [family |-> InOrder(F)[i], release |-> r, consumed |-> FALSE]]
<1>1. IsFiniteSet(F) /\ F \subseteq CFamilies
  BY CurriculumShape
<1>2. marks \in Seq(MarkRow) /\ \A i \in DOMAIN marks : marks[i].release \in assets
  BY DEF MarksSound
<1>3. {f \in F : ~ \E i \in DOMAIN marks : marks[i].family = f /\ marks[i].release = r} = F
  BY <1>2
<1>4. m = marks \o more
  BY <1>3, Zenon DEF marks_after_asset
<1>5. /\ Cardinality(F) \in Nat /\ \A i \in 1..Cardinality(F) : InOrder(F)[i] \in CFamilies
      /\ \A f \in F : \E i \in 1..Cardinality(F) : InOrder(F)[i] = f
  BY <1>1, InOrderIsAll
<1> HIDE DEF F
<1>6. /\ more \in [1..Cardinality(F) -> MarkRow]
      /\ \A i \in 1..Cardinality(F) : more[i].family = InOrder(F)[i] /\ more[i].release = r /\ ~more[i].consumed
  BY <1>5 DEF MarkRow
<1> HIDE DEF more
<1>7. more \in Seq(MarkRow) /\ Len(more) = Cardinality(F)
  BY <1>5, <1>6
<1>8. /\ m \in Seq(MarkRow) /\ Len(m) = Len(marks) + Cardinality(F)
      /\ \A i \in 1..(Len(marks) + Cardinality(F)) : m[i] = IF i <= Len(marks) THEN marks[i] ELSE more[i - Len(marks)]
  <2>1. /\ marks \o more \in Seq(MarkRow) /\ Len(marks \o more) = Len(marks) + Len(more)
        /\ \A i \in 1..(Len(marks) + Len(more)) :
              (marks \o more)[i] = IF i <= Len(marks) THEN marks[i] ELSE more[i - Len(marks)]
    BY <1>2, <1>7, ConcatProperties
  <2> QED BY <1>4, <1>7, <2>1
<1>9. Len(marks) \in Nat /\ DOMAIN marks = 1..Len(marks) /\ DOMAIN m = 1..(Len(marks) + Cardinality(F))
  BY <1>2, <1>8
<1>10. \A i \in DOMAIN marks : i \in DOMAIN m /\ m[i] = marks[i]
  BY <1>5, <1>8, <1>9
<1>11. ASSUME NEW i \in DOMAIN m PROVE m[i].release \in assets \cup {r}
  <2>1. CASE i <= Len(marks)
    BY <1>2, <1>5, <1>8, <1>9, <2>1
  <2>2. CASE ~(i <= Len(marks))
    <3>1. i - Len(marks) \in 1..Cardinality(F) /\ m[i] = more[i - Len(marks)]
      BY <1>5, <1>8, <1>9, <2>2
    <3> QED BY <1>6, <3>1
  <2> QED BY <2>1, <2>2
<1>12. ASSUME NEW f \in F PROVE \E i \in DOMAIN m : m[i].family = f /\ m[i].release = r /\ ~m[i].consumed
  <2>1. PICK k \in 1..Cardinality(F) : InOrder(F)[k] = f
    BY <1>5
  <2>2. k + Len(marks) \in DOMAIN m /\ m[k + Len(marks)] = more[k]
    BY <1>5, <1>8, <1>9
  <2> QED BY <1>6, <2>1, <2>2
<1>13. MarksSound(m, assets \cup {r})
  BY <1>8, <1>11 DEF MarksSound
<1> QED BY <1>10, <1>12, <1>13 DEF F, AppliedMarks

\* A mark that is used up stays where it is; those of other families are as before.
LEMMA ConsumeKeeps ==
    ASSUME NEW marks, NEW assets, MarksSound(marks, assets), NEW f, NEW r
    PROVE  /\ MarksSound(consume_mark(marks, f, r), assets) /\ DOMAIN consume_mark(marks, f, r) = DOMAIN marks
           /\ \A i \in DOMAIN marks : marks[i].family # f => consume_mark(marks, f, r)[i] = marks[i]
           /\ \A i \in DOMAIN marks : marks[i].family = f /\ marks[i].release = r => consume_mark(marks, f, r)[i].consumed
<1> DEFINE m == consume_mark(marks, f, r)
<1>1. marks \in Seq(MarkRow) /\ \A i \in DOMAIN marks : marks[i] \in MarkRow /\ marks[i].release \in assets
  BY DEF MarksSound
<1>2. /\ DOMAIN m = DOMAIN marks
      /\ \A i \in DOMAIN marks : m[i] = IF marks[i].family = f /\ marks[i].release = r
                                        THEN [marks[i] EXCEPT !.consumed = TRUE] ELSE marks[i]
      /\ m = [i \in DOMAIN marks |-> m[i]]
  BY DEF consume_mark
<1> HIDE DEF m
<1>3. ASSUME NEW i \in DOMAIN marks
      PROVE  /\ m[i] \in MarkRow /\ m[i].release = marks[i].release
             /\ marks[i].family = f /\ marks[i].release = r => m[i].consumed
  <2> DEFINE y == [marks[i] EXCEPT !.consumed = TRUE]
  <2>1. y \in MarkRow /\ y.release = marks[i].release /\ y.consumed
    BY <1>1 DEF MarkRow
  <2> HIDE DEF y
  <2>2. CASE marks[i].family = f /\ marks[i].release = r
    <3>1. m[i] = y
      BY <1>2, <2>2 DEF y
    <3> QED BY <2>1, <3>1
  <2>3. CASE ~(marks[i].family = f /\ marks[i].release = r)
    BY <1>1, <1>2, <2>3
  <2> QED BY <2>2, <2>3
<1>4. Len(marks) \in Nat /\ DOMAIN marks = 1..Len(marks)
  BY <1>1
<1>5. m \in Seq(MarkRow)
  BY <1>2, <1>3, <1>4
<1> QED BY <1>1, <1>2, <1>3, <1>5 DEF m, MarksSound

-----------------------------------------------------------------------------
(* The actions.                                                            *)

LEMMA JobsStay ==
    ASSUME JobsSound, UNCHANGED <<cjobs, ckeys, cproposals>>
    PROVE  JobsSound'
  BY DEF JobsSound, ProbeProposals, ScheduleReceipts

\* A learner whose fields are known is sound.
LEMMA LiveStands == ASSUME learner_live PROVE Stands
  BY DEF learner_live, Stands

LEMMA InitSound == ASSUME curriculum_init PROVE CurriculumInv
<1>1. ~Stands
  BY DEF curriculum_init, Stands
<1>2. JobsSound
  BY DEF curriculum_init, JobsSound, ProbeProposals, ScheduleReceipts
<1> QED BY <1>1, <1>2 DEF curriculum_init, CurriculumInv

LEMMA RegisterSound ==
    ASSUME CurriculumInv, register_learner
    PROVE  CurriculumInv'
<1>1. /\ DOMAIN learner' = LearnerFields /\ learner' = [x \in LearnerFields |-> learner'[x]]
      /\ learner'.snapshot = 0 /\ learner'.cooldown = 0 /\ learner'.assets = {} /\ learner'.records = {}
      /\ learner'.marks = <<>> /\ learner'.cycles = <<>>
  BY DEF register_learner, LearnerFields
<1>2. RecordsSound({}) /\ DueIsMarked({}, <<>>) /\ MarksSound(<<>>, {})
  BY DEF RecordsSound, DueIsMarked, MarksSound
<1>3. CyclesSound(<<>>, {})
  BY DEF CyclesSound, FailuresOf, OpenOf, Seen
<1>4. COOLDOWN \in Nat
  BY CurriculumShape
<1>5. LearnerSound(learner')
  BY <1>1, <1>2, <1>3, <1>4 DEF LearnerSound
<1>6. JobsSound'
  BY JobsStay DEF register_learner, CurriculumInv
<1> QED BY <1>5, <1>6 DEF CurriculumInv, register_learner, Stands, LearnerSound

LEMMA RecordSound ==
    ASSUME CurriculumInv, NEW c \in DOMAIN CCycles, record_cycle(c)
    PROVE  /\ CurriculumInv'
           /\ \A x \in learner.records : \E y \in learner'.records : Evidence(y) = Evidence(x) /\ (x.status = "resolved" => y = x)
<1>1. LearnerSound(learner)
  BY LiveStands DEF CurriculumInv, record_cycle
<1>2. /\ DOMAIN learner' = LearnerFields /\ learner' = [x \in LearnerFields |-> learner'[x]]
      /\ learner'.snapshot = learner.snapshot /\ learner'.cooldown = (IF learner.cooldown = 0 THEN 0 ELSE learner.cooldown - 1)
      /\ learner'.assets = learner.assets
      /\ learner'.records = apply_cycle(learner.records, c, learner.snapshot)
      /\ learner'.marks = learner.marks /\ learner'.cycles = Append(learner.cycles, c)
  BY <1>1 DEF record_cycle, LearnerFields, LearnerSound
<1>3. learner.snapshot \in Nat /\ learner'.cooldown \in 0..COOLDOWN
  BY <1>1, <1>2, CurriculumShape DEF LearnerSound
<1>4. /\ RecordsSound(learner'.records)
      /\ \A x \in learner.records : \E y \in learner'.records : Evidence(y) = Evidence(x) /\ (x.status = "resolved" => y = x)
      /\ \A y \in learner'.records : y.status = "retest_due" => y \in learner.records
  BY <1>1, <1>2, <1>3, CycleIsSound DEF LearnerSound
<1>5. DueIsMarked(learner'.records, learner'.marks)
  BY <1>1, <1>2, <1>4 DEF LearnerSound, DueIsMarked
<1>6. CyclesSound(learner'.cycles, learner'.records)
  BY <1>1, <1>2, <1>3, CycleKeepsCycles DEF LearnerSound
<1>7. LearnerSound(learner')
  BY <1>1, <1>2, <1>3, <1>4, <1>5, <1>6 DEF LearnerSound
<1>8. JobsSound'
  BY JobsStay DEF record_cycle, CurriculumInv
<1> QED BY <1>4, <1>7, <1>8 DEF CurriculumInv, record_cycle, Stands, LearnerSound


\* The session that schedules: it adds a job at most, and only a new one that was
\* triggered starts the cooldown.
LEMMA SessionSchedules ==
    ASSUME CurriculumInv, learner_live, NEW t, NEW limit \in CBudgets, schedule_in_session(t, limit),
           Triggered(t) => ~(learner.cooldown > 0)
    PROVE  /\ LearnerSound(learner') /\ learner'.records = learner.records
           /\ DOMAIN cjobs \subseteq DOMAIN cjobs' /\ t \in DOMAIN cjobs'
           /\ cjobs' = [x \in DOMAIN cjobs' |-> cjobs'[x]] /\ \A x \in DOMAIN cjobs' : cjobs'[x] \in ProbeJob
           /\ learner'.cooldown > learner.cooldown =>
                 learner.cooldown = 0 /\ t \in DOMAIN cjobs' \ DOMAIN cjobs /\ Triggered(t)
<1>1. LearnerSound(learner) /\ JobsSound
  BY LiveStands DEF CurriculumInv
<1>2. CASE t \in DOMAIN cjobs
  <2>1. learner' = learner /\ cjobs' = cjobs
    BY <1>2 DEF schedule_in_session
  <2>2. learner.cooldown \in Nat
    BY <1>1, CurriculumShape DEF LearnerSound
  <2> QED BY <1>1, <1>2, <2>1, <2>2 DEF JobsSound
<1>3. CASE t \notin DOMAIN cjobs
  <2>1. /\ DOMAIN cjobs' = DOMAIN cjobs \cup {t} /\ cjobs'[t] = [limit |-> limit, terminal |-> terminal_of(t)]
        /\ \A x \in DOMAIN cjobs : cjobs'[x] = cjobs[x]
        /\ cjobs' = [x \in DOMAIN cjobs' |-> cjobs'[x]]
    BY <1>3 DEF schedule_in_session
  <2>2. terminal_of(t) \in {"budget_exhausted", "cooldown", "unsupported_scope"}
    BY DEF terminal_of
  <2>3. cjobs'[t] \in ProbeJob
    BY <2>1, <2>2 DEF ProbeJob
  <2>4. \A x \in DOMAIN cjobs' : cjobs'[x] \in ProbeJob
    BY <1>1, <2>1, <2>3 DEF JobsSound
  <2>5. /\ DOMAIN learner' = LearnerFields /\ learner' = [x \in LearnerFields |-> learner'[x]]
        /\ learner'.snapshot = learner.snapshot /\ learner'.cooldown = (IF Triggered(t) THEN COOLDOWN ELSE learner.cooldown)
        /\ learner'.assets = learner.assets /\ learner'.records = learner.records
        /\ learner'.marks = learner.marks /\ learner'.cycles = learner.cycles
    BY <1>1, <1>3 DEF schedule_in_session, LearnerFields, LearnerSound
  <2>6. learner.cooldown \in 0..COOLDOWN /\ COOLDOWN \in Nat
    BY <1>1, CurriculumShape DEF LearnerSound
  <2>7. learner'.cooldown \in 0..COOLDOWN
    BY <2>5, <2>6
  <2>8. LearnerSound(learner')
    BY <1>1, <2>5, <2>7 DEF LearnerSound
  <2>9. learner'.cooldown > learner.cooldown => learner.cooldown = 0 /\ Triggered(t)
    BY <2>5, <2>6
  <2> QED BY <1>3, <2>1, <2>4, <2>5, <2>8, <2>9
<1> QED BY <1>2, <1>3

\* No probe is triggered while the cooldown runs.
LEMMA TriggerWaits == Triggered(detect_plateau_signal(learner)) => ~(learner.cooldown > 0)
  BY DEF Triggered, detect_plateau_signal

\* A session that only adds a job keeps what names one.
LEMMA JobsGrow ==
    ASSUME CurriculumInv, DOMAIN cjobs \subseteq DOMAIN cjobs',
           cjobs' = [x \in DOMAIN cjobs' |-> cjobs'[x]], \A x \in DOMAIN cjobs' : cjobs'[x] \in ProbeJob,
           cproposals' = cproposals, ckeys' \in ScheduleReceipts'
    PROVE  JobsSound'
<1>1. cproposals \in [DOMAIN CProposals -> DOMAIN cjobs \cup {None}]
  BY DEF CurriculumInv, JobsSound, ProbeProposals
<1>2. cproposals' \in [DOMAIN CProposals -> DOMAIN cjobs' \cup {None}]
  BY <1>1
<1> QED BY <1>2 DEF JobsSound, ProbeProposals

LEMMA ReceiptsGrow ==
    ASSUME CurriculumInv, DOMAIN cjobs \subseteq DOMAIN cjobs'
    PROVE  ckeys \in [CKeys -> [job : DOMAIN cjobs', limit : CBudgets] \cup {None}]
  BY DEF CurriculumInv, JobsSound, ScheduleReceipts

\* What the two ways to schedule have in common.
Scheduled ==
    /\ Stands => LearnerSound(learner') /\ learner'.records = learner.records
    /\ learner'.cooldown > learner.cooldown =>
          learner.cooldown = 0 /\ \E t \in DOMAIN cjobs' \ DOMAIN cjobs : Triggered(t)
    /\ \A k \in CKeys : ckeys[k] # None => ckeys'[k] = ckeys[k] /\ ckeys[k].job \in DOMAIN cjobs'

LEMMA ScheduleSound ==
    ASSUME CurriculumInv, NEW limit \in CBudgets, schedule_probe(limit)
    PROVE  CurriculumInv' /\ Scheduled
<1> DEFINE t == detect_plateau_signal(learner)
<1>1. learner_live /\ schedule_in_session(t, limit) /\ UNCHANGED <<ckeys, cproposals, creports, creleases, cdecided, cwater>>
  BY DEF schedule_probe
<1>2. Triggered(t) => ~(learner.cooldown > 0)
  BY TriggerWaits
<1> HIDE DEF t
<1>3. /\ LearnerSound(learner') /\ learner'.records = learner.records
      /\ DOMAIN cjobs \subseteq DOMAIN cjobs' /\ t \in DOMAIN cjobs'
      /\ cjobs' = [x \in DOMAIN cjobs' |-> cjobs'[x]] /\ \A x \in DOMAIN cjobs' : cjobs'[x] \in ProbeJob
      /\ learner'.cooldown > learner.cooldown =>
            learner.cooldown = 0 /\ t \in DOMAIN cjobs' \ DOMAIN cjobs /\ Triggered(t)
  BY <1>1, <1>2, SessionSchedules
<1>4. ckeys' \in ScheduleReceipts'
  BY <1>1, <1>3, ReceiptsGrow DEF ScheduleReceipts
<1>5. JobsSound'
  BY <1>1, <1>3, <1>4, JobsGrow
<1>6. \A k \in CKeys : ckeys[k] # None => ckeys'[k] = ckeys[k] /\ ckeys[k].job \in DOMAIN cjobs'
  BY <1>1, <1>3, ReceiptsGrow
<1>7. CurriculumInv'
  BY <1>1, <1>3, <1>5 DEF CurriculumInv, Stands, LearnerSound, ValidityReport
<1> QED BY <1>3, <1>6, <1>7 DEF Scheduled

LEMMA ScheduleAgainSound ==
    ASSUME CurriculumInv, NEW key \in CKeys, NEW limit \in CBudgets, schedule_probe_idempotent(key, limit)
    PROVE  CurriculumInv' /\ Scheduled
<1> DEFINE t == detect_plateau_signal(learner)
<1>1. learner_live /\ receipt_or_schedule(key, limit, t) /\ UNCHANGED <<cproposals, creports, creleases, cdecided, cwater>>
  BY DEF schedule_probe_idempotent
<1>2. Triggered(t) => ~(learner.cooldown > 0)
  BY TriggerWaits
<1> HIDE DEF t
<1>3. CASE ckeys[key] # None
  <2>1. UNCHANGED <<ckeys, cjobs, learner>>
    BY <1>1, <1>3 DEF receipt_or_schedule
  <2>2. JobsSound'
    BY <1>1, <2>1, JobsStay DEF CurriculumInv
  <2>3. CurriculumInv'
    BY <1>1, <2>1, <2>2 DEF CurriculumInv, Stands, LearnerSound, ValidityReport
  <2>4. Stands /\ LearnerSound(learner) /\ learner.cooldown \in Nat
    BY <1>1, LiveStands, CurriculumShape DEF CurriculumInv, LearnerSound
  <2>5. ~(learner'.cooldown > learner.cooldown)
    BY <2>1, <2>4
  <2>6. \A k \in CKeys : ckeys[k] # None => ckeys'[k] = ckeys[k] /\ ckeys[k].job \in DOMAIN cjobs'
    BY <2>1, ReceiptsGrow
  <2> QED BY <2>1, <2>3, <2>4, <2>5, <2>6 DEF Scheduled
<1>4. CASE ckeys[key] = None
  <2>1. schedule_in_session(t, limit) /\ ckeys' = [ckeys EXCEPT ![key] = [job |-> t, limit |-> limit]]
    BY <1>1, <1>4 DEF receipt_or_schedule
  <2>3. /\ LearnerSound(learner') /\ learner'.records = learner.records
        /\ DOMAIN cjobs \subseteq DOMAIN cjobs' /\ t \in DOMAIN cjobs'
        /\ cjobs' = [x \in DOMAIN cjobs' |-> cjobs'[x]] /\ \A x \in DOMAIN cjobs' : cjobs'[x] \in ProbeJob
        /\ learner'.cooldown > learner.cooldown =>
              learner.cooldown = 0 /\ t \in DOMAIN cjobs' \ DOMAIN cjobs /\ Triggered(t)
    BY <1>1, <1>2, <2>1, SessionSchedules
  <2>4. ckeys \in [CKeys -> [job : DOMAIN cjobs', limit : CBudgets] \cup {None}]
    BY <2>3, ReceiptsGrow
  <2>5. ckeys' \in ScheduleReceipts'
    BY <2>1, <2>3, <2>4 DEF ScheduleReceipts
  <2>6. JobsSound'
    BY <1>1, <2>3, <2>5, JobsGrow
  <2>7. \A k \in CKeys : ckeys[k] # None => ckeys'[k] = ckeys[k] /\ ckeys[k].job \in DOMAIN cjobs'
    BY <1>4, <2>1, <2>4
  <2>8. CurriculumInv'
    BY <1>1, <2>3, <2>6 DEF CurriculumInv, Stands, LearnerSound, ValidityReport
  <2> QED BY <2>3, <2>7, <2>8 DEF Scheduled
<1> QED BY <1>3, <1>4

LEMMA ProposalSound ==
    ASSUME CurriculumInv, NEW p \in DOMAIN CProposals, NEW t, store_proposal(p, t)
    PROVE  CurriculumInv'
<1>1. JobsSound'
  BY DEF store_proposal, CurriculumInv, JobsSound, ProbeProposals, ScheduleReceipts
<1> QED BY <1>1 DEF store_proposal, CurriculumInv, Stands, LearnerSound, ValidityReport

LEMMA ReportSound ==
    ASSUME CurriculumInv, NEW p \in DOMAIN CProposals, NEW v \in {"verified", "quarantined", "unavailable"},
           record_validity_report(p, v)
    PROVE  CurriculumInv'
<1>1. JobsSound'
  BY JobsStay DEF record_validity_report, CurriculumInv
<1>2. creports' \subseteq ValidityReport
  BY DEF record_validity_report, CurriculumInv, ValidityReport
<1> QED BY <1>1, <1>2 DEF record_validity_report, CurriculumInv, Stands, LearnerSound, ValidityReport


-----------------------------------------------------------------------------
(* Selection.                                                              *)

LEMMA RankIsSmall ==
    ASSUME NEW l, NEW c, NEW live
    PROVE  category(l, c, live).rank \in 0..3
  BY DEF category

\* There is a first of the ranking, and it is one of the candidates.
LEMMA TopIsCandidate ==
    ASSUME NEW l, NEW C, C # {}, NEW live, \A c \in C : CProposals[c.proposal].seq \in Nat
    PROVE  top_of(l, C, live) \in C
<1> DEFINE rank(c) == category(l, c, live).rank
           seq(c) == CProposals[c.proposal].seq
           Ranks == {rank(c) : c \in C}
<1>1. \A c \in C : rank(c) \in Nat
  BY RankIsSmall
<1>2. Ranks \in SUBSET Nat /\ Ranks # {}
  BY <1>1
<1>3. PICK m \in Ranks : \A k \in Ranks : m <= k
  BY <1>2, LeastNatural
<1> DEFINE D == {c \in C : rank(c) = m}
           Seqs == {seq(c) : c \in D}
<1>4. D # {} /\ \A c \in C : m <= rank(c)
  BY <1>3
<1>5. Seqs \in SUBSET Nat /\ Seqs # {}
  BY <1>4
<1>6. PICK n \in Seqs : \A k \in Seqs : n <= k
  BY <1>5, LeastNatural
<1>7. PICK c \in D : seq(c) = n
  OBVIOUS
<1>8. ASSUME NEW d \in C PROVE rank(c) < rank(d) \/ (rank(c) = rank(d) /\ seq(c) <= seq(d))
  <2>1. CASE rank(d) = m
    <3>1. d \in D
      BY <2>1
    <3>2. seq(d) \in Seqs
      BY <3>1
    <3> QED BY <1>6, <1>7, <2>1, <3>2
  <2>2. CASE rank(d) # m
    <3> HIDE DEF rank, seq
    <3> QED BY <1>1, <1>2, <1>4, <1>7, <2>2
  <2> QED BY <2>1, <2>2
<1>9. c \in C /\ \A d \in C : rank(c) < rank(d) \/ (rank(c) = rank(d) /\ seq(c) <= seq(d))
  BY <1>7, <1>8
<1> QED BY <1>9, Zenon DEF top_of

\* A category with a release answers to a live mark of the family.
LEMMA CategoryIsMarked ==
    ASSUME NEW l, NEW c, NEW live, l.marks \in Seq(MarkRow), category(l, c, live).release # None
    PROVE  \E i \in DOMAIN l.marks :
              /\ ~l.marks[i].consumed /\ l.marks[i].family = CProposals[c.proposal].family
              /\ l.marks[i].release \in live /\ l.marks[i].release = category(l, c, live).release
<1> DEFINE due == LiveMarks(l, CProposals[c.proposal].family, live)
           k == CHOOSE i \in due : \A j \in due : i <= j
<1>1. due # {} /\ category(l, c, live).release = l.marks[k].release
  BY DEF category
<1>2. due \in SUBSET Nat
  BY DEF LiveMarks
<1>3. k \in due
  <2>1. \E i \in due : \A j \in due : i <= j
    BY <1>1, <1>2, LeastNatural
  <2> QED BY <2>1
<1> QED BY <1>1, <1>3 DEF LiveMarks

\* The learner once the influences of dead releases are void.
LEMMA VoidIsSound ==
    ASSUME NEW l, LearnerSound(l), NEW L
    PROVE  /\ LearnerSound([l EXCEPT !.records = void_retests(@, L)])
           /\ RecordsFollow(l.records, [l EXCEPT !.records = void_retests(@, L)].records)
           /\ [l EXCEPT !.records = void_retests(@, L)].marks = l.marks
           /\ [l EXCEPT !.records = void_retests(@, L)].cooldown = l.cooldown
           /\ \A y \in [l EXCEPT !.records = void_retests(@, L)].records : y.release # None => y.release \in L
<1> DEFINE m == [l EXCEPT !.records = void_retests(@, L)]
<1>1. /\ DOMAIN m = LearnerFields /\ m = [x \in LearnerFields |-> m[x]]
      /\ m.snapshot = l.snapshot /\ m.cooldown = l.cooldown /\ m.assets = l.assets
      /\ m.records = void_retests(l.records, L) /\ m.marks = l.marks /\ m.cycles = l.cycles
  BY DEF LearnerFields, LearnerSound
<1> HIDE DEF m
<1>2. RecordsSound(l.records) /\ DueIsMarked(l.records, l.marks) /\ CyclesSound(l.cycles, l.records)
  BY DEF LearnerSound
<1>3. RecordsFollow(l.records, m.records) /\ \A y \in m.records : y.release # None => y.release \in L /\ y \in l.records
  BY <1>1, <1>2, VoidFollows
<1>4. RecordsSound(m.records) /\ CyclesSound(m.cycles, m.records)
  BY <1>1, <1>2, <1>3, FollowsIsSound, FollowsKeepsCycles
<1>5. DueIsMarked(m.records, m.marks)
  BY <1>1, <1>2, <1>3, <1>4 DEF DueIsMarked, RecordsSound, ValidRecord
<1>6. LearnerSound(m)
  BY <1>1, <1>4, <1>5 DEF LearnerSound
<1> QED BY <1>1, <1>3, <1>6 DEF m

LEMMA AfterIsLearner ==
    ASSUME NEW l, LearnerSound(l), NEW f, NEW r
    PROVE  /\ LearnerSound(learner_after(l, f, r))
           /\ RecordsFollow(l.records, learner_after(l, f, r).records)
           /\ learner_after(l, f, r).cooldown = l.cooldown
           /\ \A y \in learner_after(l, f, r).records : y.release # None => y \in l.records
           /\ r # None => \A i \in DOMAIN l.marks : l.marks[i].family = f /\ l.marks[i].release = r =>
                             learner_after(l, f, r).marks[i].consumed
<1>1. RecordsSound(l.records) /\ DueIsMarked(l.records, l.marks) /\ CyclesSound(l.cycles, l.records)
  BY DEF LearnerSound
<1>2. CASE r = None
  <2>1. learner_after(l, f, r) = l
    BY <1>2 DEF learner_after
  <2> QED BY <1>1, <1>2, <2>1, RecordsFollowThemselves
<1>3. CASE r # None
  <2> DEFINE m == learner_after(l, f, r)
  <2>1. /\ DOMAIN m = LearnerFields /\ m = [x \in LearnerFields |-> m[x]]
        /\ m.snapshot = l.snapshot /\ m.cooldown = l.cooldown /\ m.assets = l.assets
        /\ m.records = return_selected(l.records, f, r) /\ m.marks = consume_mark(l.marks, f, r) /\ m.cycles = l.cycles
    BY <1>3 DEF LearnerFields, LearnerSound, learner_after
  <2> HIDE DEF m
  <2>2. RecordsFollow(l.records, m.records) /\ \A y \in m.records : y.release # None => y \in l.records /\ y.cluster # f
    BY <1>1, <2>1, ReturnFollows
  <2>3. RecordsSound(m.records) /\ CyclesSound(m.cycles, m.records)
    BY <1>1, <2>1, <2>2, FollowsIsSound, FollowsKeepsCycles
  <2>4. /\ MarksSound(m.marks, m.assets) /\ DOMAIN m.marks = DOMAIN l.marks
        /\ \A i \in DOMAIN l.marks : l.marks[i].family # f => m.marks[i] = l.marks[i]
        /\ \A i \in DOMAIN l.marks : l.marks[i].family = f /\ l.marks[i].release = r => m.marks[i].consumed
    BY <2>1, ConsumeKeeps DEF LearnerSound
  <2>5. ASSUME NEW y \in m.records, y.status = "retest_due" PROVE MarkedBy(y, m.marks)
    <3>1. y.release # None
      BY <2>3, <2>5 DEF RecordsSound, ValidRecord
    <3>2. y \in l.records /\ y.cluster # f
      BY <2>2, <3>1
    <3>3. MarkedBy(y, l.marks)
      BY <1>1, <2>5, <3>2 DEF DueIsMarked
    <3> QED BY <2>4, <3>2, <3>3 DEF MarkedBy
  <2>6. LearnerSound(m)
    BY <2>1, <2>3, <2>4, <2>5 DEF LearnerSound, DueIsMarked
  <2> QED BY <2>1, <2>2, <2>4, <2>6 DEF m
<1> QED BY <1>2, <1>3

\* What a choice does.
Selected ==
    \E top \in ValidityReport, r \in DOMAIN CReleases \cup {None} :
      /\ ~quarantined(top.proposal)
      /\ Len(cdecided') = Len(cdecided) + 1
      /\ cdecided'[Len(cdecided) + 1].proposal = top.proposal /\ cdecided'[Len(cdecided) + 1].asset = r
      /\ r # None => /\ creleases[r] \in {"active", "superseded"}
                     /\ \E i \in DOMAIN learner.marks :
                          /\ learner.marks[i].family = CProposals[top.proposal].family /\ learner.marks[i].release = r
                          /\ ~learner.marks[i].consumed /\ learner'.marks[i].consumed
      /\ \A x \in learner'.records : x.release # None => creleases[x.release] # "rolled_back"

LEMMA SelectSound ==
    ASSUME CurriculumInv, NEW offered \in SUBSET creports, select_next_task(offered)
    PROVE  CurriculumInv' /\ Selected /\ RecordsFollow(learner.records, learner'.records) /\ learner'.cooldown = learner.cooldown
<1> DEFINE able == {c \in offered : eligible(c)}
           live == live_asset_releases(learner)
           l    == [learner EXCEPT !.records = void_retests(@, live)]
           top  == top_of(l, able, live)
           frozen == top_of(frozen_view(l), able, {})
           cat  == category(l, top, live)
           f    == CProposals[top.proposal].family
<1>1. /\ able # {} /\ commit_selection(l, top, cat, frozen) /\ learner_live
      /\ UNCHANGED <<cjobs, ckeys, cproposals, creports, creleases, cwater>>
  BY DEF select_next_task
<1>2. able \subseteq ValidityReport /\ \A c \in able : eligible(c)
  BY DEF CurriculumInv
<1>3. \A c \in able : CProposals[c.proposal].seq \in Nat
  BY <1>2, CurriculumShape DEF ValidityReport
<1>4. LearnerSound(learner)
  BY <1>1, LiveStands DEF CurriculumInv
<1>5. \A r \in live : creleases[r] \in {"active", "superseded"}
  BY DEF live_asset_releases
<1> HIDE DEF able, live
<1>6. top \in able /\ frozen \in able
  BY <1>1, <1>3, TopIsCandidate
<1>7. /\ LearnerSound(l) /\ RecordsFollow(learner.records, l.records) /\ l.marks = learner.marks /\ l.cooldown = learner.cooldown
      /\ \A y \in l.records : y.release # None => y.release \in live
  BY <1>4, VoidIsSound
<1> HIDE DEF l
<1>8. cat.rank \in 0..3
  BY RankIsSmall
<1>9. cat.release # None =>
        \E i \in DOMAIN l.marks : /\ ~l.marks[i].consumed /\ l.marks[i].family = f
                                  /\ l.marks[i].release \in live /\ l.marks[i].release = cat.release
  BY <1>7, CategoryIsMarked DEF LearnerSound, MarksSound
<1> HIDE DEF top, frozen, cat
<1>10. learner' = learner_after(l, f, cat.release)
  BY <1>1 DEF commit_selection
<1>11. /\ LearnerSound(learner') /\ RecordsFollow(l.records, learner'.records) /\ learner'.cooldown = l.cooldown
       /\ \A y \in learner'.records : y.release # None => y \in l.records
       /\ cat.release # None => \A i \in DOMAIN l.marks : l.marks[i].family = f /\ l.marks[i].release = cat.release =>
                                    learner'.marks[i].consumed
  BY <1>7, <1>10, AfterIsLearner
<1>12. cat.release \in DOMAIN CReleases \cup {None}
  BY <1>7, <1>9 DEF LearnerSound, MarksSound, MarkRow
<1> DEFINE d == [proposal |-> top.proposal, rank |-> cat.rank, asset |-> cat.release, frozen |-> frozen.proposal]
<1>13. d \in Decision /\ d.proposal = top.proposal /\ d.asset = cat.release
  BY <1>2, <1>6, <1>8, <1>12 DEF Decision, ValidityReport
<1>14. cdecided' = Append(cdecided, d) /\ cdecided \in Seq(Decision)
  BY <1>1 DEF commit_selection, CurriculumInv
<1> HIDE DEF d
<1>15. cdecided' \in Seq(Decision) /\ Len(cdecided') = Len(cdecided) + 1 /\ cdecided'[Len(cdecided) + 1] = d
  BY <1>13, <1>14, AppendProperties
<1>16. JobsSound'
  BY <1>1, JobsStay DEF CurriculumInv
<1>17. CurriculumInv'
  BY <1>1, <1>11, <1>15, <1>16 DEF CurriculumInv, Stands, LearnerSound, ValidityReport
<1>18. RecordsFollow(learner.records, learner'.records) /\ learner'.cooldown = learner.cooldown
  BY <1>7, <1>11, FollowsTwice
<1>19. ~quarantined(top.proposal) /\ top \in ValidityReport
  BY <1>2, <1>6 DEF eligible
<1>20. \A x \in learner'.records : x.release # None => creleases[x.release] # "rolled_back"
  BY <1>5, <1>7, <1>11
<1>21. cat.release # None =>
         /\ creleases[cat.release] \in {"active", "superseded"}
         /\ \E i \in DOMAIN learner.marks : /\ learner.marks[i].family = f /\ learner.marks[i].release = cat.release
                                            /\ ~learner.marks[i].consumed /\ learner'.marks[i].consumed
  BY <1>5, <1>7, <1>9, <1>11
<1>22. Selected
  BY <1>12, <1>13, <1>15, <1>19, <1>20, <1>21 DEF Selected
<1> QED BY <1>17, <1>18, <1>22

-----------------------------------------------------------------------------
(* Assets, releases and revocation.                                        *)

\* The records of an applied release are due, and its marks bring them back.
LEMMA AppliedSound ==
    ASSUME CurriculumInv, NEW r \in DOMAIN CReleases, record_applied_asset(r)
    PROVE  CurriculumInv' /\ RecordsFollow(learner.records, learner'.records) /\ learner'.cooldown = learner.cooldown
<1>1. LearnerSound(learner) /\ r \notin learner.assets
  BY LiveStands DEF CurriculumInv, record_applied_asset
<1>2. /\ DOMAIN learner' = LearnerFields /\ learner' = [x \in LearnerFields |-> learner'[x]]
      /\ learner'.snapshot = learner.snapshot + 1 /\ learner'.cooldown = learner.cooldown
      /\ learner'.assets = learner.assets \cup {r} /\ learner'.cycles = learner.cycles
      /\ learner'.records = due_after_asset(learner.records, CReleases[r], r)
      /\ learner'.marks = marks_after_asset(learner.marks, CReleases[r], r)
  BY <1>1 DEF record_applied_asset, LearnerFields, LearnerSound
<1>3. /\ learner.snapshot \in Nat /\ learner.cooldown \in 0..COOLDOWN /\ learner.assets \in SUBSET DOMAIN CReleases
      /\ RecordsSound(learner.records) /\ MarksSound(learner.marks, learner.assets)
      /\ DueIsMarked(learner.records, learner.marks) /\ CyclesSound(learner.cycles, learner.records)
  BY <1>1 DEF LearnerSound
<1>4. RecordsFollow(learner.records, learner'.records)
  BY <1>2, <1>3, DueFollows
<1>5. RecordsSound(learner'.records) /\ CyclesSound(learner'.cycles, learner'.records)
  BY <1>2, <1>3, <1>4, FollowsIsSound, FollowsKeepsCycles
<1>6. /\ MarksSound(learner'.marks, learner'.assets)
      /\ \A i \in DOMAIN learner.marks : i \in DOMAIN learner'.marks /\ learner'.marks[i] = learner.marks[i]
      /\ \A f \in CReleases[r] : \E i \in DOMAIN learner'.marks :
            learner'.marks[i].family = f /\ learner'.marks[i].release = r /\ ~learner'.marks[i].consumed
  <2>1. /\ learner.assets \in SUBSET DOMAIN CReleases /\ MarksSound(learner.marks, learner.assets) /\ r \notin learner.assets
        /\ learner'.marks = marks_after_asset(learner.marks, CReleases[r], r) /\ learner'.assets = learner.assets \cup {r}
    BY <1>1, <1>2, <1>3
  <2>2. AppliedMarks(learner'.marks, learner.marks, learner'.assets, r)
    BY <2>1, MarksAfter
  <2> QED BY <2>2 DEF AppliedMarks
<1>7. ASSUME NEW y \in learner'.records, y.status = "retest_due" PROVE MarkedBy(y, learner'.marks)
  <2>1. PICK x \in learner.records :
          y = IF x.cluster \in CReleases[r] /\ x.status = "active"
              THEN [x EXCEPT !.status = "retest_due", !.release = r] ELSE x
    BY <1>2 DEF due_after_asset
  <2>2. CASE x.cluster \in CReleases[r] /\ x.status = "active"
    <3>1. x \in RecordRow
      BY <1>3 DEF RecordsSound
    <3>2. y.cluster = x.cluster /\ y.release = r
      BY <2>1, <2>2, <3>1 DEF RecordRow
    <3> QED BY <1>6, <2>2, <3>2 DEF MarkedBy
  <2>3. CASE ~(x.cluster \in CReleases[r] /\ x.status = "active")
    <3>1. y = x
      BY <2>1, <2>3
    <3>2. MarkedBy(x, learner.marks)
      BY <1>3, <1>7, <3>1 DEF DueIsMarked
    <3> QED BY <1>6, <3>1, <3>2 DEF MarkedBy
  <2> QED BY <2>2, <2>3
<1>8. learner'.snapshot \in Nat /\ learner'.assets \subseteq DOMAIN CReleases
  BY <1>2, <1>3
<1>9. LearnerSound(learner')
  BY <1>2, <1>3, <1>5, <1>6, <1>7, <1>8 DEF LearnerSound, DueIsMarked
<1>10. JobsSound'
  BY JobsStay DEF record_applied_asset, CurriculumInv
<1>11. CurriculumInv'
  BY <1>9, <1>10 DEF CurriculumInv, record_applied_asset, Stands, LearnerSound, ValidityReport
<1> QED BY <1>2, <1>4, <1>11

\* Release control and a revocation leave the learner as it is.
LEMMA ReleasesSound ==
    ASSUME CurriculumInv,
           \/ \E r \in DOMAIN CReleases : activate_release(r) \/ roll_back(r)
           \/ curriculum_revoke
           \/ UNCHANGED cvars
    PROVE  CurriculumInv' /\ UNCHANGED <<learner, cjobs, ckeys, cdecided>>
<1>1. UNCHANGED <<learner, cjobs, ckeys, cproposals, creports, cdecided>>
  BY DEF activate_release, roll_back, curriculum_revoke, cvars
<1>2. cwater' \in Nat
  BY DEF activate_release, roll_back, curriculum_revoke, cvars, CurriculumInv
<1>3. JobsSound'
  BY <1>1, JobsStay DEF CurriculumInv
<1> QED BY <1>1, <1>2, <1>3 DEF CurriculumInv, Stands, LearnerSound, ValidityReport

LEMMA RedactSound ==
    ASSUME CurriculumInv, redact_learner
    PROVE  CurriculumInv'
<1>1. JobsSound'
  BY JobsStay DEF redact_learner, CurriculumInv
<1> QED BY <1>1 DEF CurriculumInv, redact_learner, Stands, ValidityReport

-----------------------------------------------------------------------------
(* Every step.                                                             *)

EvidenceKept ==
    (Stands /\ learner' # CTombstone) =>
      \A x \in learner.records : \E y \in learner'.records :
        Evidence(y) = Evidence(x) /\ (x.status = "resolved" => y = x)

CooldownStarts ==
    (Stands /\ learner' # CTombstone /\ learner'.cooldown > learner.cooldown) =>
      learner.cooldown = 0 /\ \E t \in DOMAIN cjobs' \ DOMAIN cjobs : Triggered(t)

KeyKept == \A k \in CKeys : ckeys[k] # None => ckeys'[k] = ckeys[k] /\ ckeys[k].job \in DOMAIN cjobs'

CurriculumStepRight ==
    /\ CurriculumInv' /\ EvidenceKept /\ CooldownStarts /\ KeyKept
    /\ cdecided' = cdecided \/ Selected

LEMMA FollowsKeepsEvidence ==
    ASSUME NEW R, NEW S, RecordsFollow(R, S)
    PROVE  \A x \in R : \E y \in S : Evidence(y) = Evidence(x) /\ (x.status = "resolved" => y = x)
  BY Zenon DEF RecordsFollow, Moved

\* A step that keeps the keys and adds no cooldown.
LEMMA StillCool ==
    ASSUME CurriculumInv, Stands => learner' = CTombstone \/ learner'.cooldown = learner.cooldown
    PROVE  CooldownStarts
<1>1. Stands => learner.cooldown \in Int
  BY CurriculumShape DEF CurriculumInv, LearnerSound
<1> QED BY <1>1 DEF CooldownStarts

LEMMA KeysStay ==
    ASSUME CurriculumInv, UNCHANGED <<ckeys, cjobs>>
    PROVE  KeyKept
  BY ReceiptsGrow DEF KeyKept

LEMMA SameLearner ==
    ASSUME CurriculumInv, UNCHANGED learner
    PROVE  EvidenceKept /\ CooldownStarts
<1>1. CooldownStarts
  BY StillCool
<1> QED BY <1>1 DEF EvidenceKept

LEMMA CurriculumStep == CurriculumInv /\ [curriculum_next]_cvars => CurriculumStepRight
<1> SUFFICES ASSUME CurriculumInv, [curriculum_next]_cvars PROVE CurriculumStepRight
  OBVIOUS
<1>1. CASE register_learner
  <2>1. ~Stands /\ UNCHANGED <<cjobs, ckeys, cdecided>>
    BY <1>1 DEF register_learner, Stands
  <2> QED BY <1>1, <2>1, RegisterSound, KeysStay DEF CurriculumStepRight, EvidenceKept, CooldownStarts
<1>2. CASE \E c \in DOMAIN CCycles : record_cycle(c)
  <2>1. PICK c \in DOMAIN CCycles : record_cycle(c)
    BY <1>2
  <2>2. UNCHANGED <<cjobs, ckeys, cdecided>>
    BY <2>1 DEF record_cycle
  <2>3. LearnerSound(learner)
    BY <2>1, LiveStands DEF CurriculumInv, record_cycle
  <2>4. learner'.cooldown = IF learner.cooldown = 0 THEN 0 ELSE learner.cooldown - 1
    BY <2>1, <2>3 DEF record_cycle, LearnerSound, LearnerFields
  <2>5. CooldownStarts
    BY <2>3, <2>4, CurriculumShape DEF LearnerSound, CooldownStarts
  <2> QED BY <2>1, <2>2, <2>5, RecordSound, KeysStay DEF CurriculumStepRight, EvidenceKept
<1>3. CASE \E b \in CBudgets : schedule_probe(b) \/ \E k \in CKeys : schedule_probe_idempotent(k, b)
  <2>1. CurriculumInv' /\ Scheduled
    BY <1>3, ScheduleSound, ScheduleAgainSound
  <2>2. cdecided' = cdecided
    BY <1>3 DEF schedule_probe, schedule_probe_idempotent
  <2> QED BY <2>1, <2>2, Zenon DEF Scheduled, CurriculumStepRight, EvidenceKept, CooldownStarts, KeyKept
<1>4. CASE \E p \in DOMAIN CProposals :
             \/ \E t \in DOMAIN cjobs : store_proposal(p, t)
             \/ \E v \in {"verified", "quarantined", "unavailable"} : record_validity_report(p, v)
  <2>1. CurriculumInv'
    BY <1>4, ProposalSound, ReportSound
  <2>2. UNCHANGED <<learner, cjobs, ckeys, cdecided>>
    BY <1>4 DEF store_proposal, record_validity_report
  <2> QED BY <2>1, <2>2, SameLearner, KeysStay DEF CurriculumStepRight
<1>5. CASE \E offered \in SUBSET creports : select_next_task(offered)
  <2>1. PICK offered \in SUBSET creports : select_next_task(offered)
    BY <1>5
  <2>2. UNCHANGED <<cjobs, ckeys>>
    BY <2>1 DEF select_next_task
  <2>3. CurriculumInv' /\ Selected /\ RecordsFollow(learner.records, learner'.records) /\ learner'.cooldown = learner.cooldown
    BY <2>1, SelectSound
  <2>4. EvidenceKept /\ CooldownStarts
    BY <2>3, FollowsKeepsEvidence, StillCool DEF EvidenceKept
  <2> QED BY <2>2, <2>3, <2>4, KeysStay DEF CurriculumStepRight
<1>6. CASE \E r \in DOMAIN CReleases : record_applied_asset(r)
  <2>1. PICK r \in DOMAIN CReleases : record_applied_asset(r)
    BY <1>6
  <2>2. UNCHANGED <<cjobs, ckeys, cdecided>>
    BY <2>1 DEF record_applied_asset
  <2>3. CurriculumInv' /\ RecordsFollow(learner.records, learner'.records) /\ learner'.cooldown = learner.cooldown
    BY <2>1, AppliedSound
  <2>4. EvidenceKept /\ CooldownStarts
    BY <2>3, FollowsKeepsEvidence, StillCool DEF EvidenceKept
  <2> QED BY <2>2, <2>3, <2>4, KeysStay DEF CurriculumStepRight
<1>7. CASE \/ \E r \in DOMAIN CReleases : activate_release(r) \/ roll_back(r)
           \/ curriculum_revoke
           \/ UNCHANGED cvars
  <2>1. CurriculumInv' /\ UNCHANGED <<learner, cjobs, ckeys, cdecided>>
    BY <1>7, ReleasesSound
  <2> QED BY <2>1, SameLearner, KeysStay DEF CurriculumStepRight
<1>8. CASE redact_learner
  <2>1. learner' = CTombstone /\ UNCHANGED <<cjobs, ckeys, cdecided>>
    BY <1>8 DEF redact_learner
  <2> QED BY <1>8, <2>1, RedactSound, KeysStay DEF CurriculumStepRight, EvidenceKept, CooldownStarts
<1> QED BY <1>1, <1>2, <1>3, <1>4, <1>5, <1>6, <1>7, <1>8, Zenon DEF curriculum_next

LEMMA CurriculumInvIsSafe == CurriculumInv => CurriculumSafe
<1> SUFFICES ASSUME CurriculumInv PROVE CurriculumSafe
  OBVIOUS
<1>1. ASSUME Stands PROVE ValidLearner
  BY <1>1 DEF CurriculumInv, LearnerSound, RecordsSound, MarksSound, ValidLearner
<1>2. CurriculumTypeOK
  BY <1>1 DEF CurriculumInv, JobsSound, CurriculumTypeOK
<1>3. FailuresStand
  BY Zenon DEF CurriculumInv, LearnerSound, CyclesSound, FailuresOf, FailuresStand
<1>4. DueHasItsMark
  BY Zenon DEF CurriculumInv, LearnerSound, DueIsMarked, MarkedBy, DueHasItsMark
<1> QED BY <1>2, <1>3, <1>4 DEF CurriculumSafe

\* Whatever cycles, applied releases, choices, roll backs and revocations come in
\* between: a family has an open failure record just when the last verified cycle
\* that covered it failed, an open regression just when that cycle passed with a
\* loss, and a record that waits for a retest has the mark that brings it back.
THEOREM CurriculumIsSafe == CurriculumSpec => []CurriculumSafe
<1>1. CurriculumInv /\ [curriculum_next]_cvars => CurriculumInv'
  BY CurriculumStep DEF CurriculumStepRight
<1> QED BY <1>1, InitSound, CurriculumInvIsSafe, PTL DEF CurriculumSpec

\* No record loses its evidence, a choice answers to a release in force and uses its
\* mark up, none falls on a quarantined proposal, a cooldown starts with a new
\* triggered job and never while one runs, and a key keeps its job.
THEOREM CurriculumStands ==
    CurriculumSpec => EvidenceIsKept /\ RetestIsOneShot /\ QuarantineWins /\ CooldownStartsOnce /\ KeyKeepsItsJob
<1>1. CurriculumInv /\ [curriculum_next]_cvars => CurriculumInv'
  BY CurriculumStep DEF CurriculumStepRight
<1>2. CurriculumInv /\ [curriculum_next]_cvars =>
        [(Stands /\ learner' # CTombstone) =>
           \A x \in learner.records : \E y \in learner'.records :
             Evidence(y) = Evidence(x) /\ (x.status = "resolved" => y = x)]_cvars
  BY CurriculumStep, Zenon DEF CurriculumStepRight, EvidenceKept
<1>3. CurriculumInv /\ [curriculum_next]_cvars =>
        [LET n == Len(cdecided) IN
         Len(cdecided') > n =>
           LET d == cdecided'[n + 1]
               Mark(l, i) == l.marks[i].family = CProposals[d.proposal].family /\ l.marks[i].release = d.asset
           IN /\ d.asset # None => /\ creleases[d.asset] \in {"active", "superseded"}
                                   /\ \E i \in DOMAIN learner.marks :
                                        Mark(learner, i) /\ ~learner.marks[i].consumed /\ learner'.marks[i].consumed
              /\ \A x \in learner'.records : x.release # None => creleases[x.release] # "rolled_back"]_cvars
  BY CurriculumStep DEF CurriculumStepRight, CurriculumInv, Selected
<1>4. CurriculumInv /\ [curriculum_next]_cvars =>
        [Len(cdecided') > Len(cdecided) => ~quarantined(cdecided'[Len(cdecided')].proposal)]_cvars
  BY CurriculumStep DEF CurriculumStepRight, CurriculumInv, Selected
<1>5. CurriculumInv /\ [curriculum_next]_cvars =>
        [(Stands /\ learner' # CTombstone /\ learner'.cooldown > learner.cooldown) =>
           learner.cooldown = 0 /\ \E t \in DOMAIN cjobs' \ DOMAIN cjobs : Triggered(t)]_cvars
  BY CurriculumStep, Zenon DEF CurriculumStepRight, CooldownStarts
<1>6. CurriculumInv /\ [curriculum_next]_cvars =>
        [\A k \in CKeys : ckeys[k] # None => ckeys'[k] = ckeys[k] /\ ckeys[k].job \in DOMAIN cjobs']_cvars
  BY CurriculumStep, Zenon DEF CurriculumStepRight, KeyKept
<1>7. CurriculumSpec => []CurriculumInv
  BY <1>1, InitSound, PTL DEF CurriculumSpec
<1>8. CurriculumSpec => EvidenceIsKept
  BY <1>2, <1>7, PTL DEF CurriculumSpec, EvidenceIsKept
<1>9. CurriculumSpec => RetestIsOneShot
  BY <1>3, <1>7, PTL DEF CurriculumSpec, RetestIsOneShot
<1>10. CurriculumSpec => QuarantineWins
  BY <1>4, <1>7, PTL DEF CurriculumSpec, QuarantineWins
<1>11. CurriculumSpec => CooldownStartsOnce
  BY <1>5, <1>7, PTL DEF CurriculumSpec, CooldownStartsOnce
<1>12. CurriculumSpec => KeyKeepsItsJob
  BY <1>6, <1>7, PTL DEF CurriculumSpec, KeyKeepsItsJob
<1> QED BY <1>8, <1>9, <1>10, <1>11, <1>12, PTL

=============================================================================
