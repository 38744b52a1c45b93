--------------------------- MODULE CleanupProofs ---------------------------
(***************************************************************************)
(* What the cleanup of a revoked source guarantees, proved for every graph *)
(* of objects, calls and tickets, every page limit and any number of jobs. *)
(***************************************************************************)
EXTENDS Cleanup, Induction

-----------------------------------------------------------------------------
(* The closure of a set of nodes.                                          *)

Closed(M, E) == \A e \in E : e[1] \in M => e[2] \in M

Widened(M, E) == M \cup {e[2] : e \in {d \in E : d[1] \in M}}

\* up is the iteration of Closure on the numbers up to k.
Iterates(up, N, E, k) ==
    up = [i \in 0..k |-> IF i = 0 THEN N ELSE Widened(up[i - 1], E)]

\* The closure is the last of the iterated sets.
LEMMA ClosureIsIterate ==
    ASSUME NEW N, NEW E
    PROVE  Closure(N, E) = (CHOOSE up : Iterates(up, N, E, Cardinality(Nodes)))[Cardinality(Nodes)]
<1>1. \A x, y : (CHOOSE w \in {v \cup {e[2] : e \in {d \in E : d[1] \in v}} : v \in {x}} : TRUE)
                = x \cup {e[2] : e \in {d \in E : d[1] \in x}}
  OBVIOUS
<1> QED BY <1>1, ZenonT(60) DEF Closure, Iterates, Widened, Pass

\* There are finitely many nodes, so the iteration has an end.
LEMMA NodesFinite == IsFiniteSet(Nodes) /\ Cardinality(Nodes) \in Nat
  BY CleanupShape, FS_CardinalityType

\* The iteration exists, whatever its length.
LEMMA IteratesExist ==
    ASSUME NEW N, NEW E, NEW k \in Nat
    PROVE  \E up : Iterates(up, N, E, k)
<1> DEFINE S == {i \in Nat : \E up : Iterates(up, N, E, i)}
<1>1. 0 \in S
  <2> DEFINE up == [i \in 0..0 |-> N]
  <2>1. \A i \in 0..0 : (IF i = 0 THEN N ELSE Widened(up[i - 1], E)) = N
    OBVIOUS
  <2>2. Iterates(up, N, E, 0)
    BY <2>1 DEF Iterates
  <2> QED BY <2>2
<1>2. \A i \in S : i + 1 \in S
  <2> TAKE i \in S
  <2>1. PICK up : Iterates(up, N, E, i)
    OBVIOUS
  <2> DEFINE next == [j \in 0..(i + 1) |-> IF j = i + 1 THEN Widened(up[i], E) ELSE up[j]]
             body(j) == IF j = 0 THEN N ELSE Widened(next[j - 1], E)
  <2>2. i \in Nat
    OBVIOUS
  <2>3. \A j \in 0..(i + 1) : next[j] = body(j)
    <3> TAKE j \in 0..(i + 1)
    <3>1. CASE j = 0
      BY <2>1, <2>2, <3>1 DEF Iterates
    <3>2. CASE j = i + 1
      <4>1. j - 1 = i /\ i \in 0..(i + 1) /\ i # i + 1 /\ j # 0
        BY <2>2, <3>2
      <4>2. next[i] = up[i] /\ next[j] = Widened(up[i], E)
        BY <4>1, <3>2
      <4> QED BY <4>1, <4>2
    <3>3. CASE j # 0 /\ j # i + 1
      <4>1. j \in 0..i /\ j - 1 \in 0..(i + 1) /\ j - 1 # i + 1
        BY <2>2, <3>3
      <4>2. next[j] = up[j] /\ next[j - 1] = up[j - 1]
        BY <4>1, <3>3
      <4>3. up[j] = Widened(up[j - 1], E)
        BY <2>1, <4>1, <3>3 DEF Iterates
      <4> QED BY <4>2, <4>3, <3>3
    <3> QED BY <3>1, <3>2, <3>3
  <2>4. next = [j \in 0..(i + 1) |-> body(j)]
    BY <2>3
  <2>5. Iterates(next, N, E, i + 1)
    BY <2>4 DEF Iterates
  <2> HIDE DEF next, body
  <2> QED BY <2>2, <2>5
<1>3. S = Nat
  <2> HIDE DEF S
  <2>1. S \in SUBSET Nat
    BY DEF S
  <2> QED BY <1>1, <1>2, <2>1, AllNaturals
<1> QED BY <1>3

\* The iteration itself, by its steps.
LEMMA ClosureSteps ==
    ASSUME NEW N, NEW E
    PROVE  \E up : /\ Closure(N, E) = up[Cardinality(Nodes)]
                   /\ up[0] = N
                   /\ \A i \in Nat : i < Cardinality(Nodes) => up[i + 1] = Widened(up[i], E)
<1> DEFINE k == Cardinality(Nodes)
           up == CHOOSE f : Iterates(f, N, E, k)
<1>1. k \in Nat
  BY NodesFinite
<1>2. Iterates(up, N, E, k)
  BY <1>1, IteratesExist
<1>3. Closure(N, E) = up[k]
  BY ClosureIsIterate
<1> HIDE DEF up
<1>4. up[0] = N
  BY <1>1, <1>2 DEF Iterates
<1>5. \A i \in Nat : i < k => up[i + 1] = Widened(up[i], E)
  <2> TAKE i \in Nat
  <2> HAVE i < k
  <2>1. i + 1 \in 0..k /\ i + 1 # 0 /\ (i + 1) - 1 = i
    BY <1>1
  <2> QED BY <1>2, <2>1 DEF Iterates
<1> QED BY <1>3, <1>4, <1>5

\* The closure lies in every closed set that holds its nodes.
LEMMA ClosureLeast ==
    ASSUME NEW N, NEW E, NEW M, N \subseteq M, Closed(M, E)
    PROVE  Closure(N, E) \subseteq M
<1> DEFINE k == Cardinality(Nodes)
<1>0. k \in Nat
  BY NodesFinite
<1>1. PICK up : /\ Closure(N, E) = up[k] /\ up[0] = N
                /\ \A i \in Nat : i < k => up[i + 1] = Widened(up[i], E)
  BY ClosureSteps
<1> DEFINE S == {i \in Nat : i <= k => up[i] \subseteq M}
<1>2. 0 \in S
  BY <1>1
<1>3. \A i \in S : i + 1 \in S
  <2> TAKE i \in S
  <2>1. CASE i < k
    <3>1. i <= k
      BY <1>0, <2>1
    <3>2. up[i] \subseteq M /\ up[i + 1] = Widened(up[i], E)
      BY <1>1, <2>1, <3>1
    <3>3. up[i + 1] \subseteq M
      BY <3>2 DEF Widened, Closed
    <3> QED BY <3>3
  <2>2. CASE ~ (i < k)
    <3>1. ~ (i + 1 <= k)
      BY <1>0, <2>2
    <3> QED BY <3>1
  <2> QED BY <2>1, <2>2
<1>4. S = Nat
  <2> HIDE DEF S
  <2>1. S \in SUBSET Nat
    BY DEF S
  <2> QED BY <1>2, <1>3, <2>1, AllNaturals
<1>5. up[k] \subseteq M
  BY <1>0, <1>4
<1> QED BY <1>1, <1>5

\* The closure holds its nodes, and is closed.
LEMMA ClosureClosed ==
    ASSUME NEW N \in SUBSET Nodes, NEW E \in SUBSET (Nodes \X Nodes)
    PROVE  /\ N \subseteq Closure(N, E) /\ Closure(N, E) \subseteq Nodes
           /\ Closed(Closure(N, E), E)
<1> DEFINE k == Cardinality(Nodes)
<1>0. k \in Nat /\ IsFiniteSet(Nodes)
  BY NodesFinite
<1>1. PICK up : /\ Closure(N, E) = up[k] /\ up[0] = N
                /\ \A i \in Nat : i < k => up[i + 1] = Widened(up[i], E)
  BY ClosureSteps
<1> DEFINE Right(i) == /\ N \subseteq up[i] /\ up[i] \subseteq Nodes
                       /\ Closed(up[i], E) \/ Cardinality(up[i]) >= i
           S == {i \in Nat : i <= k => Right(i)}
<1>2. 0 \in S
  <2>1. IsFiniteSet(N)
    BY <1>0, FS_Subset
  <2>2. Cardinality(N) \in Nat
    BY <2>1, FS_CardinalityType
  <2>3. Cardinality(up[0]) >= 0
    BY <1>1, <2>2
  <2> QED BY <1>1, <2>3
<1>3. \A i \in S : i + 1 \in S
  <2> TAKE i \in S
  <2>1. CASE i < k
    <3>1. i \in Nat /\ i <= k
      BY <1>0, <2>1
    <3>2. Right(i) /\ up[i + 1] = Widened(up[i], E)
      BY <1>1, <2>1, <3>1
    <3> DEFINE u == up[i]
               v == up[i + 1]
    <3>3. u \subseteq v /\ v \subseteq Nodes /\ N \subseteq v
      BY <3>2 DEF Widened
    <3>4. CASE Closed(u, E)
      <4>1. v = u
        BY <3>2, <3>4 DEF Closed, Widened
      <4> QED BY <3>3, <3>4, <4>1
    <3>5. CASE ~ Closed(u, E)
      <4>1. v # u
        BY <3>2, <3>5 DEF Closed, Widened
      <4>2. IsFiniteSet(v) /\ IsFiniteSet(u)
        BY <1>0, <3>3, FS_Subset
      <4>3. Cardinality(u) \in Nat /\ Cardinality(v) \in Nat /\ Cardinality(u) < Cardinality(v)
        BY <3>3, <4>1, <4>2, FS_CardinalityType, FS_Subset
      <4>4. Cardinality(v) >= i + 1
        BY <3>1, <3>2, <3>5, <4>3
      <4> QED BY <3>3, <4>4
    <3> QED BY <3>4, <3>5
  <2>2. CASE ~ (i < k)
    <3>1. ~ (i + 1 <= k)
      BY <1>0, <2>2
    <3> QED BY <3>1
  <2> QED BY <2>1, <2>2
<1>4. S = Nat
  <2> HIDE DEF S
  <2>1. S \in SUBSET Nat
    BY DEF S
  <2> QED BY <1>2, <1>3, <2>1, AllNaturals
<1>5. Right(k)
  BY <1>0, <1>4
<1>6. ASSUME Cardinality(up[k]) >= k PROVE Closed(up[k], E)
  <2>1. up[k] \subseteq Nodes
    BY <1>5
  <2>2. Cardinality(up[k]) \in Nat /\ IsFiniteSet(up[k])
    BY <1>0, <2>1, FS_CardinalityType, FS_Subset
  <2>3. up[k] = Nodes
    BY <1>0, <1>6, <2>1, <2>2, FS_Subset
  <2> QED BY <2>3 DEF Closed
<1> QED BY <1>1, <1>5, <1>6

-----------------------------------------------------------------------------
(* Pages of a finite set of keys.                                          *)

\* A finite set of naturals has a greatest member.
LEMMA GreatestNatural ==
    ASSUME NEW K \in SUBSET Nat, IsFiniteSet(K), K # {}
    PROVE  \E k \in K : \A m \in K : m <= k
<1> DEFINE HasGreatest(L) == \E k \in L : \A m \in L : m <= k
           S == {n \in Nat : \A L \in SUBSET Nat :
                    IsFiniteSet(L) /\ L # {} /\ Cardinality(L) = n => HasGreatest(L)}
<1>1. 0 \in S
  BY FS_EmptySet
<1>2. \A n \in S : n + 1 \in S
  <2> TAKE n \in S
  <2> SUFFICES ASSUME NEW L \in SUBSET Nat, IsFiniteSet(L), L # {}, Cardinality(L) = n + 1
               PROVE  HasGreatest(L)
    OBVIOUS
  <2> DEFINE x == Pick(L)
             R == L \ {x}
  <2>1. x \in L /\ x \in Nat /\ R \in SUBSET Nat
    BY PickIsMember
  <2>2. IsFiniteSet(R) /\ Cardinality(R) = n
    BY PickedIsSmaller
  <2>3. CASE R = {}
    <3>1. \A m \in L : m = x
      BY <2>3
    <3> QED BY <2>1, <3>1
  <2>4. CASE R # {}
    <3>1. PICK k \in R : \A m \in R : m <= k
      BY <2>1, <2>2, <2>4
    <3>2. \A m \in L : m = x \/ m \in R
      OBVIOUS
    <3>3. CASE x <= k
      BY <3>1, <3>2, <3>3
    <3>4. CASE ~ (x <= k)
      <4>1. \A m \in R : m <= x
        BY <2>1, <3>1, <3>4
      <4> QED BY <2>1, <3>2, <4>1
    <3> QED BY <3>3, <3>4
  <2> QED BY <2>3, <2>4
<1>3. S = Nat
  <2> HIDE DEF S
  <2>1. S \in SUBSET Nat
    BY DEF S
  <2> QED BY <1>1, <1>2, <2>1, AllNaturals
<1>4. Cardinality(K) \in Nat
  BY FS_CardinalityType
<1> QED BY <1>3, <1>4

\* LastOf picks it.
LEMMA LastOfIsGreatest ==
    ASSUME NEW K \in SUBSET Nat, IsFiniteSet(K), K # {}
    PROVE  LastOf(K) \in K /\ \A m \in K : m <= LastOf(K)
  BY GreatestNatural DEF LastOf

\* A page is the part of the rest up to its last key, which is all of it when there
\* is no more, and holds a key when there is one.
LEMMA PageFacts ==
    ASSUME NEW K \in SUBSET Nat, IsFiniteSet(K), NEW cursor \in Nat, NEW limit \in Nat \ {0}
    PROVE  /\ Page(K, cursor, limit) \subseteq After(K, cursor)
           /\ ~HasMore(K, cursor, limit) => Page(K, cursor, limit) = After(K, cursor)
           /\ After(K, cursor) # {} =>
                 /\ Page(K, cursor, limit) # {}
                 /\ LastOf(Page(K, cursor, limit)) \in Page(K, cursor, limit)
                 /\ \A k \in After(K, cursor) :
                       k <= LastOf(Page(K, cursor, limit)) => k \in Page(K, cursor, limit)
                 /\ \A k \in Page(K, cursor, limit) : k <= LastOf(Page(K, cursor, limit))
<1> DEFINE rest == After(K, cursor)
           upto(k) == {m \in rest : m <= k}
           P == {k \in rest : Cardinality(upto(k)) <= limit}
<1>1. Page(K, cursor, limit) = P
  BY DEF Page
<1>2. rest \in SUBSET Nat /\ IsFiniteSet(rest) /\ Cardinality(rest) \in Nat
  BY FS_Subset, FS_CardinalityType DEF After
<1>3. \A k \in rest : /\ IsFiniteSet(upto(k)) /\ Cardinality(upto(k)) \in Nat
                      /\ Cardinality(upto(k)) <= Cardinality(rest)
  <2> TAKE k \in rest
  <2>1. upto(k) \in SUBSET rest
    OBVIOUS
  <2> QED BY <1>2, <2>1, FS_Subset, FS_CardinalityType
<1>4. ~HasMore(K, cursor, limit) => P = rest
  <2> HAVE ~HasMore(K, cursor, limit)
  <2>1. Cardinality(rest) <= limit
    BY <1>2 DEF HasMore
  <2>2. \A k \in rest : Cardinality(upto(k)) <= limit
    BY <1>2, <1>3, <2>1
  <2> QED BY <2>2
<1>5. ASSUME rest # {}
      PROVE  /\ P # {} /\ LastOf(P) \in P
             /\ \A k \in rest : k <= LastOf(P) => k \in P
             /\ \A k \in P : k <= LastOf(P)
  <2>1. PICK x \in rest : \A y \in rest : x <= y
    BY <1>2, <1>5, LeastNatural
  <2>2. upto(x) = {x}
    BY <1>2, <2>1
  <2>3. Cardinality(upto(x)) = 1
    BY <2>2, FS_Singleton
  <2>4. x \in P
    BY <2>1, <2>3
  <2>5. P \in SUBSET Nat /\ IsFiniteSet(P)
    BY <1>2, FS_Subset
  <2>6. LastOf(P) \in P /\ \A k \in P : k <= LastOf(P)
    <3> HIDE DEF P
    <3> QED BY <2>4, <2>5, LastOfIsGreatest
  <2>7. ASSUME NEW k \in rest, k <= LastOf(P) PROVE k \in P
    <3> DEFINE l == LastOf(P)
    <3>1. l \in rest /\ Cardinality(upto(l)) <= limit /\ l \in Nat /\ k \in Nat
      BY <1>2, <2>6
    <3> HIDE DEF l
    <3>2. k <= l
      BY <2>7 DEF l
    <3>3. upto(k) \in SUBSET upto(l)
      BY <1>2, <3>1, <3>2
    <3>4. Cardinality(upto(k)) <= Cardinality(upto(l))
      BY <1>3, <3>1, <3>3, FS_Subset
    <3> QED BY <1>3, <3>1, <3>4
  <2> QED BY <2>4, <2>6, <2>7
<1> QED BY <1>1, <1>4, <1>5

-----------------------------------------------------------------------------
(* The invariant.  It is stated of a database, and of a job in it, so that *)
(* it can be asked of every intermediate value of a transaction.           *)

Frontiers == UNION {[H -> Row] : H \in SUBSET RowKeys}

Transaction == [db : Database, disk : [Nodes -> Trees], state : JobStates, rows : Frontiers]

StoredIn(d) == d.content \cup d.redacted

WrittenEdges == UNION {EdgesOf(m) : m \in Nodes}

StaticEdges == WrittenEdges \cup UNION {IndexEdges(c) : c \in Calls}

\* Edges are those the objects and calls declare, and come from stored objects; a
\* legacy call that was redacted has its edges, an E16 call its reference; facts and
\* references are never redacted; what was there from the start is still stored.
DatabaseSound(d) ==
    /\ d.content \cap d.redacted = {}
    /\ d.requests \subseteq d.calls
    /\ \A e \in d.deps : e \in StaticEdges /\ e[1] \in StoredIn(d)
    /\ \A c \in d.calls : IF Mode[c] = "e16" THEN RefOf[c] \in StoredIn(d)
                          ELSE c \in d.requests \/ IndexEdges(c) \subseteq d.deps
    /\ \A n \in d.redacted : Class[n] \notin {"fact", "ref"}
    /\ Historical \subseteq StoredIn(d)

NodeClean(d, k, n) ==
    /\ n \in d.content => Class[n] \in {"fact", "ref"}
    /\ n \notin d.reply
    /\ Class[n] = "export" => k[n] = "none"

HeldNodes(t) == Held(t) \cap Nodes

\* The scans and the source are held, and only stored objects, no other source among
\* them.
HoldsStored(s, t) ==
    /\ {s, BudgetScan, WorldScan} \subseteq Held(t)
    /\ HeldNodes(t) \subseteq StoredIn(t.db)
    /\ HeldNodes(t) \cap Sources \subseteq {s}

\* Nodes whose last page was read are clean, unless the job has failed.
ExpandedClean(t) ==
    t.state # "failed" =>
        \A n \in HeldNodes(t) : t.rows[n].expanded => NodeClean(t.db, t.disk, n)

\* A world over the source is held, or the scan has yet to come to it.
WorldsFound(s, t) ==
    \A n \in t.db.content :
        Class[n] = "world" /\ s \in Upstream[n] =>
            n \in Held(t) \/ (~t.rows[WorldScan].expanded /\ n > t.rows[WorldScan].cursor)

\* The report of a ticket that the ticket scan has passed is held.
ReportsFound(t) ==
    TicketScan \in Held(t) =>
        \A n \in HeldNodes(t) \cap Tickets :
            t.rows[n].at <= t.rows[TicketScan].cursor => ReportOf[n] \in Held(t)

\* New rows come after all others, and after the cursor of the ticket scan.
SeqsInRange(t) ==
    /\ \A n \in Held(t) : t.rows[n].at > 0 /\ t.rows[n].at <= Cardinality(Held(t))
    /\ TicketScan \in Held(t) => t.rows[TicketScan].cursor <= Cardinality(Held(t))

JobSound(s, t) ==
    /\ s \in t.db.tombstone
    /\ HoldsStored(s, t)
    /\ ExpandedClean(t)
    /\ WorldsFound(s, t)
    /\ ReportsFound(t)
    /\ SeqsInRange(t)

ReportEdges(d) == {<<ReportOf[n], n>> : n \in {m \in d.content : ReportOf[m] # 0 /\ ReportOf[m] \in StoredIn(d)}}
WorldEdges(d) == UNION {EdgesOf(n) : n \in {m \in d.content : Class[m] = "world"}}
CallEdges(d) == UNION {IndexEdges(c) : c \in d.calls}

EdgesIn(d) == d.deps \cup ReportEdges(d) \cup WorldEdges(d) \cup CallEdges(d)

\* The edges that stay whatever is redacted.
LastingEdges(d) == d.deps \cup ReportEdges(d) \cup CallEdges(d)

Back(M, E) == \A e \in E : e[2] \in M => e[1] \in M

\* Every node held is derived from the source over the edges E.
ReachedOver(s, H, E) == \A M \in SUBSET Nodes : s \in M /\ Back(M, E) => H \subseteq M

\* What a job holds is derived from its source, and by edges alone where every
\* writer judges its sources.
HeldIsDerived(s, t) ==
    /\ ReachedOver(s, HeldNodes(t), LastingEdges(t.db))
    /\ s \in GatedSources => ReachedOver(s, HeldNodes(t), t.db.deps)

\* Nothing derived from the source is outside of the frontier, and no call keeps its
\* request.
Settled(s, t) ==
    /\ \A n \in HeldNodes(t) : t.rows[n].expanded
    /\ Back(HeldNodes(t), EdgesIn(t.db))
    /\ \A c \in t.db.requests : s \notin Named[c] /\ (Mode[c] = "e16" => Named[c] \cap HeldNodes(t) = {})

\* The job of s in a state of the store, as a step of it begins.
TxOf(d, k, j, s) == [db |-> d, disk |-> k, state |-> j[s].state, rows |-> j[s].rows]

StoreInv(d, k, j) ==
    /\ d \in Database /\ k \in [Nodes -> Trees]
    /\ j \in [Sources -> [state : JobStates, rows : Frontiers]]
    /\ DatabaseSound(d)
    /\ \A s \in Sources : j[s].state # "none" =>
          JobSound(s, TxOf(d, k, j, s)) /\ HeldIsDerived(s, TxOf(d, k, j, s))
    /\ \A s \in GatedSources : j[s].state = "complete" => Settled(s, TxOf(d, k, j, s))

CleanupInv == StoreInv(db, disk, job)

-----------------------------------------------------------------------------
(* Facts about the constants, one use at a time.                           *)

\* What the shape of the constants says of nodes and row keys.
LEMMA NodeKeys ==
    /\ Nodes \in SUBSET Nat /\ Sources \subseteq Nodes /\ RowKeys \in SUBSET Int
    /\ BudgetScan \in RowKeys \ Nodes /\ WorldScan \in RowKeys \ Nodes /\ TicketScan \in RowKeys \ Nodes
    /\ BudgetScan # WorldScan /\ BudgetScan # TicketScan /\ WorldScan # TicketScan
    /\ \A n \in Nodes : n > 0 /\ n \in RowKeys /\ Class[n] \in Classes /\ Upstream[n] \in SUBSET Nodes
  BY CleanupShape DEF RowKeys, BudgetScan, WorldScan, TicketScan

\* A frontier is finite.
LEMMA KeysFinite ==
    /\ IsFiniteSet(RowKeys)
    /\ \A H \in SUBSET RowKeys : IsFiniteSet(H) /\ Cardinality(H) \in Nat
<1>1. IsFiniteSet({BudgetScan, WorldScan, TicketScan})
  <2>1. IsFiniteSet({BudgetScan}) /\ IsFiniteSet({WorldScan}) /\ IsFiniteSet({TicketScan})
    BY FS_Singleton
  <2>2. {BudgetScan, WorldScan, TicketScan} = {BudgetScan} \cup ({WorldScan} \cup {TicketScan})
    OBVIOUS
  <2>3. IsFiniteSet({WorldScan} \cup {TicketScan})
    BY <2>1, FS_Union
  <2>4. IsFiniteSet({BudgetScan} \cup ({WorldScan} \cup {TicketScan}))
    BY <2>1, <2>3, FS_Union
  <2> QED BY <2>2, <2>4
<1>2. IsFiniteSet(RowKeys)
  BY <1>1, NodesFinite, FS_Union DEF RowKeys
<1> QED BY <1>2, FS_Subset, FS_CardinalityType

\* What it says of calls.
LEMMA CallKeys ==
    /\ Calls \in SUBSET (Nat \ {0}) /\ IsFiniteSet(Calls)
    /\ \A c \in Calls : /\ RefOf[c] \in Nodes /\ Named[c] \in SUBSET Nodes
                        /\ Mode[c] \in {"legacy", "e16"}
  BY CleanupShape

\* A source has no upstream.
LEMMA SourceFacts ==
    \A s \in Sources : s \in Nodes /\ Upstream[s] = {} /\ Class[s] # "world" /\ Class[s] # "ref"
  BY CleanupShape, CleanupGraph

\* A reference belongs to one call, and nothing depends on it.
LEMMA RefFacts ==
    /\ \A c \in Calls : /\ Class[RefOf[c]] = "ref" /\ Upstream[RefOf[c]] = {}
                        /\ RefOf[c] \notin Sources /\ RefOf[c] \notin Historical /\ RefOf[c] \notin Tickets
                        /\ \A n \in Named[c] : Class[n] # "ref"
    /\ \A c, d \in Calls : RefOf[c] = RefOf[d] => c = d
    /\ \A n, m \in Nodes : Class[n] = "ref" => n \notin Upstream[m]
<1>1. \A c \in Calls : RefOf[c] \in Nodes
  BY CallKeys
<1>2. \A c \in Calls : Class[RefOf[c]] = "ref" /\ Upstream[RefOf[c]] = {}
  BY CleanupGraph
<1>3. \A c \in Calls : RefOf[c] \notin Tickets
  BY <1>2, CleanupGraph DEF Tickets
<1>4. \A c \in Calls : RefOf[c] \notin Sources /\ RefOf[c] \notin Historical
  BY <1>1, <1>2, SourceFacts, CleanupGraph
<1>5. \A c \in Calls : \A n \in Named[c] : Class[n] # "ref"
  BY CleanupGraph
<1>6. \A c, d \in Calls : RefOf[c] = RefOf[d] => c = d
  BY CleanupGraph
<1>7. \A n, m \in Nodes : Class[n] = "ref" => n \notin Upstream[m]
  BY CleanupGraph
<1> QED BY <1>2, <1>3, <1>4, <1>5, <1>6, <1>7

\* A world is made of sources, and its writer judges them.
LEMMA WorldFacts ==
    \A n \in Nodes : Class[n] = "world" => Upstream[n] \subseteq Sources /\ n \notin Ungated
  BY CleanupGraph

\* A ticket is a fact, and its report was there from the start.
LEMMA TicketFacts ==
    \A n \in Tickets : /\ n \in Nodes /\ Class[n] = "fact"
                       /\ ReportOf[n] \in Nodes /\ ReportOf[n] \in Historical /\ ReportOf[n] \notin Sources
  BY CleanupShape, CleanupGraph DEF Tickets

\* An E16 call is declared; a legacy one names sources, and its reference has its edges.
LEMMA CallFacts ==
    \A c \in Calls : /\ Mode[c] = "e16" => c \notin Undeclared
                     /\ Mode[c] # "e16" => Named[c] \subseteq Sources /\ c \notin Unindexed
  BY CleanupGraph

\* The edges of an object and of a call.
LEMMA EdgeFacts ==
    /\ \A n \in Nodes : EdgesOf(n) \in SUBSET (Nodes \X Nodes)
    /\ \A n \in Nodes : \A e \in EdgesOf(n) : e[1] = n /\ e[2] \in Upstream[n] /\ e = <<n, e[2]>>
    /\ \A n \in Nodes : \A u \in Upstream[n] : <<n, u>> \in EdgesOf(n)
    /\ \A c \in Calls : IndexEdges(c) \in SUBSET (Nodes \X Nodes)
    /\ \A c \in Calls : \A e \in IndexEdges(c) : e[1] = RefOf[c] /\ e[2] \in Named[c]
    /\ \A c \in Calls : \A u \in Named[c] : <<RefOf[c], u>> \in IndexEdges(c)
  BY NodeKeys, CallKeys DEF EdgesOf, IndexEdges

\* No edge leaves a source or leads to a reference.
LEMMA StaticFacts ==
    /\ WrittenEdges \in SUBSET (Nodes \X Nodes) /\ StaticEdges \in SUBSET (Nodes \X Nodes)
    /\ \A e \in StaticEdges : e[1] \notin Sources /\ Class[e[2]] # "ref"
    /\ \A e \in StaticEdges : \A c \in Calls : e[1] = RefOf[c] => e[2] \in Named[c]
<1>1. WrittenEdges \in SUBSET (Nodes \X Nodes)
  BY EdgeFacts DEF WrittenEdges
<1>2. StaticEdges \in SUBSET (Nodes \X Nodes)
  BY <1>1, EdgeFacts DEF StaticEdges
<1>3. ASSUME NEW e \in StaticEdges
      PROVE  /\ e[1] \notin Sources /\ Class[e[2]] # "ref"
             /\ \A c \in Calls : e[1] = RefOf[c] => e[2] \in Named[c]
  <2>1. CASE e \in WrittenEdges
    <3>1. PICK n \in Nodes : e \in EdgesOf(n)
      BY <2>1 DEF WrittenEdges
    <3>2. e[1] = n /\ e[2] \in Upstream[n] /\ e[2] \in Nodes
      BY <3>1, EdgeFacts, NodeKeys
    <3> QED BY <3>2, SourceFacts, RefFacts
  <2>2. CASE e \notin WrittenEdges
    <3>1. PICK c \in Calls : e \in IndexEdges(c)
      BY <2>2 DEF StaticEdges
    <3>2. e[1] = RefOf[c] /\ e[2] \in Named[c]
      BY <3>1, EdgeFacts
    <3> QED BY <3>2, RefFacts
  <2> QED BY <2>1, <2>2
<1> QED BY <1>1, <1>2, <1>3

-----------------------------------------------------------------------------
(* What the operations of a transaction do, field by field.                *)

\* Frontiers are functions from row keys to rows.
LEMMA FrontierFacts ==
    /\ \A f \in Frontiers : /\ DOMAIN f \in SUBSET RowKeys
                            /\ f = [n \in DOMAIN f |-> f[n]]
                            /\ \A n \in DOMAIN f : f[n] \in Row
    /\ \A H \in SUBSET RowKeys : [H -> Row] \subseteq Frontiers
  BY DEF Frontiers

\* The parts of a transaction.
LEMMA RowFacts ==
    ASSUME NEW t \in Transaction
    PROVE  /\ t.db \in Database /\ t.disk \in [Nodes -> Trees] /\ t.state \in JobStates
           /\ t.rows \in Frontiers
           /\ Held(t) \in SUBSET RowKeys /\ IsFiniteSet(Held(t)) /\ Cardinality(Held(t)) \in Nat
           /\ HeldNodes(t) \in SUBSET Nodes /\ HeldNodes(t) \subseteq Held(t)
           /\ \A n \in Held(t) : /\ t.rows[n] \in Row /\ t.rows[n].at \in Nat
                                 /\ t.rows[n].cursor \in Nat /\ t.rows[n].expanded \in BOOLEAN
<1>1. /\ t.db \in Database /\ t.disk \in [Nodes -> Trees] /\ t.state \in JobStates
      /\ t.rows \in Frontiers
  BY DEF Transaction
<1>2. Held(t) \in SUBSET RowKeys /\ \A n \in Held(t) : t.rows[n] \in Row
  BY <1>1, FrontierFacts DEF Held
<1>3. \A r \in Row : r.at \in Nat /\ r.cursor \in Nat /\ r.expanded \in BOOLEAN
  BY DEF Row
<1>4. IsFiniteSet(Held(t)) /\ Cardinality(Held(t)) \in Nat
  BY <1>2, KeysFinite
<1> QED BY <1>1, <1>2, <1>3, <1>4 DEF HeldNodes

\* Only the rows differ.
SameStore(t, u) == u.db = t.db /\ u.disk = t.disk /\ u.state = t.state

\* SetRow changes one row.
LEMMA SetRowFacts ==
    ASSUME NEW t \in Transaction, NEW n \in Held(t), NEW cursor \in Nat, NEW expanded \in BOOLEAN,
           NEW u, u = SetRow(t, n, cursor, expanded)
    PROVE  /\ u \in Transaction /\ SameStore(t, u) /\ Held(u) = Held(t)
           /\ \A m \in Held(t) : m # n => u.rows[m] = t.rows[m]
           /\ u.rows[n].at = t.rows[n].at /\ u.rows[n].cursor = cursor /\ u.rows[n].expanded = expanded
<1> DEFINE r == [t.rows[n] EXCEPT !.cursor = cursor, !.expanded = expanded]
           f == [t.rows EXCEPT ![n] = r]
<1>1. u = [t EXCEPT !.rows = f]
  BY DEF SetRow, Held
<1>2. /\ t.rows \in Frontiers /\ DOMAIN t.rows = Held(t) /\ Held(t) \in SUBSET RowKeys
      /\ t.rows[n] \in Row /\ \A m \in Held(t) : t.rows[m] \in Row
  BY RowFacts DEF Held
<1>3. r \in Row /\ r.at = t.rows[n].at /\ r.cursor = cursor /\ r.expanded = expanded
  BY <1>2 DEF Row
<1> HIDE DEF r
<1>4. DOMAIN f = Held(t) /\ f[n] = r /\ \A m \in Held(t) : m # n => f[m] = t.rows[m]
  BY <1>2
<1>5. f \in [Held(t) -> Row]
  BY <1>2, <1>3
<1>6. f \in Frontiers
  BY <1>2, <1>5, FrontierFacts
<1> HIDE DEF f
<1>7. u \in Transaction /\ u.db = t.db /\ u.disk = t.disk /\ u.state = t.state /\ u.rows = f
  BY <1>1, <1>6 DEF Transaction
<1>8. Held(u) = Held(t)
  BY <1>4, <1>7 DEF Held
<1> QED BY <1>3, <1>4, <1>7, <1>8 DEF SameStore

\* The rows queued are new, unread, and after all others.
LEMMA QueueFacts ==
    ASSUME NEW t \in Transaction, NEW N \in SUBSET RowKeys,
           NEW u, u = Queue(t, N)
    PROVE  /\ u \in Transaction /\ SameStore(t, u) /\ Held(u) = Held(t) \cup N
           /\ \A m \in Held(t) : u.rows[m] = t.rows[m]
           /\ \A m \in N \ Held(t) : /\ ~u.rows[m].expanded /\ u.rows[m].cursor = 0
                                     /\ u.rows[m].at > Cardinality(Held(t))
                                     /\ u.rows[m].at <= Cardinality(Held(u))
<1> DEFINE H == Held(t)
           new == N \ H
           below(n) == {m \in new : m <= n}
           seq(n) == Cardinality(H) + Cardinality(below(n))
           f == [n \in H \cup new |-> IF n \in new THEN NewRow(seq(n)) ELSE t.rows[n]]
<1>1. u = IF new = {} THEN t ELSE [t EXCEPT !.rows = f]
  BY DEF Queue, Held
<1>2. /\ t.rows \in Frontiers /\ H \in SUBSET RowKeys /\ IsFiniteSet(H) /\ Cardinality(H) \in Nat
      /\ \A m \in H : t.rows[m] \in Row
  BY RowFacts
<1>3. CASE new = {}
  <2>1. u = t /\ H \cup N = H
    BY <1>1, <1>3
  <2> QED BY <1>3, <2>1 DEF SameStore
<1>4. CASE new # {}
  <2>1. /\ new \in SUBSET RowKeys /\ IsFiniteSet(new) /\ Cardinality(new) \in Nat
        /\ H \cup new = H \cup N
    BY <1>2, KeysFinite
  <2>2. Cardinality(H \cup N) = Cardinality(H) + Cardinality(new)
    <3>1. H \cap new = {}
      OBVIOUS
    <3>2. Cardinality(H \cap new) = 0
      BY <3>1, FS_EmptySet
    <3>3. Cardinality(H \cup new) = Cardinality(H) + Cardinality(new) - Cardinality(H \cap new)
      BY <1>2, <2>1, FS_Union
    <3>4. Cardinality(H \cup new) = Cardinality(H) + Cardinality(new)
      BY <1>2, <2>1, <3>2, <3>3
    <3> QED BY <2>1, <3>4
  <2>3. ASSUME NEW n \in new
        PROVE  seq(n) \in Nat /\ seq(n) > Cardinality(H) /\ seq(n) <= Cardinality(H \cup N)
    <3>1. below(n) \in SUBSET new /\ n \in below(n)
      BY <2>1, NodeKeys
    <3>2. IsFiniteSet(below(n)) /\ Cardinality(below(n)) <= Cardinality(new) /\ Cardinality(below(n)) \in Nat
      BY <2>1, <3>1, FS_Subset, FS_CardinalityType
    <3>3. Cardinality(below(n)) # 0
      BY <3>1, <3>2, FS_EmptySet
    <3> HIDE DEF below
    <3> QED BY <1>2, <2>1, <2>2, <3>2, <3>3
  <2>4. u = [t EXCEPT !.rows = f]
    BY <1>1, <1>4
  <2> HIDE DEF seq
  <2>5. ASSUME NEW n \in new PROVE NewRow(seq(n)) \in Row
    BY <2>3 DEF NewRow, Row
  <2>6. DOMAIN f = H \cup N /\ f \in [H \cup N -> Row]
    BY <1>2, <2>1, <2>5
  <2>7. \A m \in H : f[m] = t.rows[m]
    OBVIOUS
  <2>8. ASSUME NEW m \in new
        PROVE  /\ ~f[m].expanded /\ f[m].cursor = 0
               /\ f[m].at > Cardinality(H) /\ f[m].at <= Cardinality(H \cup N)
    <3>1. f[m] = NewRow(seq(m))
      OBVIOUS
    <3> HIDE DEF f
    <3>2. f[m].expanded = FALSE /\ f[m].cursor = 0 /\ f[m].at = seq(m)
      BY <3>1 DEF NewRow
    <3> QED BY <2>3, <3>2
  <2>9. f \in Frontiers
    BY <1>2, <2>6, FrontierFacts
  <2> HIDE DEF f
  <2>10. u \in Transaction /\ u.db = t.db /\ u.disk = t.disk /\ u.state = t.state /\ u.rows = f
    BY <2>4, <2>9 DEF Transaction
  <2>11. Held(u) = H \cup N
    BY <2>6, <2>10 DEF Held
  <2> QED BY <2>7, <2>8, <2>10, <2>11 DEF SameStore
<1> QED BY <1>3, <1>4

\* A key after the cursor is in the page, or still after the cursor of a row that
\* has more to read.
LEMMA AdvanceFacts ==
    ASSUME NEW t \in Transaction, NEW n \in Held(t), NEW K \in SUBSET Nat, IsFiniteSet(K),
           NEW limit \in Nat \ {0},
           NEW u, u = Advance(t, n, K, limit)
    PROVE  /\ u \in Transaction /\ SameStore(t, u) /\ Held(u) = Held(t)
           /\ \A m \in Held(t) : m # n => u.rows[m] = t.rows[m]
           /\ u.rows[n].at = t.rows[n].at
           /\ \A k \in K : k > t.rows[n].cursor =>
                 k \in Page(K, t.rows[n].cursor, limit) \/ (~u.rows[n].expanded /\ k > u.rows[n].cursor)
<1> DEFINE cursor == t.rows[n].cursor
           P == Page(K, cursor, limit)
<1>1. cursor \in Nat
  BY RowFacts
<1>2. CASE HasMore(K, cursor, limit)
  <2>1. u = SetRow(t, n, LastOf(P), FALSE)
    BY <1>2 DEF Advance
  <2>2. After(K, cursor) # {}
    <3>1. Cardinality(After(K, cursor)) > limit
      BY <1>2 DEF HasMore
    <3>2. Cardinality({}) = 0
      BY FS_EmptySet
    <3> QED BY <3>1, <3>2
  <2>3. /\ LastOf(P) \in P /\ P \subseteq After(K, cursor)
        /\ \A k \in After(K, cursor) : k <= LastOf(P) => k \in P
    BY <1>1, <2>2, PageFacts
  <2>4. LastOf(P) \in Nat
    BY <2>3 DEF After
  <2>5. \A k \in K : k > cursor => k \in P \/ k > LastOf(P)
    BY <1>1, <2>3, <2>4 DEF After
  <2> DEFINE l == LastOf(P)
  <2> HIDE DEF l
  <2>6. l \in Nat /\ u = SetRow(t, n, l, FALSE)
    BY <2>1, <2>4 DEF l
  <2>7. /\ u \in Transaction /\ SameStore(t, u) /\ Held(u) = Held(t)
        /\ \A m \in Held(t) : m # n => u.rows[m] = t.rows[m]
        /\ u.rows[n].at = t.rows[n].at /\ u.rows[n].cursor = l /\ u.rows[n].expanded = FALSE
    <3> DEFINE x == FALSE
    <3>1. x \in BOOLEAN /\ u = SetRow(t, n, l, x)
      BY <2>6
    <3>0. l \in Nat
      BY <2>6
    <3> HIDE DEF x
    <3>2. /\ u \in Transaction /\ SameStore(t, u) /\ Held(u) = Held(t)
          /\ \A m \in Held(t) : m # n => u.rows[m] = t.rows[m]
          /\ u.rows[n].at = t.rows[n].at /\ u.rows[n].cursor = l /\ u.rows[n].expanded = x
      BY <3>0, <3>1, SetRowFacts
    <3> QED BY <3>2 DEF x
  <2>8. \A k \in K : k > cursor => k \in P \/ k > l
    BY <2>5 DEF l
  <2> QED BY <2>7, <2>8
<1>3. CASE ~HasMore(K, cursor, limit)
  <2>1. u = SetRow(t, n, cursor, TRUE)
    BY <1>3 DEF Advance
  <2>2. \A k \in K : k > cursor => k \in P
    BY <1>1, <1>3, PageFacts DEF After
  <2>3. /\ u \in Transaction /\ SameStore(t, u) /\ Held(u) = Held(t)
        /\ \A m \in Held(t) : m # n => u.rows[m] = t.rows[m]
        /\ u.rows[n].at = t.rows[n].at
    <3> HIDE DEF cursor
    <3> DEFINE x == TRUE
    <3>1. x \in BOOLEAN /\ u = SetRow(t, n, cursor, x)
      BY <2>1
    <3> HIDE DEF x
    <3> QED BY <1>1, <3>1, SetRowFacts
  <2> QED BY <2>2, <2>3
<1> QED BY <1>2, <1>3

Queued(t, u, N) ==
    /\ u \in Transaction /\ SameStore(t, u) /\ Held(u) = Held(t) \cup N
    /\ \A m \in Held(t) : u.rows[m] = t.rows[m]
    /\ \A m \in N \ Held(t) : /\ ~u.rows[m].expanded /\ u.rows[m].cursor = 0
                              /\ u.rows[m].at > Cardinality(Held(t))
                              /\ u.rows[m].at <= Cardinality(Held(u))

\* Queue queues its nodes behind all rows there are.
LEMMA QueueQueues ==
    ASSUME NEW t \in Transaction, NEW N \in SUBSET RowKeys
    PROVE  Queued(t, Queue(t, N), N)
  BY QueueFacts DEF Queued

\* The row n was read up to a later cursor, or to its end.
RowRead(t, u, n) ==
    /\ u \in Transaction /\ SameStore(t, u) /\ Held(u) = Held(t)
    /\ \A m \in Held(t) : m # n => u.rows[m] = t.rows[m]
    /\ u.rows[n].at = t.rows[n].at

Covers(t, u, n, K, P) ==
    \A k \in K : k > t.rows[n].cursor =>
        k \in P \/ (~u.rows[n].expanded /\ k > u.rows[n].cursor)

\* Advance reads a page: every later key is on it, or still ahead of the cursor.
LEMMA AdvanceReads ==
    ASSUME NEW t \in Transaction, NEW n \in Held(t), NEW K \in SUBSET Nat, IsFiniteSet(K),
           NEW limit \in Nat \ {0}
    PROVE  /\ RowRead(t, Advance(t, n, K, limit), n)
           /\ Covers(t, Advance(t, n, K, limit), n, K, Page(K, t.rows[n].cursor, limit))
<1> DEFINE u == Advance(t, n, K, limit)
<1>1. /\ u \in Transaction /\ SameStore(t, u) /\ Held(u) = Held(t)
      /\ \A m \in Held(t) : m # n => u.rows[m] = t.rows[m]
      /\ u.rows[n].at = t.rows[n].at
      /\ \A k \in K : k > t.rows[n].cursor =>
            k \in Page(K, t.rows[n].cursor, limit) \/ (~u.rows[n].expanded /\ k > u.rows[n].cursor)
  BY AdvanceFacts
<1> QED BY <1>1 DEF RowRead, Covers

\* What cleaning the node n of a transaction changes, and its parts.
NodeCleaned(t, u, n) ==
    /\ u \in Transaction /\ u.rows = t.rows
    /\ u.state = t.state \/ u.state = "failed"
    /\ u.db.deps = t.db.deps /\ u.db.tombstone = t.db.tombstone /\ u.db.calls = t.db.calls
    /\ \/ u.db.content = t.db.content /\ u.db.redacted = t.db.redacted
       \/ /\ u.db.content = t.db.content \ {n} /\ u.db.redacted = t.db.redacted \cup {n}
          /\ Class[n] \notin {"fact", "ref"}
    /\ u.db.reply = t.db.reply \/ u.db.reply = t.db.reply \ {n}
    /\ \A m \in Nodes : u.disk[m] # t.disk[m] => m = n /\ u.disk[m] = "none"
    /\ u.db.requests \subseteq t.db.requests
    /\ \A c \in t.db.requests \ u.db.requests : RefOf[c] = n /\ Mode[c] = "e16"

RepliesCleaned(t, u, n) ==
    /\ u \in Transaction /\ u.rows = t.rows /\ u.state = t.state /\ u.disk = t.disk
    /\ u.db.reply = t.db.reply \ {n}
    /\ u.db.deps = t.db.deps /\ u.db.tombstone = t.db.tombstone
    /\ u.db.calls = t.db.calls /\ u.db.content = t.db.content /\ u.db.redacted = t.db.redacted
    /\ u.db.requests = t.db.requests

Failed(t, u) ==
    u \in Transaction /\ u.rows = t.rows /\ u.state = "failed" /\ u.db = t.db /\ u.disk = t.disk

ObjectRedacted(t, u, n) ==
    /\ u \in Transaction /\ u.rows = t.rows /\ u.state = t.state /\ u.disk = t.disk
    /\ u.db.content = t.db.content \ {n} /\ u.db.redacted = t.db.redacted \cup {n}
    /\ u.db.reply = t.db.reply /\ u.db.deps = t.db.deps /\ u.db.tombstone = t.db.tombstone
    /\ u.db.calls = t.db.calls /\ u.db.requests = t.db.requests

TreeRemoved(t, u, n) ==
    /\ u \in Transaction /\ u.rows = t.rows /\ u.db = t.db
    /\ u.state = t.state \/ u.state = "failed"
    /\ u.state # "failed" => u.disk[n] = "none"
    /\ \A m \in Nodes : u.disk[m] # t.disk[m] => m = n /\ u.disk[m] = "none"

RefCleaned(t, u, n) ==
    /\ u \in Transaction /\ u.rows = t.rows /\ u.disk = t.disk
    /\ u.state = t.state \/ u.state = "failed"
    /\ u.db.content = t.db.content /\ u.db.redacted = t.db.redacted
    /\ u.db.reply = t.db.reply /\ u.db.deps = t.db.deps /\ u.db.tombstone = t.db.tombstone
    /\ u.db.calls = t.db.calls /\ u.db.requests \subseteq t.db.requests
    /\ \A c \in t.db.requests \ u.db.requests : RefOf[c] = n /\ Mode[c] = "e16"

\* What each part of cleanup_node_content does to the transaction.
LEMMA ReplyFacts ==
    ASSUME NEW t \in Transaction, NEW n \in Nodes
    PROVE  RepliesCleaned(t, [t EXCEPT !.db.reply = @ \ {n}], n)
<1> DEFINE d == [t.db EXCEPT !.reply = @ \ {n}]
           u == [t EXCEPT !.db = d]
<1>1. [t EXCEPT !.db.reply = @ \ {n}] = u
  BY DEF Transaction, Database
<1>2. /\ d \in Database /\ d.reply = t.db.reply \ {n}
      /\ d.deps = t.db.deps /\ d.tombstone = t.db.tombstone /\ d.calls = t.db.calls
      /\ d.content = t.db.content /\ d.redacted = t.db.redacted /\ d.requests = t.db.requests
  BY DEF Transaction, Database
<1> HIDE DEF d
<1>3. RepliesCleaned(t, u, n)
  BY <1>2 DEF Transaction, RepliesCleaned
<1> QED BY <1>1, <1>3, Zenon

\* mark_unknown_scope.
LEMMA FailFacts == ASSUME NEW t \in Transaction PROVE Failed(t, Fail(t))
  BY DEF Fail, Failed, Transaction, JobStates

\* The redaction of an object.
LEMMA RedactFacts ==
    ASSUME NEW t \in Transaction, NEW n \in Nodes
    PROVE  ObjectRedacted(t, Redact(t, n), n)
<1> DEFINE d == [t.db EXCEPT !.content = @ \ {n}, !.redacted = @ \cup {n}]
<1>1. Redact(t, n) = [t EXCEPT !.db = d]
  BY DEF Redact, Transaction, Database
<1>2. /\ d \in Database /\ d.content = t.db.content \ {n} /\ d.redacted = t.db.redacted \cup {n}
      /\ d.reply = t.db.reply /\ d.deps = t.db.deps /\ d.tombstone = t.db.tombstone
      /\ d.calls = t.db.calls /\ d.requests = t.db.requests
  BY DEF Transaction, Database
<1> HIDE DEF d
<1> QED BY <1>1, <1>2 DEF Transaction, ObjectRedacted

\* The removal of a directory.
LEMMA RemoveTreeFacts ==
    ASSUME NEW t \in Transaction, NEW n \in Nodes
    PROVE  TreeRemoved(t, RemoveTree(t, n), n)
<1>1. CASE t.disk[n] = "linked"
  <2>1. RemoveTree(t, n) = Fail(t)
    BY <1>1 DEF RemoveTree
  <2> QED BY <2>1, FailFacts DEF Failed, TreeRemoved
<1>2. CASE t.disk[n] # "linked"
  <2> DEFINE k == [t.disk EXCEPT ![n] = "none"]
  <2>1. RemoveTree(t, n) = [t EXCEPT !.disk = k]
    BY <1>2 DEF RemoveTree, Transaction
  <2>2. k \in [Nodes -> Trees] /\ k[n] = "none" /\ \A m \in Nodes : m # n => k[m] = t.disk[m]
    BY DEF Transaction, Trees
  <2> HIDE DEF k
  <2> QED BY <2>1, <2>2 DEF Transaction, TreeRemoved
<1> QED BY <1>1, <1>2

\* The redaction of an E16 call over its reference.
LEMMA CleanRefFacts ==
    ASSUME NEW t \in Transaction, NEW n \in Nodes
    PROVE  RefCleaned(t, CleanRef(t, n), n)
<1> DEFINE C == {c \in Calls : RefOf[c] = n /\ Mode[c] = "e16"}
           d == [t.db EXCEPT !.requests = @ \ C]
<1>1. CleanRef(t, n) = IF C \cap t.db.unreadable # {} THEN Fail(t) ELSE [t EXCEPT !.db.requests = @ \ C]
  BY DEF CleanRef
<1>2. CASE C \cap t.db.unreadable # {}
  BY <1>1, <1>2, FailFacts DEF Failed, RefCleaned
<1>3. CASE ~ (C \cap t.db.unreadable # {})
  <2>1. CleanRef(t, n) = [t EXCEPT !.db = d]
    BY <1>1, <1>3 DEF Transaction, Database
  <2>2. /\ d \in Database /\ d.content = t.db.content /\ d.redacted = t.db.redacted
        /\ d.reply = t.db.reply /\ d.deps = t.db.deps /\ d.tombstone = t.db.tombstone
        /\ d.calls = t.db.calls /\ d.requests = t.db.requests \ C
    BY DEF Transaction, Database
  <2>3. \A c \in t.db.requests \ d.requests : RefOf[c] = n /\ Mode[c] = "e16"
    BY <2>2
  <2> HIDE DEF d
  <2> QED BY <2>1, <2>2, <2>3 DEF Transaction, RefCleaned
<1> QED BY <1>2, <1>3

\* A cleaned part of a transaction whose replies were cleaned before.
LEMMA CleanedAfterReplies ==
    ASSUME NEW t, NEW v, NEW u, NEW n, RepliesCleaned(t, v, n)
    PROVE  /\ u = v => NodeCleaned(t, u, n)
           /\ Failed(v, u) => NodeCleaned(t, u, n)
           /\ RefCleaned(v, u, n) => NodeCleaned(t, u, n)
           /\ ObjectRedacted(v, u, n) /\ Class[n] \notin {"fact", "ref"} => NodeCleaned(t, u, n)
           /\ \A w : TreeRemoved(v, w, n) /\ ObjectRedacted(w, u, n) /\ Class[n] \notin {"fact", "ref"} =>
                        NodeCleaned(t, u, n)
<1>1. u = v => NodeCleaned(t, u, n)
  BY DEF RepliesCleaned, NodeCleaned
<1>2. Failed(v, u) => NodeCleaned(t, u, n)
  BY DEF RepliesCleaned, NodeCleaned, Failed
<1>3. RefCleaned(v, u, n) => NodeCleaned(t, u, n)
  BY DEF RepliesCleaned, NodeCleaned, RefCleaned
<1>4. ObjectRedacted(v, u, n) /\ Class[n] \notin {"fact", "ref"} => NodeCleaned(t, u, n)
  BY DEF RepliesCleaned, NodeCleaned, ObjectRedacted
<1>5. ASSUME NEW w, TreeRemoved(v, w, n), ObjectRedacted(w, u, n), Class[n] \notin {"fact", "ref"}
      PROVE  NodeCleaned(t, u, n)
  BY <1>5 DEF RepliesCleaned, NodeCleaned, TreeRemoved, ObjectRedacted
<1> QED BY <1>1, <1>2, <1>3, <1>4, <1>5

\* Cleaning a stored node, its replies first: the node is clean, or the job fails.
LEMMA CleanFacts ==
    ASSUME NEW t \in Transaction, NEW n \in Nodes, n \in StoredIn(t.db),
           NEW v, v = [t EXCEPT !.db.reply = @ \ {n}],
           NEW u, u = cleanup_node_content(v, n)
    PROVE  NodeCleaned(t, u, n) /\ (u.state # "failed" => NodeClean(u.db, u.disk, n))
<1>1. RepliesCleaned(t, v, n)
  BY ReplyFacts
<1>2. v \in Transaction /\ v.db.reply = t.db.reply \ {n} /\ n \in v.db.content \cup v.db.redacted
  BY <1>1 DEF RepliesCleaned, StoredIn
<1>3. Class[n] \in Classes
  BY NodeKeys
<1>4. CASE Class[n] = "fact"
  <2>1. u = v
    BY <1>2, <1>4 DEF cleanup_node_content
  <2> QED BY <1>1, <1>2, <1>4, <2>1, CleanedAfterReplies DEF NodeClean
<1>5. CASE Class[n] = "ref"
  <2>1. RefCleaned(v, u, n)
    BY <1>2, <1>5, CleanRefFacts DEF cleanup_node_content
  <2>2. u.db.reply = v.db.reply
    BY <2>1 DEF RefCleaned
  <2> QED BY <1>1, <1>2, <1>5, <2>1, <2>2, CleanedAfterReplies DEF NodeClean
<1>6. CASE Class[n] = "export"
  <2> DEFINE w == RemoveTree(v, n)
  <2>1. u = Redact(w, n)
    BY <1>2, <1>6 DEF cleanup_node_content, CleanExport
  <2>2. TreeRemoved(v, w, n)
    BY <1>2, RemoveTreeFacts
  <2> HIDE DEF w
  <2>3. w \in Transaction
    BY <2>2 DEF TreeRemoved
  <2>4. ObjectRedacted(w, u, n)
    BY <2>1, <2>3, RedactFacts
  <2>5. NodeCleaned(t, u, n)
    BY <1>1, <1>6, <2>2, <2>4, CleanedAfterReplies
  <2>6. /\ u.db.content = w.db.content \ {n} /\ u.db.reply = v.db.reply
        /\ u.state # "failed" => u.disk[n] = "none"
    BY <2>2, <2>4 DEF TreeRemoved, ObjectRedacted
  <2> QED BY <1>2, <2>5, <2>6 DEF NodeClean
<1>7. CASE Class[n] = "trace"
  <2>1. u = CleanTraceExport(v, n)
    BY <1>2, <1>7 DEF cleanup_node_content
  <2>2. CASE n \in v.db.content
    <3> DEFINE w == RemoveTree(v, n)
    <3>1. u = Redact(w, n)
      BY <2>1, <2>2 DEF CleanTraceExport
    <3>2. TreeRemoved(v, w, n)
      BY <1>2, RemoveTreeFacts
    <3> HIDE DEF w
    <3>3. w \in Transaction
      BY <3>2 DEF TreeRemoved
    <3>4. ObjectRedacted(w, u, n)
      BY <3>1, <3>3, RedactFacts
    <3>5. NodeCleaned(t, u, n)
      BY <1>1, <1>7, <3>2, <3>4, CleanedAfterReplies
    <3>6. u.db.content = w.db.content \ {n} /\ u.db.reply = v.db.reply
      BY <3>2, <3>4 DEF TreeRemoved, ObjectRedacted
    <3> QED BY <1>2, <1>7, <3>5, <3>6 DEF NodeClean
  <2>3. CASE n \notin v.db.content
    <3>1. u = v
      BY <2>1, <2>3 DEF CleanTraceExport
    <3> QED BY <1>1, <1>2, <1>7, <2>3, <3>1, CleanedAfterReplies DEF NodeClean
  <2> QED BY <2>2, <2>3
<1>8. CASE Class[n] = "unknown" /\ n \in v.db.content
  <2>1. Failed(v, u)
    BY <1>2, <1>8, FailFacts DEF cleanup_node_content
  <2>2. u.state = "failed"
    BY <2>1 DEF Failed
  <2> QED BY <1>1, <2>1, <2>2, CleanedAfterReplies
<1>9. CASE Class[n] \in {"run", "content", "world"} \/ (Class[n] = "unknown" /\ n \notin v.db.content)
  <2>1. ObjectRedacted(v, u, n)
    BY <1>2, <1>9, RedactFacts DEF cleanup_node_content
  <2>2. u.db.content = v.db.content \ {n} /\ u.db.reply = v.db.reply
    BY <2>1 DEF ObjectRedacted
  <2>3. NodeCleaned(t, u, n)
    BY <1>1, <1>9, <2>1, CleanedAfterReplies
  <2> QED BY <1>2, <1>9, <2>2, <2>3 DEF NodeClean
<1> QED BY <1>3, <1>4, <1>5, <1>6, <1>7, <1>8, <1>9 DEF Classes

-----------------------------------------------------------------------------
(* What a transaction preserves at each of its steps.  t0 is its beginning. *)

\* The way the store moves in a transaction of the job of s: objects are redacted,
\* only references become content, and what is taken belongs to the frontier.
Moved(s, t, u) ==
    /\ Held(t) \subseteq Held(u)
    /\ t.db.deps \subseteq u.db.deps
    /\ u.db.tombstone = t.db.tombstone /\ u.db.calls = t.db.calls
    /\ StoredIn(t.db) \subseteq StoredIn(u.db) /\ t.db.redacted \subseteq u.db.redacted
    /\ \A n \in u.db.content \ t.db.content : Class[n] = "ref"
    /\ u.db.reply \subseteq t.db.reply /\ u.db.requests \subseteq t.db.requests
    /\ \A n \in Nodes : u.disk[n] # t.disk[n] => u.disk[n] = "none" /\ n \in Held(u)
    /\ t.db.content \ u.db.content \subseteq Held(u)
    /\ t.db.reply \ u.db.reply \subseteq Held(u)
    /\ \A c \in t.db.requests \ u.db.requests : s \in Named[c] \/ (Mode[c] = "e16" /\ RefOf[c] \in Held(u))

\* Two parts of a step one after the other.
LEMMA MovedChain ==
    ASSUME NEW s, NEW t, NEW u, NEW v, Moved(s, t, u), Moved(s, u, v)
    PROVE  Moved(s, t, v)
<1>1. /\ Held(t) \subseteq Held(v) /\ t.db.deps \subseteq v.db.deps
      /\ v.db.tombstone = t.db.tombstone /\ v.db.calls = t.db.calls
      /\ StoredIn(t.db) \subseteq StoredIn(v.db) /\ t.db.redacted \subseteq v.db.redacted
  BY DEF Moved
<1>2. \A n \in v.db.content \ t.db.content : Class[n] = "ref"
  BY DEF Moved
<1>3. v.db.reply \subseteq t.db.reply /\ v.db.requests \subseteq t.db.requests
  BY DEF Moved
<1>4. \A n \in Nodes : v.disk[n] # t.disk[n] => v.disk[n] = "none" /\ n \in Held(v)
  BY DEF Moved
<1>5. t.db.content \ v.db.content \subseteq Held(v) /\ t.db.reply \ v.db.reply \subseteq Held(v)
  BY DEF Moved
<1>6. \A c \in t.db.requests \ v.db.requests : s \in Named[c] \/ (Mode[c] = "e16" /\ RefOf[c] \in Held(v))
  BY DEF Moved
<1> QED BY <1>1, <1>2, <1>3, <1>4, <1>5, <1>6 DEF Moved

\* A part that only changes rows.
LEMMA MovedByRows ==
    ASSUME NEW s, NEW t, NEW u, u.db = t.db, u.disk = t.disk, Held(t) \subseteq Held(u)
    PROVE  Moved(s, t, u)
  BY DEF Moved

TxInv(s, t0, t) ==
    /\ t \in Transaction /\ t.state \in {"running", "failed"}
    /\ DatabaseSound(t.db)
    /\ JobSound(s, t)
    /\ HeldIsDerived(s, t)
    /\ t.db.deps \subseteq EdgesIn(t0.db)
    /\ Moved(s, t0, t)

\* The nodes N are stored, no other source is among them, and they are derived.
Queueable(s, t, N) ==
    /\ N \subseteq RowKeys
    /\ N \cap Nodes \subseteq StoredIn(t.db)
    /\ N \cap Sources \subseteq {s}
    /\ ReachedOver(s, N \cap Nodes, LastingEdges(t.db))
    /\ s \in GatedSources => ReachedOver(s, N \cap Nodes, t.db.deps)

\* Queueing what may be queued keeps the invariant of a transaction.
LEMMA QueueKeeps ==
    ASSUME NEW s \in Sources, NEW t0, NEW t, TxInv(s, t0, t), NEW N, Queueable(s, t, N),
           NEW u, Queued(t, u, N)
    PROVE  TxInv(s, t0, u)
<1>1. /\ u \in Transaction /\ u.db = t.db /\ u.disk = t.disk /\ u.state = t.state
      /\ Held(u) = Held(t) \cup N
      /\ \A m \in Held(t) : u.rows[m] = t.rows[m]
      /\ \A m \in Held(u) : m \notin Held(t) =>
            /\ ~u.rows[m].expanded /\ u.rows[m].cursor = 0
            /\ u.rows[m].at > Cardinality(Held(t)) /\ u.rows[m].at <= Cardinality(Held(u))
  BY DEF Queued, SameStore
<1>2. /\ t \in Transaction /\ DatabaseSound(t.db) /\ JobSound(s, t) /\ HeldIsDerived(s, t)
      /\ t.db.deps \subseteq EdgesIn(t0.db) /\ Moved(s, t0, t)
  BY DEF TxInv
<1>3. HeldNodes(u) = HeldNodes(t) \cup (N \cap Nodes)
  BY <1>1 DEF HeldNodes
<1>4. HoldsStored(s, u)
  BY <1>1, <1>2, <1>3 DEF JobSound, HoldsStored, Queueable, HeldNodes
<1>5. ExpandedClean(u)
  BY <1>1, <1>2, <1>3 DEF JobSound, ExpandedClean, HeldNodes
<1>6. WorldsFound(s, u)
  BY <1>1, <1>2 DEF JobSound, HoldsStored, WorldsFound
<1>7. /\ Cardinality(Held(t)) \in Nat /\ Cardinality(Held(u)) \in Nat
      /\ Cardinality(Held(t)) <= Cardinality(Held(u))
  <2>1. IsFiniteSet(Held(u)) /\ Held(t) \in SUBSET Held(u)
    BY <1>1, RowFacts
  <2> QED BY <1>1, <1>2, <2>1, RowFacts, FS_Subset
<1>8. \A n \in Held(t) : t.rows[n].at \in Nat /\ t.rows[n].cursor \in Nat
  BY <1>2, RowFacts
<1>9. \A n \in Held(u) : u.rows[n].at \in Nat /\ u.rows[n].cursor \in Nat
  BY <1>1, RowFacts
<1>10. SeqsInRange(t)
  BY <1>2 DEF JobSound
<1>11. SeqsInRange(u)
  <2>1. ASSUME NEW n \in Held(u)
        PROVE  u.rows[n].at > 0 /\ u.rows[n].at <= Cardinality(Held(u))
    <3>1. CASE n \in Held(t)
      <4>1. t.rows[n].at > 0 /\ t.rows[n].at <= Cardinality(Held(t)) /\ t.rows[n].at \in Nat
        BY <1>8, <1>10, <3>1 DEF SeqsInRange
      <4>2. u.rows[n] = t.rows[n]
        BY <1>1, <3>1
      <4> QED BY <1>7, <4>1, <4>2
    <3>2. CASE n \notin Held(t)
      <4>1. u.rows[n].at > Cardinality(Held(t)) /\ u.rows[n].at <= Cardinality(Held(u)) /\ u.rows[n].at \in Nat
        BY <1>1, <1>9, <3>2
      <4> QED BY <1>7, <4>1
    <3> QED BY <3>1, <3>2
  <2>2. TicketScan \in Held(u) => u.rows[TicketScan].cursor <= Cardinality(Held(u))
    BY <1>1, <1>7, <1>8, <1>9, <1>10 DEF SeqsInRange
  <2> QED BY <2>1, <2>2 DEF SeqsInRange
<1>12. ReportsFound(u)
  <2> SUFFICES ASSUME TicketScan \in Held(u), NEW n \in HeldNodes(u) \cap Tickets,
                      u.rows[n].at <= u.rows[TicketScan].cursor
               PROVE  ReportOf[n] \in Held(u)
    BY DEF ReportsFound
  <2>0. n \in Held(u) /\ n \in Nodes /\ n \in Tickets
    BY DEF HeldNodes
  <2>1. TicketScan \in Held(t)
    <3> SUFFICES ASSUME TicketScan \notin Held(t) PROVE FALSE
      OBVIOUS
    <3>1. u.rows[TicketScan].cursor = 0
      BY <1>1
    <3>2. u.rows[n].at > 0 /\ u.rows[n].at \in Nat
      BY <1>9, <1>11, <2>0 DEF SeqsInRange
    <3> QED BY <3>1, <3>2
  <2>2. n \in Held(t)
    <3> SUFFICES ASSUME n \notin Held(t) PROVE FALSE
      OBVIOUS
    <3>1. u.rows[n].at > Cardinality(Held(t)) /\ u.rows[n].at \in Nat
      BY <1>1, <1>9, <2>0
    <3>2. u.rows[TicketScan].cursor <= Cardinality(Held(t)) /\ u.rows[TicketScan].cursor \in Nat
      BY <1>1, <1>8, <1>10, <2>1 DEF SeqsInRange
    <3> QED BY <1>7, <3>1, <3>2
  <2> QED BY <1>1, <1>2, <2>0, <2>1, <2>2 DEF JobSound, ReportsFound, HeldNodes
<1>13. JobSound(s, u)
  BY <1>1, <1>2, <1>4, <1>5, <1>6, <1>11, <1>12 DEF JobSound
<1>14. HeldIsDerived(s, u)
  BY <1>1, <1>2, <1>3 DEF HeldIsDerived, Queueable, ReachedOver
<1>15. Moved(s, t0, u)
  BY <1>1, <1>2, MovedByRows, MovedChain
<1> QED BY <1>1, <1>2, <1>13, <1>14, <1>15 DEF TxInv

\* More edges reach more.
LEMMA ReachedMore ==
    ASSUME NEW s, NEW H, NEW E, NEW F, ReachedOver(s, H, E), E \subseteq F
    PROVE  ReachedOver(s, H, F)
  BY DEF ReachedOver, Back

\* Edges that last are not lost by redactions: tickets are facts.
LEMMA LastingKept ==
    ASSUME NEW d, NEW e, d.deps \subseteq e.deps, d.calls \subseteq e.calls, StoredIn(d) \subseteq StoredIn(e),
           \A n \in d.content \ e.content : n \notin Tickets, d.content \subseteq Nodes
    PROVE  LastingEdges(d) \subseteq LastingEdges(e)
  BY DEF LastingEdges, ReportEdges, CallEdges, Tickets

\* Rows that keep their seq keep what is said of seqs and reports.
LEMMA SameRows ==
    ASSUME NEW t \in Transaction, NEW u \in Transaction, Held(u) = Held(t), SeqsInRange(t), ReportsFound(t),
           \A m \in Held(t) : u.rows[m].at = t.rows[m].at,
           TicketScan \in Held(t) => u.rows[TicketScan] = t.rows[TicketScan]
    PROVE  SeqsInRange(u) /\ ReportsFound(u) /\ HeldNodes(u) = HeldNodes(t)
  BY DEF SeqsInRange, ReportsFound, HeldNodes

\* A page of a scan has been read.
LEMMA ScanKeeps ==
    ASSUME NEW s \in Sources, NEW t0, NEW t, TxInv(s, t0, t), NEW n \in {BudgetScan, WorldScan},
           NEW u, RowRead(t, u, n), WorldsFound(s, u)
    PROVE  TxInv(s, t0, u)
<1>1. /\ u \in Transaction /\ u.db = t.db /\ u.disk = t.disk /\ u.state = t.state
      /\ Held(u) = Held(t) /\ \A m \in Held(t) : m # n => u.rows[m] = t.rows[m]
      /\ u.rows[n].at = t.rows[n].at
  BY DEF RowRead, SameStore
<1>2. /\ t \in Transaction /\ DatabaseSound(t.db) /\ JobSound(s, t) /\ HeldIsDerived(s, t)
      /\ t.db.deps \subseteq EdgesIn(t0.db) /\ Moved(s, t0, t)
  BY DEF TxInv
<1>3. n # TicketScan /\ n \notin Nodes
  BY NodeKeys
<1>4. SeqsInRange(u) /\ ReportsFound(u) /\ HeldNodes(u) = HeldNodes(t)
  <2>1. SeqsInRange(t) /\ ReportsFound(t)
    BY <1>2 DEF JobSound
  <2>2. \A m \in Held(t) : u.rows[m].at = t.rows[m].at
    BY <1>1
  <2>3. TicketScan \in Held(t) => u.rows[TicketScan] = t.rows[TicketScan]
    BY <1>1, <1>3
  <2> QED BY <1>1, <1>2, <2>1, <2>2, <2>3, SameRows
<1>5. HoldsStored(s, u)
  BY <1>1, <1>2, <1>4 DEF JobSound, HoldsStored
<1>6. ExpandedClean(u)
  BY <1>1, <1>2, <1>3, <1>4 DEF JobSound, ExpandedClean, HeldNodes
<1>7. JobSound(s, u)
  BY <1>1, <1>2, <1>4, <1>5, <1>6 DEF JobSound
<1>8. HeldIsDerived(s, u)
  BY <1>1, <1>2, <1>4 DEF HeldIsDerived
<1>9. Moved(s, t0, u)
  BY <1>1, <1>2, MovedByRows, MovedChain
<1> QED BY <1>1, <1>2, <1>7, <1>8, <1>9 DEF TxInv

\* The database of a node that was cleaned, or was not yet to be.
StoreCleaned(t, u, n) ==
    /\ u.state = t.state \/ u.state = "failed"
    /\ u.db.deps = t.db.deps /\ u.db.tombstone = t.db.tombstone /\ u.db.calls = t.db.calls
    /\ \/ u.db.content = t.db.content /\ u.db.redacted = t.db.redacted
       \/ /\ u.db.content = t.db.content \ {n} /\ u.db.redacted = t.db.redacted \cup {n}
          /\ Class[n] \notin {"fact", "ref"}
    /\ u.db.reply = t.db.reply \/ u.db.reply = t.db.reply \ {n}
    /\ \A m \in Nodes : u.disk[m] # t.disk[m] => m = n /\ u.disk[m] = "none"
    /\ u.db.requests \subseteq t.db.requests
    /\ \A c \in t.db.requests \ u.db.requests : RefOf[c] = n /\ Mode[c] = "e16"

\* Cleaning a node keeps the database sound.
LEMMA StoreCleanedSound ==
    ASSUME NEW t \in Transaction, NEW u, NEW n \in Nodes, DatabaseSound(t.db), StoreCleaned(t, u, n),
           n \in StoredIn(t.db)
    PROVE  StoredIn(u.db) = StoredIn(t.db) /\ DatabaseSound(u.db)
<1>1. StoredIn(u.db) = StoredIn(t.db)
  BY DEF StoreCleaned, StoredIn
<1>2. u.db.content \cap u.db.redacted = {} /\ u.db.requests \subseteq u.db.calls
  BY DEF StoreCleaned, DatabaseSound
<1>3. \A e \in u.db.deps : e \in StaticEdges /\ e[1] \in StoredIn(u.db)
  BY <1>1 DEF StoreCleaned, DatabaseSound
<1>4. \A c \in u.db.calls : IF Mode[c] = "e16" THEN RefOf[c] \in StoredIn(u.db)
                            ELSE c \in u.db.requests \/ IndexEdges(c) \subseteq u.db.deps
  BY <1>1 DEF StoreCleaned, DatabaseSound
<1>5. \A m \in u.db.redacted : Class[m] \notin {"fact", "ref"}
  BY DEF StoreCleaned, DatabaseSound
<1>6. Historical \subseteq StoredIn(u.db)
  BY <1>1 DEF DatabaseSound
<1> QED BY <1>1, <1>2, <1>3, <1>4, <1>5, <1>6 DEF DatabaseSound

\* A page of a node has been read, and with the last one the node was cleaned.
LEMMA NodeKeeps ==
    ASSUME NEW s \in Sources, NEW t0, NEW t, TxInv(s, t0, t), NEW n \in HeldNodes(t),
           NEW u \in Transaction, Held(u) = Held(t), \A m \in Held(t) : m # n => u.rows[m] = t.rows[m],
           u.rows[n].at = t.rows[n].at, StoreCleaned(t, u, n),
           u.state # "failed" /\ u.rows[n].expanded => NodeClean(u.db, u.disk, n)
    PROVE  TxInv(s, t0, u)
<1>1. /\ t \in Transaction /\ DatabaseSound(t.db) /\ JobSound(s, t) /\ HeldIsDerived(s, t)
      /\ t.db.deps \subseteq EdgesIn(t0.db) /\ Moved(s, t0, t)
  BY DEF TxInv
<1>2. /\ n \in Nodes /\ n \in Held(t) /\ n \in StoredIn(t.db)
      /\ n # TicketScan /\ n # WorldScan /\ n # BudgetScan
  BY <1>1, NodeKeys DEF HeldNodes, JobSound, HoldsStored
<1>3. StoredIn(u.db) = StoredIn(t.db) /\ DatabaseSound(u.db)
  BY <1>1, <1>2, StoreCleanedSound
<1>4. SeqsInRange(u) /\ ReportsFound(u) /\ HeldNodes(u) = HeldNodes(t)
  <2>1. SeqsInRange(t) /\ ReportsFound(t)
    BY <1>1 DEF JobSound
  <2>2. \A m \in Held(t) : u.rows[m].at = t.rows[m].at
    OBVIOUS
  <2>3. TicketScan \in Held(t) => u.rows[TicketScan] = t.rows[TicketScan]
    BY <1>2
  <2> QED BY <1>1, <2>1, <2>2, <2>3, SameRows
<1>5. HoldsStored(s, u)
  BY <1>1, <1>3, <1>4 DEF JobSound, HoldsStored
<1>6. ExpandedClean(u)
  <2> SUFFICES ASSUME u.state # "failed", NEW m \in HeldNodes(u), u.rows[m].expanded
               PROVE  NodeClean(u.db, u.disk, m)
    BY DEF ExpandedClean
  <2>1. CASE m = n
    BY <2>1
  <2>2. CASE m # n
    <3>1. m \in HeldNodes(t) /\ m \in Held(t) /\ m \in Nodes /\ t.state # "failed" /\ t.rows[m].expanded
      BY <1>4, <2>2 DEF HeldNodes, StoreCleaned
    <3>2. NodeClean(t.db, t.disk, m)
      BY <1>1, <3>1 DEF JobSound, ExpandedClean
    <3> QED BY <2>2, <3>1, <3>2 DEF NodeClean, StoreCleaned
  <2> QED BY <2>1, <2>2
<1>7. WorldsFound(s, u)
  <2>1. u.db.content \subseteq t.db.content
    BY DEF StoreCleaned
  <2>2. u.rows[WorldScan] = t.rows[WorldScan]
    BY <1>1, <1>2 DEF JobSound, HoldsStored
  <2> QED BY <1>1, <2>1, <2>2 DEF JobSound, WorldsFound
<1>8. JobSound(s, u)
  BY <1>1, <1>4, <1>5, <1>6, <1>7 DEF JobSound, StoreCleaned
<1>9. LastingEdges(t.db) \subseteq LastingEdges(u.db) /\ u.db.deps = t.db.deps
  <2>1. \A m \in t.db.content \ u.db.content : m \notin Tickets
    BY TicketFacts DEF StoreCleaned
  <2>2. t.db.content \subseteq Nodes
    BY <1>1 DEF Transaction, Database
  <2>3. u.db.deps = t.db.deps /\ u.db.calls = t.db.calls
    BY DEF StoreCleaned
  <2> QED BY <1>3, <2>1, <2>2, <2>3, LastingKept
<1>10. HeldIsDerived(s, u)
  BY <1>1, <1>4, <1>9, ReachedMore DEF HeldIsDerived
<1>11. Moved(s, t, u)
  <2>1. \A m \in Nodes : u.disk[m] # t.disk[m] => u.disk[m] = "none" /\ m \in Held(u)
    BY <1>2 DEF StoreCleaned
  <2>2. t.db.content \ u.db.content \subseteq Held(u) /\ t.db.reply \ u.db.reply \subseteq Held(u)
    BY <1>2 DEF StoreCleaned
  <2>3. \A c \in t.db.requests \ u.db.requests : Mode[c] = "e16" /\ RefOf[c] \in Held(u)
    BY <1>2 DEF StoreCleaned
  <2> QED BY <1>3, <2>1, <2>2, <2>3 DEF Moved, StoreCleaned
<1>12. Moved(s, t0, u)
  BY <1>1, <1>11, MovedChain
<1> QED BY <1>1, <1>3, <1>8, <1>9, <1>10, <1>12 DEF TxInv, StoreCleaned

\* Nodes of the frontier and nodes that depend on them may be queued.
LEMMA DependentsQueueable ==
    ASSUME NEW s \in Sources, NEW t0, NEW t, TxInv(s, t0, t), NEW N,
           \A a \in N : a \in HeldNodes(t) \/ \E e \in t.db.deps : e[1] = a /\ e[2] \in HeldNodes(t)
    PROVE  Queueable(s, t, N)
<1>1. t \in Transaction /\ DatabaseSound(t.db) /\ HeldIsDerived(s, t) /\ HoldsStored(s, t)
  BY DEF TxInv, JobSound
<1>2. \A e \in t.db.deps : e[1] \in Nodes /\ e[1] \in StoredIn(t.db) /\ e[1] \notin Sources
  BY <1>1, StaticFacts DEF DatabaseSound
<1>3. N \subseteq Nodes /\ N \subseteq StoredIn(t.db) /\ N \cap Sources \subseteq {s}
  BY <1>1, <1>2 DEF HoldsStored, HeldNodes
<1>4. N \subseteq RowKeys /\ N \cap Nodes = N
  BY <1>3, NodeKeys
<1>5. ASSUME NEW E, t.db.deps \subseteq E, ReachedOver(s, HeldNodes(t), E)
      PROVE  ReachedOver(s, N, E)
  <2> SUFFICES ASSUME NEW M \in SUBSET Nodes, s \in M, Back(M, E) PROVE N \subseteq M
    BY DEF ReachedOver
  <2>1. HeldNodes(t) \subseteq M
    BY <1>5 DEF ReachedOver
  <2>2. ASSUME NEW a \in N, a \notin HeldNodes(t) PROVE a \in M
    <3>1. PICK e \in t.db.deps : e[1] = a /\ e[2] \in HeldNodes(t)
      BY <2>2
    <3> QED BY <1>5, <2>1, <3>1 DEF Back
  <2> QED BY <2>1, <2>2
<1>6. t.db.deps \subseteq LastingEdges(t.db)
  BY DEF LastingEdges
<1>7. ReachedOver(s, N, LastingEdges(t.db))
  BY <1>1, <1>5, <1>6 DEF HeldIsDerived
<1>8. s \in GatedSources => ReachedOver(s, N, t.db.deps)
  BY <1>1, <1>5 DEF HeldIsDerived
<1> QED BY <1>3, <1>4, <1>7, <1>8 DEF Queueable

\* The dependents of a node are nodes with an edge to it.
LEMMA DependentFacts ==
    ASSUME NEW t \in Transaction, NEW n
    PROVE  /\ Dependents(t, n) \in SUBSET Nodes /\ Dependents(t, n) \in SUBSET Nat
           /\ IsFiniteSet(Dependents(t, n))
           /\ \A a \in Dependents(t, n) : \E e \in t.db.deps : e[1] = a /\ e[2] = n
           /\ \A e \in t.db.deps : e[2] = n => e[1] \in Dependents(t, n)
<1>1. t.db.deps \in SUBSET (Nodes \X Nodes)
  BY DEF Transaction, Database
<1>2. Dependents(t, n) \in SUBSET Nodes
  BY <1>1 DEF Dependents
<1>3. IsFiniteSet(Dependents(t, n))
  BY <1>2, NodesFinite, FS_Subset
<1> QED BY <1>2, <1>3, NodeKeys DEF Dependents

\* expand_node by its three parts.
LEMMA NodeExpansion ==
    ASSUME NEW t, NEW n, NEW limit, NEW q, q = Queue(t, Page(Dependents(t, n), t.rows[n].cursor, limit)),
           NEW v, v = Advance(q, n, Dependents(t, n), limit)
    PROVE  expand_node(t, n, limit) = CleanedNode(v, n)
<1>1. \A x : (CHOOSE y \in {Advance(w, n, Dependents(t, n), limit) : w \in {x}} : TRUE)
             = Advance(x, n, Dependents(t, n), limit)
  OBVIOUS
<1>2. \A x : (CHOOSE y \in {CleanedNode(w, n) : w \in {x}} : TRUE) = CleanedNode(x, n)
  OBVIOUS
<1> QED BY <1>1, <1>2, Zenon DEF expand_node, Pass

\* expand_node keeps the invariant.
LEMMA ExpandNodeKeeps ==
    ASSUME NEW s \in Sources, NEW t0, NEW t, TxInv(s, t0, t), NEW n \in HeldNodes(t),
           NEW limit \in Nat \ {0}
    PROVE  TxInv(s, t0, expand_node(t, n, limit))
<1> DEFINE K == Dependents(t, n)
           P == Page(K, t.rows[n].cursor, limit)
           q == Queue(t, P)
           v == Advance(q, n, K, limit)
           u == CleanedNode(v, n)
<1>1. expand_node(t, n, limit) = u
  BY NodeExpansion
<1>2. t \in Transaction /\ n \in Nodes /\ n \in Held(t)
  BY DEF TxInv, HeldNodes
<1>3. /\ K \in SUBSET Nodes /\ K \in SUBSET Nat /\ IsFiniteSet(K)
      /\ \A a \in K : \E e \in t.db.deps : e[1] = a /\ e[2] = n
  BY <1>2, DependentFacts
<1>4. P \subseteq K
  <2>1. t.rows[n].cursor \in Nat
    BY <1>2, RowFacts
  <2>2. P \subseteq After(K, t.rows[n].cursor)
    BY <1>3, <2>1, PageFacts
  <2> QED BY <2>2 DEF After
<1>5. P \in SUBSET RowKeys /\ Queueable(s, t, P)
  <2>1. \A a \in P : \E e \in t.db.deps : e[1] = a /\ e[2] \in HeldNodes(t)
    BY <1>3, <1>4
  <2> HIDE DEF P
  <2>2. Queueable(s, t, P)
    BY <2>1, DependentsQueueable
  <2> QED BY <2>2 DEF Queueable
<1> HIDE DEF K, P
<1>6. Queued(t, q, P)
  BY <1>2, <1>5, QueueQueues
<1> HIDE DEF q
<1>7. TxInv(s, t0, q)
  BY <1>5, <1>6, QueueKeeps
<1>8. q \in Transaction /\ n \in Held(q) /\ n \in HeldNodes(q)
  BY <1>2, <1>6 DEF Queued, HeldNodes
<1>9. RowRead(q, v, n)
  BY <1>3, <1>8, AdvanceReads
<1> HIDE DEF v
<1>10. /\ v \in Transaction /\ v.db = q.db /\ v.disk = q.disk /\ v.state = q.state
       /\ Held(v) = Held(q) /\ \A m \in Held(q) : m # n => v.rows[m] = q.rows[m]
       /\ v.rows[n].at = q.rows[n].at
  BY <1>9 DEF RowRead, SameStore
<1>11. CASE v.rows[n].expanded
  <2> DEFINE w == [v EXCEPT !.db.reply = @ \ {n}]
  <2>1. u = cleanup_node_content(w, n)
    BY <1>11 DEF CleanedNode
  <2>2. n \in StoredIn(v.db)
    BY <1>7, <1>8, <1>10 DEF TxInv, JobSound, HoldsStored
  <2>3. NodeCleaned(v, u, n) /\ (u.state # "failed" => NodeClean(u.db, u.disk, n))
    <3> HIDE DEF u
    <3> QED BY <1>2, <1>10, <2>1, <2>2, CleanFacts
  <2> HIDE DEF u
  <2>4. u \in Transaction /\ u.rows = v.rows /\ Held(u) = Held(q)
    BY <1>10, <2>3 DEF NodeCleaned, Held
  <2>5. StoreCleaned(q, u, n)
    BY <1>10, <2>3 DEF NodeCleaned, StoreCleaned
  <2>6. TxInv(s, t0, u)
    BY <1>7, <1>8, <1>10, <2>3, <2>4, <2>5, NodeKeeps
  <2> QED BY <1>1, <2>6
<1>12. CASE ~v.rows[n].expanded
  <2>1. u = v
    BY <1>12 DEF CleanedNode
  <2>2. StoreCleaned(q, v, n)
    BY <1>10 DEF StoreCleaned
  <2>3. TxInv(s, t0, v)
    BY <1>7, <1>8, <1>10, <1>12, <2>2, NodeKeeps
  <2> QED BY <1>1, <2>1, <2>3
<1> QED BY <1>11, <1>12

\* Edges and references were written, and the requests of C redacted.
StoreIndexed(t, u, F, R, C) ==
    /\ u \in Transaction /\ u.rows = t.rows /\ u.disk = t.disk
    /\ u.state = t.state \/ u.state = "failed"
    /\ u.db.deps = t.db.deps \cup F /\ u.db.content = t.db.content \cup R
    /\ u.db.redacted = t.db.redacted /\ u.db.reply = t.db.reply
    /\ u.db.tombstone = t.db.tombstone /\ u.db.calls = t.db.calls
    /\ u.db.requests = t.db.requests \ C

\* The edges are known to the objects and calls of the store, the calls to the job.
Indexable(s, t0, t, F, R, C) ==
    /\ F \subseteq StaticEdges /\ F \subseteq EdgesIn(t0.db)
    /\ \A e \in F : e[1] \in StoredIn(t.db) \cup R
    /\ \A n \in R : n \in Nodes /\ Class[n] = "ref"
    /\ \A c \in C : /\ s \in Named[c] \/ (Mode[c] = "e16" /\ RefOf[c] \in Held(t))
                    /\ IndexEdges(c) \subseteq t.db.deps \cup F

\* So does adding the edges and references that a scan finds.
LEMMA IndexKeeps ==
    ASSUME NEW s \in Sources, NEW t0, NEW t, TxInv(s, t0, t), NEW F, NEW R, NEW C,
           Indexable(s, t0, t, F, R, C), NEW u, StoreIndexed(t, u, F, R, C)
    PROVE  TxInv(s, t0, u)
<1>1. /\ t \in Transaction /\ DatabaseSound(t.db) /\ JobSound(s, t) /\ HeldIsDerived(s, t)
      /\ t.db.deps \subseteq EdgesIn(t0.db) /\ Moved(s, t0, t)
  BY DEF TxInv
<1>2. /\ u \in Transaction /\ u.rows = t.rows /\ Held(u) = Held(t) /\ HeldNodes(u) = HeldNodes(t)
  BY DEF StoreIndexed, Held, HeldNodes
<1>3. StoredIn(u.db) = StoredIn(t.db) \cup R /\ t.db.deps \subseteq u.db.deps
  BY DEF StoreIndexed, StoredIn
<1>4. DatabaseSound(u.db)
  <2>1. u.db.content \cap u.db.redacted = {} /\ u.db.requests \subseteq u.db.calls
    BY <1>1 DEF StoreIndexed, Indexable, DatabaseSound
  <2>2. \A e \in u.db.deps : e \in StaticEdges /\ e[1] \in StoredIn(u.db)
    BY <1>1, <1>3 DEF StoreIndexed, Indexable, DatabaseSound
  <2>3. \A c \in u.db.calls : IF Mode[c] = "e16" THEN RefOf[c] \in StoredIn(u.db)
                              ELSE c \in u.db.requests \/ IndexEdges(c) \subseteq u.db.deps
    BY <1>1, <1>3 DEF StoreIndexed, Indexable, DatabaseSound
  <2>4. \A m \in u.db.redacted : Class[m] \notin {"fact", "ref"}
    BY <1>1 DEF StoreIndexed, DatabaseSound
  <2>5. Historical \subseteq StoredIn(u.db)
    BY <1>1, <1>3 DEF DatabaseSound
  <2> QED BY <2>1, <2>2, <2>3, <2>4, <2>5 DEF DatabaseSound
<1>5. SeqsInRange(u) /\ ReportsFound(u)
  BY <1>1, <1>2 DEF JobSound, SeqsInRange, ReportsFound
<1>6. HoldsStored(s, u)
  BY <1>1, <1>2, <1>3 DEF JobSound, HoldsStored
<1>7. ExpandedClean(u)
  BY <1>1, <1>2 DEF JobSound, ExpandedClean, NodeClean, StoreIndexed, Indexable
<1>8. WorldsFound(s, u)
  BY <1>1, <1>2 DEF JobSound, WorldsFound, StoreIndexed, Indexable
<1>9. JobSound(s, u)
  BY <1>1, <1>5, <1>6, <1>7, <1>8 DEF JobSound, StoreIndexed
<1>10. LastingEdges(t.db) \subseteq LastingEdges(u.db)
  <2>1. t.db.content \subseteq u.db.content /\ u.db.calls = t.db.calls
    BY DEF StoreIndexed
  <2>2. t.db.content \subseteq Nodes
    BY <1>1 DEF Transaction, Database
  <2>3. \A m \in t.db.content \ u.db.content : m \notin Tickets
    BY <2>1
  <2>4. StoredIn(t.db) \subseteq StoredIn(u.db)
    BY <1>3
  <2> QED BY <1>3, <2>1, <2>2, <2>3, <2>4, LastingKept
<1>11. HeldIsDerived(s, u)
  BY <1>1, <1>2, <1>3, <1>10, ReachedMore DEF HeldIsDerived
<1>12. Moved(s, t, u)
  BY <1>2, <1>3 DEF Moved, StoreIndexed, Indexable
<1>13. Moved(s, t0, u)
  BY <1>1, <1>12, MovedChain
<1>14. u.db.deps \subseteq EdgesIn(t0.db)
  BY <1>1 DEF StoreIndexed, Indexable
<1> QED BY <1>2, <1>4, <1>9, <1>11, <1>13, <1>14 DEF TxInv, StoreIndexed

\* The world scan: drafts over the source get their edge and are queued.
WorldKeys(t) == {n \in t.db.content \cup t.db.redacted : Class[n] = "world"}

WorldHits(t, s, P) == {n \in P : n \in t.db.content /\ s \in Upstream[n]}

WithEdges(t, F) == [t EXCEPT !.db.deps = @ \cup F]

\* Adding edges alone.
LEMMA EdgesAdded ==
    ASSUME NEW t \in Transaction, NEW F \in SUBSET (Nodes \X Nodes)
    PROVE  StoreIndexed(t, WithEdges(t, F), F, {}, {})
<1> DEFINE d == [t.db EXCEPT !.deps = @ \cup F]
<1>1. WithEdges(t, F) = [t EXCEPT !.db = d]
  BY DEF WithEdges, Transaction, Database
<1>2. /\ d \in Database /\ d.deps = t.db.deps \cup F /\ d.content = t.db.content
      /\ d.redacted = t.db.redacted /\ d.reply = t.db.reply /\ d.tombstone = t.db.tombstone
      /\ d.calls = t.db.calls /\ d.requests = t.db.requests
  BY DEF Transaction, Database
<1> HIDE DEF d
<1>3. t.db.content = t.db.content \cup {} /\ t.db.requests = t.db.requests \ {}
  OBVIOUS
<1> QED BY <1>1, <1>2, <1>3 DEF Transaction, StoreIndexed

\* expand_world_scan by its parts.
LEMMA WorldScanExpansion ==
    ASSUME NEW t, NEW s, NEW limit, NEW P, P = Page(WorldKeys(t), t.rows[WorldScan].cursor, limit),
           NEW h, h = WorldHits(t, s, P), NEW q, q = Queue(WithEdges(t, h \X {s}), h)
    PROVE  expand_world_scan(t, s, limit) = Advance(q, WorldScan, WorldKeys(t), limit)
<1>1. \A x : (CHOOSE y \in {Advance(w, WorldScan, WorldKeys(t), limit) : w \in {x}} : TRUE)
             = Advance(x, WorldScan, WorldKeys(t), limit)
  OBVIOUS
<1> QED BY <1>1, Zenon DEF expand_world_scan, Pass, WorldKeys, WorldHits, WithEdges

\* expand_world_scan keeps the invariant: no world is left behind its cursor.
LEMMA WorldScanKeeps ==
    ASSUME NEW s \in Sources, NEW t0, NEW t, TxInv(s, t0, t), NEW limit \in Nat \ {0}
    PROVE  TxInv(s, t0, expand_world_scan(t, s, limit))
<1> DEFINE K == WorldKeys(t)
           P == Page(K, t.rows[WorldScan].cursor, limit)
           h == WorldHits(t, s, P)
           F == h \X {s}
           v == WithEdges(t, F)
           q == Queue(v, h)
           u == Advance(q, WorldScan, K, limit)
<1>1. expand_world_scan(t, s, limit) = u
  BY WorldScanExpansion
<1>2. t \in Transaction /\ JobSound(s, t) /\ Moved(s, t0, t) /\ WorldScan \in Held(t) /\ s \in HeldNodes(t)
  BY SourceFacts DEF TxInv, JobSound, HoldsStored, HeldNodes
<1>3. K \in SUBSET Nodes /\ K \in SUBSET Nat /\ IsFiniteSet(K)
  <2>1. K \in SUBSET Nodes
    BY <1>2 DEF WorldKeys, Transaction, Database
  <2> QED BY <2>1, NodeKeys, NodesFinite, FS_Subset
<1>4. P \subseteq K
  <2>1. t.rows[WorldScan].cursor \in Nat
    BY <1>2, RowFacts
  <2>2. P \subseteq After(K, t.rows[WorldScan].cursor)
    BY <1>3, <2>1, PageFacts
  <2> QED BY <2>2 DEF After
<1>5. \A n \in h : n \in Nodes /\ Class[n] = "world" /\ n \in t.db.content /\ s \in Upstream[n]
  BY <1>3, <1>4 DEF WorldHits, WorldKeys
<1>6. \A n \in P : n \in t.db.content /\ s \in Upstream[n] => n \in h
  BY DEF WorldHits
<1> HIDE DEF h, P
<1>7. F \in SUBSET (Nodes \X Nodes) /\ \A e \in F : e[1] \in h /\ e[2] = s /\ e = <<e[1], s>>
  BY <1>5, SourceFacts
<1>8. \A n \in h : <<n, s>> \in F
  OBVIOUS
<1> HIDE DEF F
<1>9. Indexable(s, t0, t, F, {}, {})
  <2>1. ASSUME NEW e \in F PROVE e \in StaticEdges /\ e \in EdgesIn(t0.db) /\ e[1] \in StoredIn(t.db)
    <3>1. e[1] \in Nodes /\ Class[e[1]] = "world" /\ e[1] \in t.db.content /\ e \in EdgesOf(e[1])
      BY <1>5, <1>7, EdgeFacts
    <3>2. e[1] \in t0.db.content
      BY <1>2, <3>1 DEF Moved
    <3> QED BY <3>1, <3>2 DEF StaticEdges, WrittenEdges, EdgesIn, WorldEdges, StoredIn
  <2> QED BY <2>1 DEF Indexable
<1>10. StoreIndexed(t, v, F, {}, {})
  BY <1>2, <1>7, EdgesAdded
<1> HIDE DEF v
<1>11. TxInv(s, t0, v)
  BY <1>9, <1>10, IndexKeeps
<1>12. v \in Transaction /\ v.rows = t.rows /\ v.db.content = t.db.content /\ F \subseteq v.db.deps
       /\ Held(v) = Held(t) /\ HeldNodes(v) = HeldNodes(t)
  BY <1>10 DEF StoreIndexed, Held, HeldNodes
<1>13. Queueable(s, v, h)
  <2>1. \A a \in h : \E e \in v.db.deps : e[1] = a /\ e[2] \in HeldNodes(v)
    BY <1>2, <1>7, <1>8, <1>12
  <2> QED BY <1>11, <2>1, DependentsQueueable
<1>14. h \in SUBSET RowKeys
  BY <1>13 DEF Queueable
<1>15. Queued(v, q, h)
  BY <1>12, <1>14, QueueQueues
<1> HIDE DEF q
<1>16. TxInv(s, t0, q)
  BY <1>11, <1>13, <1>15, QueueKeeps
<1>17. /\ q \in Transaction /\ WorldScan \in Held(q) /\ q.rows[WorldScan] = t.rows[WorldScan]
       /\ h \subseteq Held(q) /\ q.db.content = t.db.content /\ WorldsFound(s, q)
  BY <1>2, <1>12, <1>15, <1>16 DEF Queued, SameStore, TxInv, JobSound
<1>18. RowRead(q, u, WorldScan) /\ Covers(q, u, WorldScan, K, P)
  <2>1. q \in Transaction /\ WorldScan \in Held(q)
    BY <1>17
  <2>2. Covers(q, u, WorldScan, K, Page(K, q.rows[WorldScan].cursor, limit)) /\ RowRead(q, u, WorldScan)
    BY <1>3, <2>1, AdvanceReads
  <2> QED BY <1>17, <2>2 DEF P
<1> HIDE DEF u
<1>19. WorldsFound(s, u)
  <2> SUFFICES ASSUME NEW n \in u.db.content, Class[n] = "world", s \in Upstream[n]
               PROVE  n \in Held(u) \/ (~u.rows[WorldScan].expanded /\ n > u.rows[WorldScan].cursor)
    BY DEF WorldsFound
  <2>1. n \in q.db.content /\ n \in t.db.content /\ n \in K /\ Held(u) = Held(q)
    BY <1>17, <1>18 DEF RowRead, SameStore, WorldKeys
  <2>2. n \in Held(q) \/ n > q.rows[WorldScan].cursor
    BY <1>17, <2>1 DEF WorldsFound
  <2>3. CASE n \in P
    BY <1>6, <1>17, <2>1, <2>3
  <2> HIDE DEF K
  <2> QED BY <1>18, <2>1, <2>2, <2>3 DEF Covers
<1>20. TxInv(s, t0, u)
  BY <1>16, <1>18, <1>19, ScanKeeps
<1> QED BY <1>1, <1>20

-----------------------------------------------------------------------------
(* Scans of calls.                                                         *)

Hits(t, s, C) == {c \in C : Matches(t, s, c)}

IndexedBy(t, s, C) == Hits(t, s, C) \cup {c \in C : Mode[c] = "e16" /\ ~Isolated(t, c)}

Scanned(t, s, C) ==
    [t EXCEPT !.db.deps = @ \cup UNION {IndexEdges(c) : c \in IndexedBy(t, s, C)},
              !.db.content = @ \cup {RefOf[c] : c \in Hits(t, s, C)},
              !.db.bound = @ \cup Hits(t, s, C),
              !.db.requests = @ \ Hits(t, s, C),
              !.state = IF \E c \in C : Isolated(t, c) THEN "failed" ELSE @]

\* ScanCalls by its parts.
LEMMA ScanCallsIs ==
    ASSUME NEW t, NEW s, NEW C
    PROVE  ScanCalls(t, s, C) = Queue(Scanned(t, s, C), {RefOf[c] : c \in Hits(t, s, C)})
  BY Zenon DEF ScanCalls, Scanned, Hits, IndexedBy

\* What it does to the store.
LEMMA ScannedIndexes ==
    ASSUME NEW t \in Transaction, NEW s, NEW C \in SUBSET Calls
    PROVE  StoreIndexed(t, Scanned(t, s, C), UNION {IndexEdges(c) : c \in IndexedBy(t, s, C)},
                        {RefOf[c] : c \in Hits(t, s, C)}, Hits(t, s, C))
<1> DEFINE h == Hits(t, s, C)
           F == UNION {IndexEdges(c) : c \in IndexedBy(t, s, C)}
           R == {RefOf[c] : c \in h}
           x == IF \E c \in C : Isolated(t, c) THEN "failed" ELSE t.state
           d == [t.db EXCEPT !.deps = @ \cup F, !.content = @ \cup R, !.bound = @ \cup h, !.requests = @ \ h]
<1>1. h \in SUBSET Calls /\ IndexedBy(t, s, C) \in SUBSET Calls
  BY DEF Hits, IndexedBy
<1>2. R \in SUBSET Nodes /\ F \in SUBSET (Nodes \X Nodes)
  <2> HIDE DEF h
  <2>1. R \in SUBSET Nodes
    BY <1>1, CallKeys
  <2>2. \A c \in IndexedBy(t, s, C) : IndexEdges(c) \subseteq Nodes \X Nodes
    BY <1>1, EdgeFacts
  <2> QED BY <2>1, <2>2
<1>3. x \in JobStates /\ (x = t.state \/ x = "failed")
  BY DEF Transaction, JobStates
<1>4. Scanned(t, s, C) = [t EXCEPT !.db = d, !.state = x]
  BY DEF Scanned, Transaction, Database
<1> HIDE DEF h, F, R, x
<1>5. /\ d \in Database /\ d.deps = t.db.deps \cup F /\ d.content = t.db.content \cup R
      /\ d.redacted = t.db.redacted /\ d.reply = t.db.reply /\ d.tombstone = t.db.tombstone
      /\ d.calls = t.db.calls /\ d.requests = t.db.requests \ h
  BY <1>1, <1>2 DEF Transaction, Database, h
<1> HIDE DEF d
<1>6. StoreIndexed(t, Scanned(t, s, C), F, R, h)
  BY <1>3, <1>4, <1>5 DEF Transaction, StoreIndexed
<1> QED BY <1>6 DEF F, R, h

\* ScanCalls keeps the invariant.
LEMMA ScanCallsKeeps ==
    ASSUME NEW s \in Sources, NEW t0, NEW t, TxInv(s, t0, t), NEW C \in SUBSET t.db.calls
    PROVE  TxInv(s, t0, ScanCalls(t, s, C))
<1> DEFINE h == Hits(t, s, C)
           I == IndexedBy(t, s, C)
           F == UNION {IndexEdges(c) : c \in I}
           R == {RefOf[c] : c \in h}
           v == Scanned(t, s, C)
           q == Queue(v, R)
<1>1. ScanCalls(t, s, C) = q
  BY ScanCallsIs
<1>2. t \in Transaction /\ DatabaseSound(t.db) /\ JobSound(s, t) /\ Moved(s, t0, t) /\ s \in HeldNodes(t)
  BY SourceFacts DEF TxInv, JobSound, HoldsStored, HeldNodes
<1>3. C \in SUBSET Calls /\ t0.db.calls = t.db.calls
  BY <1>2 DEF Transaction, Database, Moved
<1>4. StoreIndexed(t, v, F, R, h)
  BY <1>2, <1>3, ScannedIndexes
<1>5. /\ h \subseteq C /\ h \subseteq I /\ I \subseteq C
      /\ \A c \in I : c \in h \/ Mode[c] = "e16"
      /\ \A c \in h : s \in Named[c] \/ (Mode[c] = "e16" /\ RefOf[c] \in Held(t))
  BY DEF Hits, IndexedBy, Matches
<1> HIDE DEF h, I, v
<1>6. Indexable(s, t0, t, F, R, h)
  <2>1. ASSUME NEW e \in F
        PROVE  e \in StaticEdges /\ e \in EdgesIn(t0.db) /\ e[1] \in StoredIn(t.db) \cup R
    <3>1. PICK c \in I : e \in IndexEdges(c)
      OBVIOUS
    <3>2. c \in Calls /\ c \in t.db.calls /\ c \in t0.db.calls /\ e[1] = RefOf[c]
      BY <1>3, <1>5, <3>1, EdgeFacts
    <3>3. e \in StaticEdges
      BY <3>1, <3>2 DEF StaticEdges
    <3>4. e \in EdgesIn(t0.db)
      BY <3>1, <3>2 DEF EdgesIn, CallEdges
    <3>5. c \in h \/ RefOf[c] \in StoredIn(t.db)
      BY <1>2, <1>5, <3>2 DEF DatabaseSound
    <3> QED BY <3>2, <3>3, <3>4, <3>5
  <2>2. \A n \in R : n \in Nodes /\ Class[n] = "ref"
    BY <1>3, <1>5, CallKeys, RefFacts
  <2>3. \A c \in h : IndexEdges(c) \subseteq t.db.deps \cup F
    BY <1>5
  <2> HIDE DEF F, R
  <2>4. F \subseteq StaticEdges /\ F \subseteq EdgesIn(t0.db) /\ \A e \in F : e[1] \in StoredIn(t.db) \cup R
    BY <2>1
  <2> QED BY <1>5, <2>2, <2>3, <2>4 DEF Indexable
<1>7. TxInv(s, t0, v)
  <2> HIDE DEF F, R
  <2> QED BY <1>4, <1>6, IndexKeeps
<1>8. v \in Transaction /\ Held(v) = Held(t) /\ HeldNodes(v) = HeldNodes(t) /\ F \subseteq v.db.deps
  BY <1>4 DEF StoreIndexed, Held, HeldNodes
<1>9. Queueable(s, v, R)
  <2>1. ASSUME NEW a \in R
        PROVE  a \in HeldNodes(v) \/ \E e \in v.db.deps : e[1] = a /\ e[2] \in HeldNodes(v)
    <3>1. PICK c \in h : a = RefOf[c]
      OBVIOUS
    <3>2. c \in Calls /\ a \in Nodes /\ c \in I
      BY <1>3, <1>5, <3>1, CallKeys
    <3>3. CASE s \in Named[c]
      <4>1. <<a, s>> \in F
        BY <3>1, <3>2, <3>3, EdgeFacts
      <4> QED BY <1>2, <1>8, <4>1
    <3>4. CASE RefOf[c] \in Held(t)
      BY <1>8, <3>1, <3>2, <3>4 DEF HeldNodes
    <3> QED BY <1>5, <3>3, <3>4
  <2> HIDE DEF R
  <2> QED BY <1>7, <2>1, DependentsQueueable
<1> HIDE DEF R
<1>10. R \in SUBSET RowKeys
  BY <1>9 DEF Queueable
<1>11. Queued(v, q, R)
  BY <1>8, <1>10, QueueQueues
<1> HIDE DEF q
<1>12. TxInv(s, t0, q)
  BY <1>7, <1>9, <1>11, QueueKeeps
<1> QED BY <1>1, <1>12

\* expand_budget_scan by its parts.
LEMMA BudgetScanExpansion ==
    ASSUME NEW t, NEW s, NEW limit, NEW P, P = Page(t.db.calls, t.rows[BudgetScan].cursor, limit)
    PROVE  expand_budget_scan(t, s, limit) = Advance(ScanCalls(t, s, P), BudgetScan, t.db.calls, limit)
<1>1. \A x : (CHOOSE y \in {Advance(w, BudgetScan, t.db.calls, limit) : w \in {x}} : TRUE)
             = Advance(x, BudgetScan, t.db.calls, limit)
  OBVIOUS
<1> QED BY <1>1, Zenon DEF expand_budget_scan, Pass

\* expand_budget_scan keeps the invariant.
LEMMA BudgetScanKeeps ==
    ASSUME NEW s \in Sources, NEW t0, NEW t, TxInv(s, t0, t), NEW limit \in Nat \ {0}
    PROVE  TxInv(s, t0, expand_budget_scan(t, s, limit))
<1> DEFINE K == t.db.calls
           P == Page(K, t.rows[BudgetScan].cursor, limit)
           q == ScanCalls(t, s, P)
           u == Advance(q, BudgetScan, K, limit)
<1>1. expand_budget_scan(t, s, limit) = u
  BY BudgetScanExpansion
<1>2. t \in Transaction /\ BudgetScan \in Held(t) /\ K \in SUBSET Calls
  BY DEF TxInv, JobSound, HoldsStored, Transaction, Database
<1>3. K \in SUBSET Nat /\ IsFiniteSet(K)
  BY <1>2, CallKeys, FS_Subset
<1>4. P \in SUBSET K
  <2>1. t.rows[BudgetScan].cursor \in Nat
    BY <1>2, RowFacts
  <2>2. P \subseteq After(K, t.rows[BudgetScan].cursor)
    BY <1>3, <2>1, PageFacts
  <2> QED BY <2>2 DEF After
<1> HIDE DEF P
<1>5. TxInv(s, t0, q)
  BY <1>4, ScanCallsKeeps
<1> HIDE DEF q
<1>6. q \in Transaction /\ BudgetScan \in Held(q) /\ WorldScan \in Held(q) /\ WorldsFound(s, q)
  BY <1>5 DEF TxInv, JobSound, HoldsStored
<1>7. RowRead(q, u, BudgetScan)
  <2>1. q \in Transaction /\ BudgetScan \in Held(q)
    BY <1>6
  <2> QED BY <1>3, <2>1, AdvanceReads
<1> HIDE DEF u
<1>8. WorldsFound(s, u)
  BY <1>6, <1>7, NodeKeys DEF RowRead, SameStore, WorldsFound
<1>9. TxInv(s, t0, u)
  BY <1>5, <1>7, <1>8, ScanKeeps
<1> QED BY <1>1, <1>9

-----------------------------------------------------------------------------
(* A step of a job.                                                        *)

\* The first pending row is pending.
LEMMA FirstIsPending ==
    ASSUME NEW t \in Transaction, Pending(t) # {}
    PROVE  FirstPending(t) \in Pending(t)
<1> DEFINE A == {t.rows[n].at : n \in Pending(t)}
<1>1. \A n \in Pending(t) : t.rows[n].at \in Nat
  BY RowFacts DEF Pending
<1>2. A \in SUBSET Nat /\ A # {}
  BY <1>1
<1>3. PICK x \in A : \A y \in A : x <= y
  <2> HIDE DEF A
  <2> QED BY <1>2, LeastNatural
<1>4. PICK n \in Pending(t) : t.rows[n].at = x
  BY <1>3
<1>5. \A m \in Pending(t) : t.rows[n].at <= t.rows[m].at
  BY <1>3, <1>4
<1> QED BY <1>4, <1>5 DEF FirstPending

\* One expansion keeps the invariant, whichever row is first.
LEMMA FrontierKeeps ==
    ASSUME NEW s \in Sources, NEW t0, NEW t, TxInv(s, t0, t), NEW limit \in Nat \ {0}
    PROVE  TxInv(s, t0, expand_frontier(t, s, limit))
<1>0. t \in Transaction
  BY DEF TxInv
<1>1. CASE Pending(t) = {}
  BY <1>1 DEF expand_frontier
<1>2. CASE Pending(t) # {}
  <2> DEFINE n == FirstPending(t)
  <2>1. n \in Held(t) /\ n # TicketScan /\ n \in RowKeys
    BY <1>0, <1>2, FirstIsPending, RowFacts DEF Pending
  <2>2. n = BudgetScan \/ n = WorldScan \/ (n # BudgetScan /\ n # WorldScan /\ n \in HeldNodes(t))
    BY <2>1 DEF RowKeys, HeldNodes
  <2>3. expand_frontier(t, s, limit) =
            CASE n = BudgetScan -> expand_budget_scan(t, s, limit)
              [] n = WorldScan  -> expand_world_scan(t, s, limit)
              [] OTHER          -> expand_node(t, n, limit)
    BY <1>2 DEF expand_frontier
  <2> HIDE DEF n
  <2>4. CASE n = BudgetScan
    BY <2>3, <2>4, BudgetScanKeeps, NodeKeys
  <2>5. CASE n = WorldScan
    BY <2>3, <2>5, WorldScanKeeps, NodeKeys
  <2>6. CASE n # BudgetScan /\ n # WorldScan /\ n \in HeldNodes(t)
    <3>1. TxInv(s, t0, expand_node(t, n, limit))
      BY <2>6, ExpandNodeKeeps
    <3> QED BY <2>3, <2>6, <3>1
  <2> QED BY <2>2, <2>4, <2>5, <2>6
<1> QED BY <1>1, <1>2

\* f is the iteration of Expansions on the numbers up to k.
Expands(f, t, s, limit, k) ==
    f = [i \in 0..k |-> IF i = 0 THEN t ELSE expand_frontier(f[i - 1], s, limit)]

\* The loop of expansions is the last of its iterates.
LEMMA ExpansionsAreChosen ==
    ASSUME NEW t, NEW s, NEW limit
    PROVE  Expansions(t, s, limit) = (CHOOSE f : Expands(f, t, s, limit, limit))[limit]
<1>1. \A x : (CHOOSE y \in {expand_frontier(w, s, limit) : w \in {x}} : TRUE)
             = expand_frontier(x, s, limit)
  OBVIOUS
<1> QED BY <1>1, Zenon DEF Expansions, Expands, Pass

\* The iterates exist.
LEMMA ExpandsExist ==
    ASSUME NEW t, NEW s, NEW limit, NEW k \in Nat
    PROVE  \E f : Expands(f, t, s, limit, k)
<1> DEFINE S == {i \in Nat : \E f : Expands(f, t, s, limit, i)}
<1>1. 0 \in S
  <2> DEFINE f == [i \in 0..0 |-> t]
  <2>1. \A i \in 0..0 : (IF i = 0 THEN t ELSE expand_frontier(f[i - 1], s, limit)) = t
    OBVIOUS
  <2>2. Expands(f, t, s, limit, 0)
    BY <2>1 DEF Expands
  <2> QED BY <2>2
<1>2. \A i \in S : i + 1 \in S
  <2> TAKE i \in S
  <2>1. PICK f : Expands(f, t, s, limit, i)
    OBVIOUS
  <2> DEFINE next == [j \in 0..(i + 1) |-> IF j = i + 1 THEN expand_frontier(f[i], s, limit) ELSE f[j]]
             body(j) == IF j = 0 THEN t ELSE expand_frontier(next[j - 1], s, limit)
  <2>2. i \in Nat
    OBVIOUS
  <2>3. \A j \in 0..(i + 1) : next[j] = body(j)
    <3> TAKE j \in 0..(i + 1)
    <3>1. CASE j = 0
      BY <2>1, <2>2, <3>1 DEF Expands
    <3>2. CASE j = i + 1
      <4>1. j - 1 = i /\ i \in 0..(i + 1) /\ i # i + 1 /\ j # 0
        BY <2>2, <3>2
      <4>2. next[i] = f[i] /\ next[j] = expand_frontier(f[i], s, limit)
        BY <4>1, <3>2
      <4> QED BY <4>1, <4>2
    <3>3. CASE j # 0 /\ j # i + 1
      <4>1. j \in 0..i /\ j - 1 \in 0..(i + 1) /\ j - 1 # i + 1
        BY <2>2, <3>3
      <4>2. next[j] = f[j] /\ next[j - 1] = f[j - 1]
        BY <4>1, <3>3
      <4>3. f[j] = expand_frontier(f[j - 1], s, limit)
        BY <2>1, <4>1, <3>3 DEF Expands
      <4> QED BY <4>2, <4>3, <3>3
    <3> QED BY <3>1, <3>2, <3>3
  <2>4. next = [j \in 0..(i + 1) |-> body(j)]
    BY <2>3
  <2>5. Expands(next, t, s, limit, i + 1)
    BY <2>4 DEF Expands
  <2> HIDE DEF next, body
  <2> QED BY <2>2, <2>5
<1>3. S = Nat
  <2> HIDE DEF S
  <2>1. S \in SUBSET Nat
    BY DEF S
  <2> QED BY <1>1, <1>2, <2>1, AllNaturals
<1> QED BY <1>3

\* The loop keeps the invariant.
LEMMA ExpansionsKeep ==
    ASSUME NEW s \in Sources, NEW t0, NEW t, TxInv(s, t0, t), NEW limit \in Nat \ {0}
    PROVE  TxInv(s, t0, Expansions(t, s, limit))
<1> DEFINE f == CHOOSE g : Expands(g, t, s, limit, limit)
<1>1. Expands(f, t, s, limit, limit)
  BY ExpandsExist
<1>2. Expansions(t, s, limit) = f[limit]
  BY ExpansionsAreChosen
<1> HIDE DEF f
<1> DEFINE S == {i \in Nat : i <= limit => TxInv(s, t0, f[i])}
<1>3. 0 \in S
  <2>1. f[0] = t
    BY <1>1 DEF Expands
  <2> QED BY <2>1
<1>4. \A i \in S : i + 1 \in S
  <2> TAKE i \in S
  <2>1. CASE i + 1 <= limit
    <3>1. i <= limit /\ i + 1 \in 0..limit /\ i + 1 # 0 /\ (i + 1) - 1 = i
      BY <2>1
    <3>2. f[i + 1] = expand_frontier(f[i], s, limit)
      BY <1>1, <3>1 DEF Expands
    <3>3. TxInv(s, t0, f[i])
      BY <3>1
    <3>4. TxInv(s, t0, expand_frontier(f[i], s, limit))
      BY <3>3, FrontierKeeps
    <3> QED BY <3>2, <3>4
  <2>2. CASE ~ (i + 1 <= limit)
    BY <2>2
  <2> QED BY <2>1, <2>2
<1>5. S = Nat
  <2> HIDE DEF S
  <2>1. S \in SUBSET Nat
    BY DEF S
  <2> QED BY <1>3, <1>4, <2>1, AllNaturals
<1>6. TxInv(s, t0, f[limit])
  BY <1>5
<1> QED BY <1>2, <1>6

\* What depends on a source over the edges that objects are written with.
DependsOn(s) == {n \in Nodes : s \in Closure({n}, WrittenEdges)}

\* What may ever depend on a source is closed under the edges writers write.
LEMMA DependsBack ==
    ASSUME NEW s \in Sources
    PROVE  s \in DependsOn(s) /\ Back(DependsOn(s), WrittenEdges)
<1>1. s \in Nodes /\ WrittenEdges \in SUBSET (Nodes \X Nodes)
  BY SourceFacts, StaticFacts
<1>2. \A n \in Nodes : /\ n \in Closure({n}, WrittenEdges)
                       /\ Closed(Closure({n}, WrittenEdges), WrittenEdges)
  <2> TAKE n \in Nodes
  <2>1. {n} \in SUBSET Nodes
    OBVIOUS
  <2> QED BY <1>1, <2>1, ClosureClosed
<1>3. ASSUME NEW e \in WrittenEdges, e[2] \in DependsOn(s) PROVE e[1] \in DependsOn(s)
  <2>1. e[1] \in Nodes /\ e[2] \in Nodes
    BY <1>1
  <2> DEFINE M == Closure({e[1]}, WrittenEdges)
  <2>2. e[1] \in M /\ Closed(M, WrittenEdges)
    BY <1>2, <2>1
  <2> HIDE DEF M
  <2>3. {e[2]} \subseteq M
    BY <2>2 DEF Closed
  <2>4. Closure({e[2]}, WrittenEdges) \subseteq M
    BY <2>2, <2>3, ClosureLeast
  <2> QED BY <1>3, <2>1, <2>4 DEF DependsOn, M
<1> QED BY <1>1, <1>2, <1>3 DEF DependsOn, Back

\* What a job of a gated source holds: objects that depend on the source, and
\* references.
LEMMA GatedHolds ==
    ASSUME NEW s \in GatedSources, NEW d, NEW H, ReachedOver(s, H, d.deps), DatabaseSound(d)
    PROVE  \A n \in H : n \in Nodes /\ (Class[n] # "ref" => n \in DependsOn(s))
<1> DEFINE M == DependsOn(s) \cup {n \in Nodes : Class[n] = "ref"}
<1>1. s \in Sources
  BY DEF GatedSources
<1>2. s \in M /\ M \in SUBSET Nodes
  BY <1>1, DependsBack DEF DependsOn
<1>3. ASSUME NEW e \in d.deps, e[2] \in M PROVE e[1] \in M
  <2>1. e \in StaticEdges /\ Class[e[2]] # "ref" /\ e[1] \in Nodes
    BY StaticFacts DEF DatabaseSound
  <2>2. e[2] \in DependsOn(s)
    BY <1>3, <2>1
  <2>3. CASE e \in WrittenEdges
    BY <1>1, <2>2, <2>3, DependsBack DEF Back
  <2>4. CASE e \notin WrittenEdges
    <3>1. PICK c \in Calls : e \in IndexEdges(c)
      BY <2>1, <2>4 DEF StaticEdges
    <3>2. e[1] = RefOf[c] /\ Class[RefOf[c]] = "ref"
      BY <3>1, EdgeFacts, RefFacts
    <3> QED BY <2>1, <3>2
  <2> QED BY <2>3, <2>4
<1>4. H \subseteq M
  <2> HIDE DEF M
  <2> QED BY <1>2, <1>3 DEF ReachedOver, Back
<1> QED BY <1>2, <1>4

\* What depends on a gated source has a writer that judges it, and is no ticket.
LEMMA GatedFacts ==
    ASSUME NEW s \in GatedSources
    PROVE  /\ s \in Sources
           /\ \A n \in DependsOn(s) : n \notin Ungated /\ n \notin Tickets
           /\ \A c \in Undeclared : s \notin Named[c]
  BY DEF GatedSources, DependsOn, WrittenEdges

\* The job of a gated source holds no ticket.
LEMMA NoTicketsOfGated ==
    ASSUME NEW s \in GatedSources, NEW t, HeldIsDerived(s, t), DatabaseSound(t.db)
    PROVE  HeldNodes(t) \cap Tickets = {}
<1>1. ReachedOver(s, HeldNodes(t), t.db.deps)
  BY DEF HeldIsDerived
<1>2. \A n \in HeldNodes(t) : Class[n] # "ref" => n \in DependsOn(s)
  BY <1>1, GatedHolds
<1> QED BY <1>2, GatedFacts, TicketFacts

Seqs(u) == {u.rows[n].at : n \in Artifacts(u)}
TicketsOn(u, P) == {n \in Artifacts(u) : u.rows[n].at \in P}

\* The reports of the tickets passed are queueable.
LEMMA ReportsQueueable ==
    ASSUME NEW s \in Sources, NEW t0, NEW t, TxInv(s, t0, t), NEW N \in SUBSET HeldNodes(t)
    PROVE  Queueable(s, t, ReportsOf(t, N))
<1> DEFINE R == ReportsOf(t, N)
<1>1. t \in Transaction /\ DatabaseSound(t.db) /\ HeldIsDerived(s, t) /\ HeldNodes(t) \in SUBSET Nodes
  BY RowFacts DEF TxInv
<1>2. StoredIn(t.db) \subseteq Nodes
  BY <1>1 DEF Transaction, Database, StoredIn
<1>3. ASSUME NEW r \in R
      PROVE  \E n \in N : n \in Tickets /\ r = ReportOf[n] /\ r \in StoredIn(t.db) /\ n \in t.db.content
  <2>1. PICK n \in N : n \in t.db.content /\ r = ReportOf[n] /\ r \in StoredIn(t.db)
    BY <1>3 DEF ReportsOf, StoredIn
  <2>2. r \in Nodes /\ r # 0 /\ n \in Nodes
    BY <1>1, <1>2, <2>1, NodeKeys
  <2> QED BY <2>1, <2>2 DEF Tickets
<1> HIDE DEF R
<1>4. R \subseteq StoredIn(t.db) /\ R \subseteq Nodes /\ R \cap Sources = {}
  BY <1>2, <1>3, TicketFacts
<1>5. ReachedOver(s, R, LastingEdges(t.db))
  <2> SUFFICES ASSUME NEW M \in SUBSET Nodes, s \in M, Back(M, LastingEdges(t.db)), NEW r \in R
               PROVE  r \in M
    BY DEF ReachedOver
  <2>1. PICK n \in N : n \in Tickets /\ r = ReportOf[n] /\ r \in StoredIn(t.db) /\ n \in t.db.content
    BY <1>3
  <2>2. n \in M
    BY <1>1 DEF HeldIsDerived, ReachedOver
  <2>3. <<r, n>> \in LastingEdges(t.db)
    BY <2>1 DEF LastingEdges, ReportEdges, Tickets
  <2> QED BY <2>2, <2>3 DEF Back
<1>6. s \in GatedSources => ReachedOver(s, R, t.db.deps)
  <2> HAVE s \in GatedSources
  <2>1. HeldNodes(t) \cap Tickets = {}
    BY <1>1, NoTicketsOfGated
  <2>2. R = {}
    BY <1>3, <2>1
  <2> QED BY <2>2 DEF ReachedOver
<1>7. R \subseteq RowKeys /\ R \cap Nodes = R
  BY <1>4, NodeKeys
<1>8. Queueable(s, t, R)
  BY <1>4, <1>5, <1>6, <1>7 DEF Queueable
<1> QED BY <1>8 DEF R

\* The ticket scan has moved: what it has passed is found.
TicketsRead(t, u) ==
    /\ u \in Transaction /\ SameStore(t, u) /\ Held(u) = Held(t) /\ TicketScan \in Held(t)
    /\ \A m \in Held(t) : m # TicketScan => u.rows[m] = t.rows[m]
    /\ u.rows[TicketScan].at = t.rows[TicketScan].at
    /\ u.rows[TicketScan].cursor <= Cardinality(Held(t))

\* Moving the ticket scan keeps the invariant.
LEMMA TicketScanKeeps ==
    ASSUME NEW s \in Sources, NEW t0, NEW t, TxInv(s, t0, t), NEW u, TicketsRead(t, u), ReportsFound(u)
    PROVE  TxInv(s, t0, u)
<1>1. /\ u \in Transaction /\ u.db = t.db /\ u.disk = t.disk /\ u.state = t.state
      /\ Held(u) = Held(t) /\ \A m \in Held(t) : m # TicketScan => u.rows[m] = t.rows[m]
      /\ u.rows[TicketScan].at = t.rows[TicketScan].at
      /\ HeldNodes(u) = HeldNodes(t)
  BY DEF TicketsRead, SameStore, HeldNodes
<1>2. /\ t \in Transaction /\ DatabaseSound(t.db) /\ JobSound(s, t) /\ HeldIsDerived(s, t)
      /\ t.db.deps \subseteq EdgesIn(t0.db) /\ Moved(s, t0, t)
  BY DEF TxInv
<1>3. HoldsStored(s, u)
  BY <1>1, <1>2 DEF JobSound, HoldsStored
<1>4. SeqsInRange(u)
  <2>1. \A n \in Held(t) : u.rows[n].at = t.rows[n].at
    BY <1>1
  <2> QED BY <1>1, <1>2, <2>1 DEF JobSound, SeqsInRange, TicketsRead
<1>5. ExpandedClean(u)
  BY <1>1, <1>2, NodeKeys DEF JobSound, ExpandedClean, HeldNodes
<1>6. WorldsFound(s, u)
  BY <1>1, <1>2, NodeKeys DEF JobSound, HoldsStored, WorldsFound
<1>7. JobSound(s, u)
  BY <1>1, <1>2, <1>3, <1>4, <1>5, <1>6 DEF JobSound
<1>8. HeldIsDerived(s, u)
  BY <1>1, <1>2 DEF HeldIsDerived
<1>9. Moved(s, t0, u)
  BY <1>1, <1>2, MovedByRows, MovedChain
<1> QED BY <1>1, <1>2, <1>7, <1>8, <1>9 DEF TxInv

\* With nothing left to expand, the frontier holds the reports of its tickets.
ReportsDone(u) ==
    u.state = "running" /\ u.rows[TicketScan].expanded /\ Pending(u) = {} =>
        \A n \in HeldNodes(u) \cap Tickets : ReportOf[n] \in Held(u)

\* The whole catch-up does, and no report behind its cursor is missing.
LEMMA CatchUpKeeps ==
    ASSUME NEW s \in Sources, NEW t0, NEW t, TxInv(s, t0, t), NEW limit \in Nat \ {0}
    PROVE  /\ TxInv(s, t0, catch_up_old_formal_cleanup(t, limit))
           /\ ReportsDone(catch_up_old_formal_cleanup(t, limit))
<1>0. CASE t.state # "running"
  <2>1. catch_up_old_formal_cleanup(t, limit) = t
    BY <1>0 DEF catch_up_old_formal_cleanup
  <2> QED BY <1>0, <2>1 DEF ReportsDone
<1>1. CASE t.state = "running"
  <2> DEFINE v == Queue(t, {TicketScan})
             K == Seqs(v)
             cursor == v.rows[TicketScan].cursor
             P == Page(K, cursor, limit)
             N == TicketsOn(v, P)
             R == ReportsOf(v, N)
             q == Queue(v, R)
             l == IF P = {} THEN cursor ELSE LastOf(P)
             x == ~HasMore(K, cursor, limit)
             u == SetRow(q, TicketScan, l, x)
  <2>1. catch_up_old_formal_cleanup(t, limit) = u
    BY <1>1, Zenon DEF catch_up_old_formal_cleanup, Seqs, TicketsOn
  <2>2. t \in Transaction /\ {TicketScan} \in SUBSET RowKeys
    BY NodeKeys DEF TxInv
  <2>3. Queued(t, v, {TicketScan})
    BY <2>2, QueueQueues
  <2>4. Queueable(s, t, {TicketScan})
    <3>1. {TicketScan} \cap Nodes = {} /\ {TicketScan} \cap Sources = {}
      BY NodeKeys
    <3> QED BY <2>2, <3>1 DEF Queueable, ReachedOver
  <2> HIDE DEF v
  <2>5. TxInv(s, t0, v)
    BY <2>3, <2>4, QueueKeeps
  <2>6. /\ v \in Transaction /\ TicketScan \in Held(v) /\ cursor \in Nat
        /\ SeqsInRange(v) /\ ReportsFound(v) /\ HoldsStored(s, v) /\ DatabaseSound(v.db)
    <3>1. v \in Transaction /\ TicketScan \in Held(v)
      BY <2>3 DEF Queued
    <3> QED BY <2>5, <3>1, RowFacts DEF TxInv, JobSound
  <2>7. Artifacts(v) \subseteq HeldNodes(v) /\ HeldNodes(v) \subseteq Held(v) /\ HeldNodes(v) \in SUBSET Nodes
    BY DEF Artifacts, HeldNodes
  <2>8. K \in SUBSET Nat /\ IsFiniteSet(K) /\ \A k \in K : k <= Cardinality(Held(v))
    <3>1. \A n \in Artifacts(v) : v.rows[n].at \in Nat /\ v.rows[n].at <= Cardinality(Held(v))
      BY <2>6, <2>7, RowFacts DEF SeqsInRange
    <3>2. Cardinality(Held(v)) \in Nat
      BY <2>6, RowFacts
    <3>3. K \subseteq 0..Cardinality(Held(v))
      BY <3>1, <3>2 DEF Seqs
    <3>4. IsFiniteSet(0..Cardinality(Held(v)))
      BY <3>2, FS_Interval
    <3>5. IsFiniteSet(K)
      BY <3>3, <3>4, FS_Subset
    <3> QED BY <3>1, <3>5 DEF Seqs
  <2>9. /\ P \subseteq K /\ \A k \in P : k > cursor
        /\ ~HasMore(K, cursor, limit) => \A k \in K : k > cursor => k \in P
        /\ P # {} => LastOf(P) \in P /\ \A k \in K : k > cursor /\ k <= LastOf(P) => k \in P
    <3>1. /\ P \subseteq After(K, cursor)
          /\ ~HasMore(K, cursor, limit) => P = After(K, cursor)
          /\ After(K, cursor) # {} => /\ LastOf(P) \in P
                                      /\ \A k \in After(K, cursor) : k <= LastOf(P) => k \in P
      <4>1. cursor \in Nat
        BY <2>6
      <4> HIDE DEF K, cursor
      <4> QED BY <2>8, <4>1, PageFacts
    <3> HIDE DEF P, K, cursor
    <3> QED BY <3>1 DEF After
  <2>10. l \in Nat /\ x \in BOOLEAN /\ l <= Cardinality(Held(v))
    <3>1. cursor <= Cardinality(Held(v))
      BY <2>6 DEF SeqsInRange
    <3> HIDE DEF P, K, cursor
    <3> QED BY <2>6, <2>8, <2>9, <3>1
  <2>11. N \in SUBSET HeldNodes(v) /\ \A n \in Artifacts(v) : v.rows[n].at \in P => n \in N
    <3> HIDE DEF P
    <3> QED BY <2>7 DEF TicketsOn
  <2>12. \A n \in HeldNodes(v) \cap Tickets : /\ n \in Artifacts(v) /\ v.rows[n].at \in K
                                              /\ n \in N => ReportOf[n] \in R
    <3> TAKE n \in HeldNodes(v) \cap Tickets
    <3>1. n \in Held(v) /\ n \in Nodes /\ Class[n] = "fact" /\ ReportOf[n] \in Historical
      BY <2>7, TicketFacts
    <3>2. n \in Artifacts(v)
      BY <3>1 DEF Artifacts
    <3>3. v.rows[n].at \in K
      BY <3>2 DEF Seqs
    <3>4. n \in v.db.content
      BY <2>6, <3>1 DEF HoldsStored, HeldNodes, StoredIn, DatabaseSound
    <3>5. ReportOf[n] \in v.db.content \cup v.db.redacted
      BY <2>6, <3>1 DEF DatabaseSound, StoredIn
    <3> HIDE DEF N
    <3>6. n \in N => ReportOf[n] \in R
      BY <3>4, <3>5 DEF ReportsOf
    <3> QED BY <3>2, <3>3, <3>6
  <2>13. Queueable(s, v, R)
    <3>1. N \in SUBSET HeldNodes(v)
      BY <2>11
    <3> HIDE DEF N
    <3> QED BY <2>5, <3>1, ReportsQueueable
  <2> HIDE DEF N, R
  <2>14. R \in SUBSET RowKeys
    BY <2>13 DEF Queueable
  <2>15. Queued(v, q, R)
    BY <2>6, <2>14, QueueQueues
  <2> HIDE DEF q
  <2>16. TxInv(s, t0, q)
    BY <2>5, <2>13, <2>15, QueueKeeps
  <2>17. /\ q \in Transaction /\ TicketScan \in Held(q) /\ Held(q) = Held(v) \cup R
         /\ \A m \in Held(v) : q.rows[m] = v.rows[m]
         /\ \A m \in R \ Held(v) : ~q.rows[m].expanded /\ q.rows[m].at > Cardinality(Held(v))
    BY <2>6, <2>15 DEF Queued
  <2> HIDE DEF l, x
  <2>18. /\ u \in Transaction /\ SameStore(q, u) /\ Held(u) = Held(q)
         /\ \A m \in Held(q) : m # TicketScan => u.rows[m] = q.rows[m]
         /\ u.rows[TicketScan].at = q.rows[TicketScan].at
         /\ u.rows[TicketScan].cursor = l /\ u.rows[TicketScan].expanded = x
    <3>1. q \in Transaction /\ TicketScan \in Held(q) /\ l \in Nat /\ x \in BOOLEAN
      BY <2>10, <2>17
    <3> QED BY <3>1, SetRowFacts
  <2> HIDE DEF u
  <2>19. Cardinality(Held(v)) \in Nat /\ Cardinality(Held(q)) \in Nat /\ Cardinality(Held(v)) <= Cardinality(Held(q))
    <3>1. IsFiniteSet(Held(q)) /\ Held(v) \in SUBSET Held(q)
      BY <2>17, RowFacts
    <3> QED BY <2>6, <2>17, <3>1, RowFacts, FS_Subset
  <2>20. TicketsRead(q, u)
    <3>1. l <= Cardinality(Held(q))
      BY <2>10, <2>19
    <3> QED BY <2>17, <2>18, <3>1 DEF TicketsRead
  <2>21. ReportsFound(u)
    <3> SUFFICES ASSUME NEW n \in HeldNodes(u) \cap Tickets, u.rows[n].at <= l
                 PROVE  ReportOf[n] \in Held(u)
      BY <2>18 DEF ReportsFound
    <3>1. n \in Held(q) /\ n \in Nodes /\ n # TicketScan /\ u.rows[n] = q.rows[n] /\ q.rows[n].at \in Nat
      BY <2>17, <2>18, NodeKeys, RowFacts DEF HeldNodes
    <3>2. n \in Held(v)
      <4> SUFFICES ASSUME n \notin Held(v) PROVE FALSE
        OBVIOUS
      <4>1. q.rows[n].at > Cardinality(Held(v))
        BY <2>17, <3>1
      <4> QED BY <2>10, <2>19, <3>1, <4>1
    <3>3. n \in HeldNodes(v) \cap Tickets /\ v.rows[n].at <= l /\ v.rows[n].at \in Nat
      BY <2>17, <3>1, <3>2 DEF HeldNodes
    <3>4. CASE v.rows[n].at <= cursor
      BY <2>6, <2>17, <2>18, <3>3, <3>4 DEF ReportsFound
    <3>5. CASE ~ (v.rows[n].at <= cursor)
      <4>1. v.rows[n].at > cursor
        BY <2>6, <3>3, <3>5
      <4>2. P # {} /\ l = LastOf(P)
        <5> HIDE DEF P, cursor
        <5> QED BY <3>3, <3>5 DEF l
      <4>3. v.rows[n].at \in P
        BY <2>9, <2>12, <3>3, <4>1, <4>2
      <4>4. n \in N
        BY <2>11, <2>12, <3>3, <4>3
      <4> QED BY <2>12, <2>17, <2>18, <3>3, <4>4
    <3> QED BY <3>4, <3>5
  <2>22. TxInv(s, t0, u)
    BY <2>16, <2>20, <2>21, TicketScanKeeps
  <2>23. ReportsDone(u)
    <3> SUFFICES ASSUME u.rows[TicketScan].expanded, Pending(u) = {}, NEW n \in HeldNodes(u) \cap Tickets
                 PROVE  ReportOf[n] \in Held(u)
      BY DEF ReportsDone
    <3>1. n \in Held(q) /\ n \in Nodes /\ n # TicketScan
      BY <2>18, NodeKeys DEF HeldNodes
    <3>2. n \in Held(v)
      <4> SUFFICES ASSUME n \notin Held(v) PROVE FALSE
        OBVIOUS
      <4>1. ~u.rows[n].expanded
        BY <2>17, <2>18, <3>1
      <4> QED BY <2>18, <3>1, <4>1 DEF Pending
    <3>3. n \in HeldNodes(v) \cap Tickets
      BY <3>1, <3>2 DEF HeldNodes
    <3>4. v.rows[n].at \in Nat
      BY <2>6, <3>2, RowFacts
    <3>5. CASE v.rows[n].at <= cursor
      BY <2>6, <2>17, <2>18, <3>3, <3>5 DEF ReportsFound
    <3>6. CASE ~ (v.rows[n].at <= cursor)
      <4>1. v.rows[n].at > cursor
        BY <2>6, <3>4, <3>6
      <4>2. ~HasMore(K, cursor, limit)
        BY <2>18 DEF x
      <4>3. v.rows[n].at \in P
        BY <2>9, <2>12, <3>3, <4>1, <4>2
      <4>4. n \in N
        BY <2>11, <2>12, <3>3, <4>3
      <4> QED BY <2>12, <2>17, <2>18, <3>3, <4>4
    <3> QED BY <3>5, <3>6
  <2> QED BY <2>1, <2>22, <2>23
<1> QED BY <1>0, <1>1

\* A source's job is in a good state.
JobHolds(s, t) ==
    t \in Transaction /\ DatabaseSound(t.db) /\ JobSound(s, t) /\ HeldIsDerived(s, t)

\* So does the start of a step, an Admin's retry included.
LEMMA StartKeeps ==
    ASSUME NEW s \in Sources, NEW t, JobHolds(s, t), NEW role, t.state \notin {"none", "complete"}
    PROVE  TxInv(s, t, Started(t, role))
<1> DEFINE u == Started(t, role)
<1>1. t \in Transaction /\ DatabaseSound(t.db) /\ JobSound(s, t) /\ HeldIsDerived(s, t)
  BY DEF JobHolds
<1>2. t.db.deps \subseteq EdgesIn(t.db)
  BY DEF EdgesIn
<1>3. CASE t.state = "failed" /\ role = "Admin"
  <2> DEFINE f == [n \in Held(t) |-> NewRow(t.rows[n].at)]
  <2>1. u = [t EXCEPT !.state = "running", !.rows = f]
    BY <1>3 DEF Started, Held
  <2>2. \A n \in Held(t) : NewRow(t.rows[n].at) \in Row
    BY <1>1, RowFacts DEF NewRow, Row
  <2>3. f \in [Held(t) -> Row] /\ Held(t) \in SUBSET RowKeys
    BY <1>1, <2>2, RowFacts
  <2>4. f \in Frontiers /\ DOMAIN f = Held(t)
    BY <2>3, FrontierFacts
  <2>5. \A n \in Held(t) : f[n].at = t.rows[n].at /\ f[n].cursor = 0 /\ f[n].expanded = FALSE
    BY DEF NewRow
  <2> HIDE DEF f
  <2>6. u \in Transaction /\ u.db = t.db /\ u.disk = t.disk /\ u.state = "running" /\ u.rows = f
    BY <1>1, <2>1, <2>4 DEF Transaction, JobStates
  <2> HIDE DEF u
  <2>7. Held(u) = Held(t) /\ HeldNodes(u) = HeldNodes(t)
    BY <2>4, <2>6 DEF Held, HeldNodes
  <2>8. \A n \in Held(t) : t.rows[n].at \in Nat /\ t.rows[n].cursor \in Nat
    BY <1>1, RowFacts
  <2>9. HoldsStored(s, u)
    BY <1>1, <2>6, <2>7 DEF JobSound, HoldsStored
  <2>10. ExpandedClean(u)
    BY <2>5, <2>6, <2>7 DEF ExpandedClean, HeldNodes
  <2>11. WorldsFound(s, u)
    <3>1. WorldScan \in Held(t)
      BY <1>1 DEF JobSound, HoldsStored
    <3>2. \A n \in u.db.content : n > 0
      BY <1>1, <2>6, NodeKeys DEF Transaction, Database
    <3> QED BY <2>5, <2>6, <3>1, <3>2 DEF WorldsFound
  <2>12. \A n \in Held(u) : u.rows[n].at > 0 /\ u.rows[n].at <= Cardinality(Held(u)) /\ u.rows[n].at \in Nat
    BY <1>1, <2>5, <2>6, <2>7, <2>8 DEF JobSound, SeqsInRange
  <2>13. ReportsFound(u) /\ SeqsInRange(u)
    <3>1. TicketScan \in Held(u) => u.rows[TicketScan].cursor = 0
      BY <2>5, <2>6, <2>7
    <3>2. Cardinality(Held(u)) \in Nat
      BY <2>6, RowFacts
    <3>3. ReportsFound(u)
      BY <2>12, <3>1 DEF ReportsFound, HeldNodes
    <3> QED BY <2>12, <3>1, <3>2, <3>3 DEF SeqsInRange
  <2>14. JobSound(s, u)
    BY <1>1, <2>6, <2>9, <2>10, <2>11, <2>13 DEF JobSound
  <2>15. HeldIsDerived(s, u) /\ Moved(s, t, u)
    BY <1>1, <2>6, <2>7, MovedByRows DEF HeldIsDerived
  <2>16. TxInv(s, t, u)
    BY <1>1, <1>2, <2>6, <2>14, <2>15 DEF TxInv
  <2> QED BY <2>16 DEF u
<1>4. CASE ~ (t.state = "failed" /\ role = "Admin")
  <2>1. u = Running(t)
    BY <1>4 DEF Started
  <2>2. u = [t EXCEPT !.state = IF t.state = "pending" THEN "running" ELSE t.state]
    BY <2>1 DEF Running
  <2>3. /\ u \in Transaction /\ u.db = t.db /\ u.disk = t.disk /\ u.rows = t.rows
        /\ u.state = IF t.state = "pending" THEN "running" ELSE t.state
    BY <1>1, <2>2 DEF Transaction, JobStates
  <2> HIDE DEF u
  <2>4. Held(u) = Held(t) /\ HeldNodes(u) = HeldNodes(t)
    BY <2>3 DEF Held, HeldNodes
  <2>5. u.state \in {"running", "failed"} /\ (u.state # "failed" => t.state # "failed")
    BY <1>1, <2>3 DEF Transaction, JobStates
  <2>6. JobSound(s, u)
    BY <1>1, <2>3, <2>4, <2>5 DEF JobSound, HoldsStored, ExpandedClean, WorldsFound, ReportsFound, SeqsInRange
  <2>7. HeldIsDerived(s, u) /\ Moved(s, t, u)
    BY <1>1, <2>3, <2>4, MovedByRows DEF HeldIsDerived
  <2>8. TxInv(s, t, u)
    BY <1>1, <1>2, <2>3, <2>5, <2>6, <2>7 DEF TxInv
  <2> QED BY <2>8 DEF u
<1> QED BY <1>3, <1>4

\* A step may only complete a job when no call is left on which a scan would make
\* progress: the calls it looks at hold one if there is one.
LEMMA LateCallsAreAll ==
    ASSUME NEW t \in Transaction, NEW s, NEW limit \in Nat \ {0}, ~CallsOpen(t, s, LateCalls(t, s, limit))
    PROVE  \A c \in t.db.calls : ~CountsAsProgress(t, s, c) /\ ~Isolated(t, c)
<1> DEFINE K == {c \in t.db.calls : CountsAsProgress(t, s, c)}
<1>1. K \in SUBSET Nat /\ IsFiniteSet(K) /\ Cardinality(K) \in Nat /\ \A c \in K : c > 0
  <2>1. K \in SUBSET Calls
    BY DEF Transaction, Database
  <2> HIDE DEF K
  <2>2. K \in SUBSET Nat /\ \A c \in K : c > 0
    BY <2>1, CallKeys
  <2>3. IsFiniteSet(K)
    BY <2>1, CallKeys, FS_Subset
  <2> QED BY <2>2, <2>3, FS_CardinalityType
<1>2. CASE Cardinality(K) >= limit
  <2> DEFINE P == Page(K, 0, limit)
             l == LastOf(P)
  <2>1. LateCalls(t, s, limit) = {c \in t.db.calls : c <= l}
    BY <1>2 DEF LateCalls
  <2>2. K # {}
    BY <1>1, <1>2, FS_EmptySet
  <2>3. After(K, 0) = K
    BY <1>1 DEF After
  <2>4. l \in P /\ P \subseteq K
    <3> HIDE DEF K
    <3> QED BY <1>1, <2>2, <2>3, PageFacts
  <2>5. l \in t.db.calls /\ CountsAsProgress(t, s, l) /\ l \in Nat
    BY <1>1, <2>4
  <2> HIDE DEF l
  <2>6. l \in LateCalls(t, s, limit)
    BY <2>1, <2>5
  <2> QED BY <2>5, <2>6 DEF CallsOpen
<1>3. CASE ~ (Cardinality(K) >= limit)
  <2>1. LateCalls(t, s, limit) = t.db.calls
    BY <1>3 DEF LateCalls
  <2> QED BY <2>1 DEF CallsOpen
<1> QED BY <1>2, <1>3

\* closure_is_open is false only of a job with nothing left to find.
LEMMA ClosureIsSettled ==
    ASSUME NEW s \in Sources, NEW t0, NEW t, TxInv(s, t0, t), ReportsDone(t), NEW limit \in Nat \ {0},
           t.state = "running", Pending(t) = {}, CaughtUp(t), LateDependents(t) = {},
           ~CallsOpen(t, s, LateCalls(t, s, limit))
    PROVE  Settled(s, t)
<1>1. /\ t \in Transaction /\ DatabaseSound(t.db) /\ HoldsStored(s, t) /\ WorldsFound(s, t)
      /\ HeldNodes(t) \in SUBSET Nodes /\ s \in HeldNodes(t)
  BY RowFacts, SourceFacts DEF TxInv, JobSound, HoldsStored, HeldNodes
<1>2. \A n \in HeldNodes(t) : t.rows[n].expanded
  BY NodeKeys DEF Pending, HeldNodes
<1>3. t.rows[WorldScan].expanded
  BY <1>1, NodeKeys DEF HoldsStored, Pending
<1>4. \A c \in t.db.calls : ~CountsAsProgress(t, s, c) /\ ~Isolated(t, c)
  BY <1>1, LateCallsAreAll
<1>5. t.db.calls \subseteq Calls /\ t.db.requests \subseteq t.db.calls
  BY <1>1 DEF Transaction, Database, DatabaseSound
<1>6. Back(HeldNodes(t), t.db.deps)
  <2> SUFFICES ASSUME NEW e \in t.db.deps, e[2] \in HeldNodes(t) PROVE e[1] \in HeldNodes(t)
    BY DEF Back
  <2>1. e[1] \in Nodes /\ e[1] \in Dependents(t, e[2])
    BY <1>1 DEF Dependents, Transaction, Database
  <2>2. e[2] \in Held(t) /\ t.rows[e[2]].expanded
    BY <1>2 DEF HeldNodes
  <2>3. e[1] \in Held(t)
    BY <2>1, <2>2 DEF LateDependents
  <2> QED BY <2>1, <2>3 DEF HeldNodes
<1>7. ASSUME NEW c \in t.db.requests PROVE s \notin Named[c]
  <2> SUFFICES ASSUME s \in Named[c] PROVE FALSE
    OBVIOUS
  <2>1. ~CountsAsProgress(t, s, c) /\ ~Isolated(t, c)
    BY <1>4, <1>5
  <2>2. Matches(t, s, c)
    BY <2>1 DEF Matches, Judged
  <2> QED BY <2>1, <2>2 DEF CountsAsProgress
<1>8. ASSUME NEW c \in t.db.calls, Mode[c] = "e16" PROVE IndexEdges(c) \subseteq t.db.deps
  BY <1>4, <1>8 DEF CountsAsProgress
<1>9. ASSUME NEW c \in t.db.calls, NEW m \in Named[c] \cap HeldNodes(t)
      PROVE  <<RefOf[c], m>> \in t.db.deps
  <2>1. c \in Calls /\ <<RefOf[c], m>> \in IndexEdges(c)
    BY <1>5, EdgeFacts
  <2>2. CASE Mode[c] = "e16"
    BY <1>8, <2>1, <2>2
  <2>3. CASE Mode[c] # "e16"
    <3>1. m \in Sources
      BY <2>1, <2>3, CallFacts
    <3>2. m = s
      BY <1>1, <3>1 DEF HoldsStored
    <3>3. c \notin t.db.requests
      BY <1>7, <3>2
    <3> QED BY <1>1, <2>1, <2>3, <3>3 DEF DatabaseSound
  <2> QED BY <2>2, <2>3
<1>10. Back(HeldNodes(t), CallEdges(t.db))
  <2> SUFFICES ASSUME NEW e \in CallEdges(t.db), e[2] \in HeldNodes(t) PROVE e[1] \in HeldNodes(t)
    BY DEF Back
  <2>1. PICK c \in t.db.calls : e \in IndexEdges(c)
    BY DEF CallEdges
  <2>2. c \in Calls /\ e[1] = RefOf[c] /\ e[2] \in Named[c]
    BY <1>5, <2>1, EdgeFacts
  <2>3. <<e[1], e[2]>> \in t.db.deps
    BY <1>9, <2>2
  <2> DEFINE f == <<e[1], e[2]>>
  <2>4. f \in t.db.deps /\ f[1] = e[1] /\ f[2] = e[2]
    BY <2>3
  <2> HIDE DEF f
  <2> QED BY <1>6, <2>4 DEF Back
<1>11. Back(HeldNodes(t), ReportEdges(t.db))
  <2> SUFFICES ASSUME NEW e \in ReportEdges(t.db), e[2] \in HeldNodes(t) PROVE e[1] \in HeldNodes(t)
    BY DEF Back
  <2>1. PICK n \in t.db.content : ReportOf[n] # 0 /\ e = <<ReportOf[n], n>>
    BY DEF ReportEdges
  <2>2. e[1] = ReportOf[n] /\ e[2] = n /\ n \in Tickets
    BY <1>1, <2>1 DEF Tickets
  <2>3. ReportOf[n] \in Held(t)
    BY <2>2 DEF ReportsDone, CaughtUp
  <2> QED BY <2>2, <2>3, TicketFacts DEF HeldNodes
<1>12. Back(HeldNodes(t), WorldEdges(t.db))
  <2> SUFFICES ASSUME NEW e \in WorldEdges(t.db), e[2] \in HeldNodes(t) PROVE e[1] \in HeldNodes(t)
    BY DEF Back
  <2>1. PICK n \in t.db.content : Class[n] = "world" /\ e \in EdgesOf(n)
    BY DEF WorldEdges
  <2>2. n \in Nodes
    BY <1>1, <2>1 DEF Transaction, Database
  <2>3. e[1] = n /\ e[2] \in Upstream[n] /\ e[2] \in Sources
    BY <2>1, <2>2, EdgeFacts, WorldFacts
  <2>4. e[2] = s
    BY <1>1, <2>3 DEF HoldsStored
  <2>5. n \in Held(t)
    BY <1>1, <1>3, <2>1, <2>3, <2>4 DEF WorldsFound
  <2> QED BY <2>2, <2>3, <2>5 DEF HeldNodes
<1>13. Back(HeldNodes(t), EdgesIn(t.db))
  BY <1>6, <1>10, <1>11, <1>12 DEF Back, EdgesIn
<1>14. ASSUME NEW c \in t.db.requests, Mode[c] = "e16", NEW m \in Named[c] \cap HeldNodes(t)
       PROVE  FALSE
  <2>1. c \in t.db.calls /\ ~CountsAsProgress(t, s, c) /\ ~Isolated(t, c)
    BY <1>4, <1>5
  <2> DEFINE f == <<RefOf[c], m>>
  <2>2. f \in t.db.deps /\ f[1] = RefOf[c] /\ f[2] = m
    BY <1>9, <2>1
  <2> HIDE DEF f
  <2>3. RefOf[c] \in Held(t)
    BY <1>6, <2>2 DEF Back, HeldNodes
  <2>4. Matches(t, s, c)
    BY <1>14, <2>1, <2>3 DEF Matches, Judged
  <2> QED BY <2>1, <2>4 DEF CountsAsProgress
<1> QED BY <1>2, <1>7, <1>13, <1>14 DEF Settled

\* How a step ends: with the job under way, or complete and settled.
StepEnd(s, t0, u) ==
    \/ TxInv(s, t0, u)
    \/ \E v : TxInv(s, t0, v) /\ v.state = "running" /\ Settled(s, v) /\ u = Complete(v)

\* The recheck ends the step in a sound job, which is settled if it is complete.
LEMMA RecheckEnds ==
    ASSUME NEW s \in Sources, NEW t0, NEW t, TxInv(s, t0, t), ReportsDone(t), NEW limit \in Nat \ {0}
    PROVE  StepEnd(s, t0, Recheck(t, s, limit))
<1>1. CASE t.state # "running" \/ Pending(t) # {} \/ ~CaughtUp(t)
  <2>1. Recheck(t, s, limit) = t
    BY <1>1 DEF Recheck
  <2> QED BY <2>1 DEF StepEnd
<1>2. CASE ~ (t.state # "running" \/ Pending(t) # {} \/ ~CaughtUp(t)) /\ LateDependents(t) # {}
  <2> DEFINE K == LateDependents(t)
             P == Page(K, 0, limit)
             q == Queue(t, P)
  <2>1. Recheck(t, s, limit) = q
    BY <1>2 DEF Recheck
  <2>2. t \in Transaction /\ t.db.deps \in SUBSET (Nodes \X Nodes) /\ DatabaseSound(t.db)
    BY DEF TxInv, Transaction, Database
  <2>3. \A a \in K : \E e \in t.db.deps : e[1] = a /\ e[2] \in HeldNodes(t)
    BY <2>2 DEF LateDependents, Dependents, HeldNodes
  <2>4. K \in SUBSET Nodes /\ K \in SUBSET Nat /\ IsFiniteSet(K)
    BY <2>2, <2>3, NodeKeys, NodesFinite, FS_Subset
  <2> HIDE DEF K
  <2>5. P \subseteq K
    BY <2>4, PageFacts DEF After
  <2>6. Queueable(s, t, P)
    <3>1. \A a \in P : a \in HeldNodes(t) \/ \E e \in t.db.deps : e[1] = a /\ e[2] \in HeldNodes(t)
      BY <2>3, <2>5
    <3> HIDE DEF P
    <3> QED BY <3>1, DependentsQueueable
  <2> HIDE DEF P
  <2>7. P \in SUBSET RowKeys
    BY <2>6 DEF Queueable
  <2>8. Queued(t, q, P)
    BY <2>2, <2>7, QueueQueues
  <2> HIDE DEF q
  <2>9. TxInv(s, t0, q)
    BY <2>6, <2>8, QueueKeeps
  <2> QED BY <2>1, <2>9 DEF StepEnd
<1>3. CASE ~ (t.state # "running" \/ Pending(t) # {} \/ ~CaughtUp(t)) /\ LateDependents(t) = {}
  <2> DEFINE C == LateCalls(t, s, limit)
  <2>1. Recheck(t, s, limit) = IF CallsOpen(t, s, C) THEN ScanCalls(t, s, C) ELSE Complete(t)
    BY <1>3 DEF Recheck
  <2>2. C \in SUBSET t.db.calls
    BY DEF LateCalls
  <2>3. CASE CallsOpen(t, s, C)
    <3> HIDE DEF C
    <3>1. TxInv(s, t0, ScanCalls(t, s, C))
      BY <2>2, ScanCallsKeeps
    <3> QED BY <2>1, <2>3, <3>1 DEF StepEnd
  <2>4. CASE ~CallsOpen(t, s, C)
    <3>1. Settled(s, t)
      BY <1>3, <2>4, ClosureIsSettled
    <3>2. Recheck(t, s, limit) = Complete(t)
      BY <2>1, <2>4
    <3> QED BY <1>3, <3>1, <3>2 DEF StepEnd
  <2> QED BY <2>3, <2>4
<1> QED BY <1>1, <1>2, <1>3

\* A step by its parts.
LEMMA SteppedIs ==
    ASSUME NEW s, NEW role, NEW limit, NEW u, u = Expansions(Started(Tx(s), role), s, limit)
    PROVE  Stepped(s, role, limit) = Recheck(catch_up_old_formal_cleanup(u, limit), s, limit)
<1>1. \A x : (CHOOSE y \in {Expansions(w, s, limit) : w \in {x}} : TRUE) = Expansions(x, s, limit)
  OBVIOUS
<1>2. \A x : (CHOOSE y \in {catch_up_old_formal_cleanup(w, limit) : w \in {x}} : TRUE)
             = catch_up_old_formal_cleanup(x, limit)
  OBVIOUS
<1>3. \A x : (CHOOSE y \in {Recheck(w, s, limit) : w \in {x}} : TRUE) = Recheck(x, s, limit)
  OBVIOUS
<1> QED BY <1>1, <1>2, <1>3, Zenon DEF Stepped, Pass

\* A step of a job, whatever its role and limit.
LEMMA StepEnds ==
    ASSUME NEW s \in Sources, NEW role, NEW limit \in Nat \ {0}, NEW t0, t0 = Tx(s), JobHolds(s, t0),
           t0.state \notin {"none", "complete"}
    PROVE  StepEnd(s, t0, Stepped(s, role, limit))
<1> DEFINE t == Started(t0, role)
           u == Expansions(t, s, limit)
           v == catch_up_old_formal_cleanup(u, limit)
<1>1. Stepped(s, role, limit) = Recheck(v, s, limit)
  BY SteppedIs
<1>2. TxInv(s, t0, t)
  BY StartKeeps
<1> HIDE DEF t
<1>3. TxInv(s, t0, u)
  BY <1>2, ExpansionsKeep
<1> HIDE DEF u
<1>4. TxInv(s, t0, v) /\ ReportsDone(v)
  BY <1>3, CatchUpKeeps
<1> HIDE DEF v
<1>5. StepEnd(s, t0, Recheck(v, s, limit))
  BY <1>4, RecheckEnds
<1> QED BY <1>1, <1>5

-----------------------------------------------------------------------------
(* What a job keeps while others change the store.                         *)

\* The database d and the disk k become e and l: nothing stored, no edge, call or
\* tombstone is lost; what becomes content, gets replies or a tree was not there
\* before, or is a reference or content; no world is written over a revoked source.
Grown(d, k, e, l) ==
    /\ e \in Database /\ l \in [Nodes -> Trees] /\ DatabaseSound(e)
    /\ d.tombstone \subseteq e.tombstone /\ d.deps \subseteq e.deps /\ d.calls \subseteq e.calls
    /\ StoredIn(d) \subseteq StoredIn(e)
    /\ \A n \in e.content \ d.content :
          /\ n \notin StoredIn(d) \/ Class[n] = "ref"
          /\ Class[n] = "world" => Upstream[n] \cap d.tombstone = {}
    /\ \A n \in e.reply \ d.reply : n \notin StoredIn(d)
    /\ \A n \in Nodes : l[n] # "none" => k[n] # "none" \/ n \in d.content

\* What the others may do to the store keeps a job sound.
LEMMA OthersKeep ==
    ASSUME NEW s \in Sources, NEW t, JobHolds(s, t), NEW u \in Transaction, u.rows = t.rows, u.state = t.state,
           Grown(t.db, t.disk, u.db, u.disk)
    PROVE  JobHolds(s, u)
<1>1. t \in Transaction /\ DatabaseSound(t.db) /\ JobSound(s, t) /\ HeldIsDerived(s, t)
  BY DEF JobHolds
<1>2. Held(u) = Held(t) /\ HeldNodes(u) = HeldNodes(t) /\ HeldNodes(t) \subseteq Nodes
  BY DEF Held, HeldNodes
<1>3. DatabaseSound(u.db) /\ s \in u.db.tombstone /\ s \in t.db.tombstone
  BY <1>1 DEF Grown, JobSound
<1>4. HoldsStored(s, u)
  BY <1>1, <1>2 DEF JobSound, HoldsStored, Grown
<1>5. ExpandedClean(u)
  <2> SUFFICES ASSUME u.state # "failed", NEW n \in HeldNodes(u), u.rows[n].expanded
               PROVE  NodeClean(u.db, u.disk, n)
    BY DEF ExpandedClean
  <2>1. n \in StoredIn(t.db) /\ n \in Nodes
    BY <1>1, <1>2 DEF JobSound, HoldsStored
  <2>2. NodeClean(t.db, t.disk, n)
    BY <1>1, <1>2 DEF JobSound, ExpandedClean
  <2>3. n \in u.db.content => Class[n] \in {"fact", "ref"}
    BY <2>1, <2>2 DEF NodeClean, Grown
  <2>4. n \notin u.db.reply
    BY <2>1, <2>2 DEF NodeClean, Grown
  <2>5. Class[n] = "export" => u.disk[n] = "none"
    BY <2>1, <2>2 DEF NodeClean, Grown
  <2> QED BY <2>3, <2>4, <2>5 DEF NodeClean
<1>6. WorldsFound(s, u)
  BY <1>1, <1>2, <1>3 DEF JobSound, WorldsFound, Grown
<1>7. ReportsFound(u) /\ SeqsInRange(u)
  BY <1>1, <1>2 DEF JobSound, ReportsFound, SeqsInRange
<1>8. JobSound(s, u)
  BY <1>3, <1>4, <1>5, <1>6, <1>7 DEF JobSound
<1>9. \A n \in t.db.content \ u.db.content : n \notin Tickets
  <2> TAKE n \in t.db.content \ u.db.content
  <2>1. n \in u.db.redacted
    BY DEF Grown, StoredIn
  <2> QED BY <1>3, <2>1, TicketFacts DEF DatabaseSound
<1>10. LastingEdges(t.db) \subseteq LastingEdges(u.db) /\ t.db.deps \subseteq u.db.deps
  <2>1. t.db.content \subseteq Nodes
    BY <1>1 DEF Transaction, Database
  <2>2. t.db.deps \subseteq u.db.deps /\ t.db.calls \subseteq u.db.calls /\ StoredIn(t.db) \subseteq StoredIn(u.db)
    BY DEF Grown
  <2> QED BY <1>9, <2>1, <2>2, LastingKept
<1>11. HeldIsDerived(s, u)
  BY <1>1, <1>2, <1>10, ReachedMore DEF HeldIsDerived
<1> QED BY <1>3, <1>8, <1>11 DEF JobHolds

\* New edges to what a gated job holds are known ones, and new requests name nothing
\* it holds.
NothingJoins(t, d) ==
    /\ \A e \in d.deps \cup WorldEdges(d) \cup CallEdges(d) :
          e \in EdgesIn(t.db) \/ e[2] \notin HeldNodes(t)
    /\ \A c \in d.requests \ t.db.requests : Named[c] \cap HeldNodes(t) = {}

\* A settled job stays settled unless something joins what it holds.
LEMMA SettledKeeps ==
    ASSUME NEW s \in GatedSources, NEW t, JobHolds(s, t), Settled(s, t), NEW u, u.rows = t.rows,
           DatabaseSound(u.db), u.db.content \subseteq Nodes, NothingJoins(t, u.db)
    PROVE  Settled(s, u)
<1>1. HeldNodes(u) = HeldNodes(t)
  BY DEF Held, HeldNodes
<1>2. HeldNodes(t) \cap Tickets = {} /\ s \in HeldNodes(t)
  BY NoTicketsOfGated, GatedFacts, SourceFacts DEF JobHolds, JobSound, HoldsStored, HeldNodes
<1>3. ASSUME NEW e \in EdgesIn(u.db), e[2] \in HeldNodes(t) PROVE e[1] \in HeldNodes(t)
  <2>1. CASE e \in ReportEdges(u.db)
    <3>1. PICK n \in u.db.content : ReportOf[n] # 0 /\ e = <<ReportOf[n], n>>
      BY <2>1 DEF ReportEdges
    <3>2. e[2] = n /\ n \in Tickets
      BY <3>1 DEF Tickets
    <3> QED BY <1>2, <1>3, <3>2
  <2>2. CASE e \notin ReportEdges(u.db)
    <3>1. e \in u.db.deps \cup WorldEdges(u.db) \cup CallEdges(u.db)
      BY <2>2 DEF EdgesIn
    <3>2. e \in EdgesIn(t.db)
      BY <1>3, <3>1 DEF NothingJoins
    <3> QED BY <1>3, <3>2 DEF Settled, Back
  <2> QED BY <2>1, <2>2
<1>4. \A c \in u.db.requests : s \notin Named[c] /\ (Mode[c] = "e16" => Named[c] \cap HeldNodes(t) = {})
  BY <1>2 DEF Settled, NothingJoins
<1> QED BY <1>1, <1>3, <1>4 DEF Settled, Back

\* The gate: a closure that is judged live holds nothing of a revoked source.
LiveIn(d, N) == \A n \in Closure(N, d.deps) : n \notin d.tombstone \cup d.redacted

\* What the gate lets pass is not held by the job of a gated source.
LEMMA LiveIsUnheld ==
    ASSUME NEW s \in GatedSources, NEW t, JobHolds(s, t), NEW N \in SUBSET Nodes, LiveIn(t.db, N)
    PROVE  N \cap HeldNodes(t) = {}
<1> DEFINE L == Closure(N, t.db.deps)
           M == Nodes \ L
<1>1. /\ t \in Transaction /\ t.db.deps \in SUBSET (Nodes \X Nodes) /\ s \in t.db.tombstone
      /\ ReachedOver(s, HeldNodes(t), t.db.deps) /\ s \in Nodes
  BY GatedFacts, SourceFacts DEF JobHolds, Transaction, Database, JobSound, HeldIsDerived
<1>2. N \subseteq L /\ Closed(L, t.db.deps)
  BY <1>1, ClosureClosed
<1>3. s \notin L
  BY <1>1 DEF LiveIn
<1> HIDE DEF L
<1>4. Back(M, t.db.deps) /\ s \in M /\ M \in SUBSET Nodes
  BY <1>1, <1>2, <1>3 DEF Back, Closed
<1>5. HeldNodes(t) \subseteq M
  <2> HIDE DEF M
  <2> QED BY <1>1, <1>4 DEF ReachedOver
<1> QED BY <1>2, <1>5

\* The gate, as a fact of the database.
LEMMA LiveIsLiveIn == ASSUME NEW N PROVE Live(N) <=> LiveIn(db, N)
  BY DEF Live, LiveIn, judge

\* The invariant of the store says that every job is sound.
LEMMA TxFacts ==
    ASSUME NEW d, NEW k, NEW j, StoreInv(d, k, j), NEW s \in Sources
    PROVE  /\ TxOf(d, k, j, s) \in Transaction
           /\ TxOf(d, k, j, s).db = d /\ TxOf(d, k, j, s).disk = k
           /\ TxOf(d, k, j, s).state = j[s].state /\ TxOf(d, k, j, s).rows = j[s].rows
           /\ j[s].state # "none" => JobHolds(s, TxOf(d, k, j, s))
           /\ s \in GatedSources /\ j[s].state = "complete" => Settled(s, TxOf(d, k, j, s))
<1>1. /\ d \in Database /\ k \in [Nodes -> Trees] /\ DatabaseSound(d)
      /\ j[s].state \in JobStates /\ j[s].rows \in Frontiers
  BY DEF StoreInv
<1>2. /\ TxOf(d, k, j, s) \in Transaction
      /\ TxOf(d, k, j, s).db = d /\ TxOf(d, k, j, s).disk = k
      /\ TxOf(d, k, j, s).state = j[s].state /\ TxOf(d, k, j, s).rows = j[s].rows
  BY <1>1 DEF TxOf, Transaction
<1> QED BY <1>1, <1>2 DEF StoreInv, JobHolds

\* The type of a job in a store.
LEMMA TypedTx ==
    ASSUME NEW d \in Database, NEW k \in [Nodes -> Trees], NEW s \in Sources,
           NEW j \in [Sources -> [state : JobStates, rows : Frontiers]]
    PROVE  /\ TxOf(d, k, j, s) \in Transaction
           /\ TxOf(d, k, j, s).db = d /\ TxOf(d, k, j, s).disk = k
           /\ TxOf(d, k, j, s).state = j[s].state /\ TxOf(d, k, j, s).rows = j[s].rows
  BY DEF TxOf, Transaction

\* The jobs stand when the store grows and nothing joins a settled one.
LEMMA WritersKeep ==
    ASSUME NEW d, NEW k, NEW j, StoreInv(d, k, j), NEW e, NEW l, Grown(d, k, e, l),
           \A s \in GatedSources : j[s].state = "complete" => NothingJoins(TxOf(d, k, j, s), e)
    PROVE  StoreInv(e, l, j)
<1>1. /\ e \in Database /\ l \in [Nodes -> Trees] /\ DatabaseSound(e)
      /\ j \in [Sources -> [state : JobStates, rows : Frontiers]]
  BY DEF StoreInv, Grown
<1>2. ASSUME NEW s \in Sources, j[s].state # "none"
      PROVE  JobHolds(s, TxOf(e, l, j, s))
  <2> DEFINE t == TxOf(d, k, j, s)
             u == TxOf(e, l, j, s)
  <2>1. t.db = d /\ t.disk = k /\ t.state = j[s].state /\ t.rows = j[s].rows /\ JobHolds(s, t)
    BY <1>2, TxFacts
  <2>2. u \in Transaction /\ u.db = e /\ u.disk = l /\ u.state = j[s].state /\ u.rows = j[s].rows
    BY <1>1, TypedTx
  <2> HIDE DEF t, u
  <2>3. Grown(t.db, t.disk, u.db, u.disk) /\ u.rows = t.rows /\ u.state = t.state
    BY <2>1, <2>2
  <2>4. JobHolds(s, u)
    BY <2>1, <2>2, <2>3, OthersKeep
  <2> QED BY <2>4 DEF u
<1>3. ASSUME NEW s \in GatedSources, j[s].state = "complete"
      PROVE  Settled(s, TxOf(e, l, j, s))
  <2> DEFINE t == TxOf(d, k, j, s)
             u == TxOf(e, l, j, s)
  <2>0. s \in Sources
    BY GatedFacts
  <2>1. t.rows = j[s].rows /\ JobHolds(s, t) /\ Settled(s, t)
    BY <1>3, <2>0, TxFacts
  <2>2. u.db = e /\ u.rows = j[s].rows
    BY <1>1, <2>0, TypedTx
  <2>3. NothingJoins(t, e) /\ e.content \subseteq Nodes
    BY <1>1, <1>3 DEF Database
  <2> HIDE DEF t, u
  <2>4. u.rows = t.rows /\ DatabaseSound(u.db) /\ u.db.content \subseteq Nodes /\ NothingJoins(t, u.db)
    BY <1>1, <2>1, <2>2, <2>3
  <2>5. Settled(s, u)
    BY <2>1, <2>4, SettledKeeps
  <2> QED BY <2>5 DEF u
<1> QED BY <1>1, <1>2, <1>3 DEF StoreInv, JobHolds

-----------------------------------------------------------------------------
(* The steps of a job, for the store and the other jobs.                   *)

\* What a step leaves.
Left(s, t, u) ==
    /\ u \in Transaction /\ JobHolds(s, u) /\ Moved(s, t, u) /\ u.db.deps \subseteq EdgesIn(t.db)
    /\ u.state \in {"running", "failed", "complete"}
    /\ u.state = "complete" => Settled(s, u)

\* What a step leaves, without its phases.
LEMMA StepLeaves ==
    ASSUME NEW s \in Sources, NEW t, NEW u, StepEnd(s, t, u)
    PROVE  Left(s, t, u)
<1>1. CASE TxInv(s, t, u)
  BY <1>1 DEF TxInv, Left, JobHolds
<1>2. ASSUME NEW v, TxInv(s, t, v), v.state = "running", Settled(s, v), u = Complete(v)
      PROVE  Left(s, t, u)
  <2>1. /\ v \in Transaction /\ DatabaseSound(v.db) /\ JobSound(s, v) /\ HeldIsDerived(s, v)
        /\ v.db.deps \subseteq EdgesIn(t.db) /\ Moved(s, t, v)
    BY <1>2 DEF TxInv
  <2>2. /\ u \in Transaction /\ u.db = v.db /\ u.disk = v.disk /\ u.rows = v.rows /\ u.state = "complete"
    BY <1>2, <2>1 DEF Complete, Transaction, JobStates
  <2>3. Held(u) = Held(v) /\ HeldNodes(u) = HeldNodes(v)
    BY <2>2 DEF Held, HeldNodes
  <2>4. JobSound(s, u)
    BY <1>2, <2>1, <2>2, <2>3 DEF JobSound, HoldsStored, ExpandedClean, WorldsFound, ReportsFound, SeqsInRange
  <2>5. HeldIsDerived(s, u) /\ Settled(s, u)
    BY <1>2, <2>1, <2>2, <2>3 DEF HeldIsDerived, Settled
  <2>6. Moved(s, t, u)
    BY <2>1, <2>2, <2>3, MovedByRows, MovedChain
  <2> QED BY <2>1, <2>2, <2>4, <2>5, <2>6 DEF Left, JobHolds
<1> QED BY <1>1, <1>2 DEF StepEnd

\* To other jobs a step is one of the writers.
LEMMA StepGrows ==
    ASSUME NEW s, NEW t \in Transaction, NEW u, Left(s, t, u)
    PROVE  Grown(t.db, t.disk, u.db, u.disk)
<1>1. u \in Transaction /\ DatabaseSound(u.db) /\ Moved(s, t, u)
  BY DEF Left, JobHolds
<1>2. u.db \in Database /\ u.disk \in [Nodes -> Trees]
  BY <1>1 DEF Transaction
<1>3. /\ t.db.tombstone \subseteq u.db.tombstone /\ t.db.deps \subseteq u.db.deps /\ t.db.calls \subseteq u.db.calls
      /\ StoredIn(t.db) \subseteq StoredIn(u.db)
  BY <1>1 DEF Moved
<1>4. \A n \in u.db.content \ t.db.content : Class[n] = "ref"
  BY <1>1 DEF Moved
<1>5. u.db.reply \ t.db.reply = {}
  BY <1>1 DEF Moved
<1>6. \A n \in Nodes : u.disk[n] # "none" => t.disk[n] # "none" \/ n \in t.db.content
  BY <1>1 DEF Moved
<1> QED BY <1>1, <1>2, <1>3, <1>4, <1>5, <1>6 DEF Grown

\* A step adds no edge that leads into what another job holds.
LEMMA StepJoinsNothing ==
    ASSUME NEW s, NEW t, NEW u, Left(s, t, u), NEW v, v.db = t.db
    PROVE  NothingJoins(v, u.db)
<1>1. Moved(s, t, u) /\ u.db.deps \subseteq EdgesIn(t.db)
  BY DEF Left
<1>2. CallEdges(u.db) = CallEdges(t.db)
  BY <1>1 DEF Moved, CallEdges
<1>3. WorldEdges(u.db) \subseteq WorldEdges(t.db)
  BY <1>1 DEF Moved, WorldEdges
<1>4. \A e \in u.db.deps \cup WorldEdges(u.db) \cup CallEdges(u.db) : e \in EdgesIn(t.db)
  BY <1>1, <1>2, <1>3 DEF EdgesIn
<1>5. u.db.requests \ v.db.requests = {}
  BY <1>1 DEF Moved
<1> QED BY <1>4, <1>5 DEF NothingJoins

\* The job of s is replaced by one that is in order.
LEMMA JobReplaced ==
    ASSUME NEW u \in Transaction, NEW j, StoreInv(u.db, u.disk, j), NEW s \in Sources, JobHolds(s, u),
           u.state = "complete" => Settled(s, u)
    PROVE  StoreInv(u.db, u.disk, [j EXCEPT ![s] = [state |-> u.state, rows |-> u.rows]])
<1> DEFINE i == [j EXCEPT ![s] = [state |-> u.state, rows |-> u.rows]]
<1>1. /\ u.db \in Database /\ u.disk \in [Nodes -> Trees] /\ DatabaseSound(u.db)
      /\ u.state \in JobStates /\ u.rows \in Frontiers
      /\ j \in [Sources -> [state : JobStates, rows : Frontiers]]
  BY DEF Transaction, StoreInv
<1>2. /\ i \in [Sources -> [state : JobStates, rows : Frontiers]]
      /\ i[s].state = u.state /\ i[s].rows = u.rows /\ \A r \in Sources : r # s => i[r] = j[r]
  BY <1>1
<1>3. TxOf(u.db, u.disk, i, s) = u
  BY <1>2 DEF TxOf, Transaction
<1>4. \A r \in Sources : r # s => TxOf(u.db, u.disk, i, r) = TxOf(u.db, u.disk, j, r)
  BY <1>2 DEF TxOf
<1> HIDE DEF i
<1>5. ASSUME NEW r \in Sources, i[r].state # "none"
      PROVE  JobSound(r, TxOf(u.db, u.disk, i, r)) /\ HeldIsDerived(r, TxOf(u.db, u.disk, i, r))
  <2>1. CASE r = s
    BY <1>3, <2>1 DEF JobHolds
  <2>2. CASE r # s
    BY <1>2, <1>4, <1>5, <2>2 DEF StoreInv
  <2> QED BY <2>1, <2>2
<1>6. ASSUME NEW r \in GatedSources, i[r].state = "complete"
      PROVE  Settled(r, TxOf(u.db, u.disk, i, r))
  <2>0. r \in Sources
    BY GatedFacts
  <2>1. CASE r = s
    BY <1>2, <1>3, <1>6, <2>1
  <2>2. CASE r # s
    BY <1>2, <1>4, <1>6, <2>0, <2>2 DEF StoreInv
  <2> QED BY <2>1, <2>2
<1>7. StoreInv(u.db, u.disk, i)
  BY <1>1, <1>2, <1>5, <1>6 DEF StoreInv
<1> QED BY <1>7 DEF i

\* A step keeps the invariant of the store.
LEMMA StepKeeps ==
    ASSUME NEW d, NEW k, NEW j, StoreInv(d, k, j), NEW s \in Sources, NEW u, Left(s, TxOf(d, k, j, s), u)
    PROVE  StoreInv(u.db, u.disk, [j EXCEPT ![s] = [state |-> u.state, rows |-> u.rows]])
<1> DEFINE t == TxOf(d, k, j, s)
<1>1. t \in Transaction /\ t.db = d /\ t.disk = k /\ Left(s, t, u)
  BY TxFacts
<1>2. u \in Transaction /\ JobHolds(s, u) /\ (u.state = "complete" => Settled(s, u))
  BY DEF Left
<1> HIDE DEF t
<1>3. Grown(d, k, u.db, u.disk)
  BY <1>1, StepGrows
<1>4. \A r \in GatedSources : j[r].state = "complete" => NothingJoins(TxOf(d, k, j, r), u.db)
  <2> TAKE r \in GatedSources
  <2>1. TxOf(d, k, j, r).db = t.db
    BY <1>1, TxFacts, GatedFacts
  <2> QED BY <1>1, <2>1, StepJoinsNothing
<1>5. StoreInv(u.db, u.disk, j)
  BY <1>3, <1>4, WritersKeep
<1> QED BY <1>2, <1>5, JobReplaced

-----------------------------------------------------------------------------
(* The writers.                                                            *)

\* What a gated writer or an ungated one may depend on, a gated job does not hold.
LEMMA GatedWriter ==
    ASSUME NEW s \in GatedSources, NEW t, JobHolds(s, t), NEW n \in Nodes,
           n \in Ungated \/ LiveIn(t.db, Upstream[n])
    PROVE  Upstream[n] \cap HeldNodes(t) = {}
<1>1. Upstream[n] \in SUBSET Nodes /\ s \in Sources
  BY NodeKeys, GatedFacts
<1>2. CASE LiveIn(t.db, Upstream[n])
  BY <1>1, <1>2, LiveIsUnheld
<1>3. CASE n \in Ungated
  <2> SUFFICES ASSUME NEW m \in Upstream[n], m \in HeldNodes(t) PROVE FALSE
    OBVIOUS
  <2>1. ReachedOver(s, HeldNodes(t), t.db.deps) /\ DatabaseSound(t.db)
    BY DEF JobHolds, HeldIsDerived
  <2>2. Class[m] # "ref" /\ m \in Nodes
    BY <1>1, RefFacts
  <2>3. m \in DependsOn(s)
    BY <2>1, <2>2, GatedHolds
  <2>4. <<n, m>> \in WrittenEdges
    BY EdgeFacts DEF WrittenEdges
  <2>5. n \in DependsOn(s)
    BY <1>1, <2>3, <2>4, DependsBack DEF Back
  <2> QED BY <1>3, <2>5, GatedFacts
<1> QED BY <1>2, <1>3

\* A writer of an object keeps it.
LEMMA PutKeeps ==
    ASSUME NEW d, NEW k, NEW j, StoreInv(d, k, j), NEW n \in Nodes, n \notin StoredIn(d),
           n \in Ungated \/ LiveIn(d, Upstream[n]),
           NEW e, e = [d EXCEPT !.content = @ \cup {n},
                                !.deps = IF Class[n] = "world" THEN @ ELSE @ \cup EdgesOf(n),
                                !.reply = @ \cup {n}]
    PROVE  StoreInv(e, k, j)
<1>1. d \in Database /\ DatabaseSound(d) /\ k \in [Nodes -> Trees]
  BY DEF StoreInv
<1>2. /\ e \in Database /\ e.content = d.content \cup {n} /\ e.redacted = d.redacted
      /\ e.deps \subseteq d.deps \cup EdgesOf(n) /\ d.deps \subseteq e.deps
      /\ e.reply = d.reply \cup {n} /\ e.tombstone = d.tombstone
      /\ e.calls = d.calls /\ e.requests = d.requests
  BY <1>1, EdgeFacts DEF Database
<1>3. StoredIn(e) = StoredIn(d) \cup {n}
  BY <1>2 DEF StoredIn
<1>4. \A f \in EdgesOf(n) : f \in StaticEdges /\ f[1] = n /\ f[2] \in Upstream[n]
  BY EdgeFacts DEF StaticEdges, WrittenEdges
<1>5. DatabaseSound(e)
  <2>1. e.content \cap e.redacted = {} /\ e.requests \subseteq e.calls
    BY <1>1, <1>2 DEF DatabaseSound, StoredIn
  <2>2. \A f \in e.deps : f \in StaticEdges /\ f[1] \in StoredIn(e)
    BY <1>1, <1>2, <1>3, <1>4 DEF DatabaseSound
  <2>3. \A c \in e.calls : IF Mode[c] = "e16" THEN RefOf[c] \in StoredIn(e)
                           ELSE c \in e.requests \/ IndexEdges(c) \subseteq e.deps
    BY <1>1, <1>2, <1>3 DEF DatabaseSound
  <2>4. \A m \in e.redacted : Class[m] \notin {"fact", "ref"}
    BY <1>1, <1>2 DEF DatabaseSound
  <2>5. Historical \subseteq StoredIn(e)
    BY <1>1, <1>3 DEF DatabaseSound
  <2> QED BY <2>1, <2>2, <2>3, <2>4, <2>5 DEF DatabaseSound
<1>6. Class[n] = "world" => Upstream[n] \cap d.tombstone = {}
  <2> HAVE Class[n] = "world"
  <2>1. LiveIn(d, Upstream[n])
    BY WorldFacts
  <2>2. Upstream[n] \subseteq Closure(Upstream[n], d.deps)
    <3>1. Upstream[n] \in SUBSET Nodes /\ d.deps \in SUBSET (Nodes \X Nodes)
      BY <1>1, NodeKeys DEF Database
    <3> QED BY <3>1, ClosureClosed
  <2> QED BY <2>1, <2>2 DEF LiveIn
<1>7. Grown(d, k, e, k)
  BY <1>1, <1>2, <1>3, <1>5, <1>6 DEF Grown
<1>8. ASSUME NEW s \in GatedSources, j[s].state = "complete"
      PROVE  NothingJoins(TxOf(d, k, j, s), e)
  <2> DEFINE t == TxOf(d, k, j, s)
  <2>1. t.db = d /\ JobHolds(s, t)
    BY <1>8, GatedFacts, TxFacts
  <2> HIDE DEF t
  <2>2. Upstream[n] \cap HeldNodes(t) = {}
    BY <2>1, GatedWriter
  <2>3. \A f \in EdgesOf(n) : f[2] \notin HeldNodes(t)
    BY <1>4, <2>2
  <2>4. ASSUME NEW f \in e.deps PROVE f \in EdgesIn(d) \/ f[2] \notin HeldNodes(t)
    BY <1>2, <2>3 DEF EdgesIn
  <2>5. ASSUME NEW f \in WorldEdges(e) PROVE f \in EdgesIn(d) \/ f[2] \notin HeldNodes(t)
    <3>1. PICK m \in e.content : Class[m] = "world" /\ f \in EdgesOf(m)
      BY DEF WorldEdges
    <3>2. m = n \/ m \in d.content
      BY <1>2
    <3> QED BY <2>3, <3>1, <3>2 DEF EdgesIn, WorldEdges
  <2>6. ASSUME NEW f \in CallEdges(e) PROVE f \in EdgesIn(d)
    BY <1>2 DEF EdgesIn, CallEdges
  <2>7. e.requests \ t.db.requests = {}
    BY <1>2, <2>1
  <2>8. NothingJoins(t, e)
    BY <2>1, <2>4, <2>5, <2>6, <2>7 DEF NothingJoins
  <2> QED BY <2>8 DEF t
<1> QED BY <1>7, <1>8, WritersKeep

\* Sealing a world keeps it.
LEMMA SealKeeps ==
    ASSUME NEW d, NEW k, NEW j, StoreInv(d, k, j), NEW n \in Nodes, Class[n] = "world", n \in d.content,
           NEW e, e = [d EXCEPT !.deps = @ \cup EdgesOf(n)]
    PROVE  StoreInv(e, k, j)
<1>1. d \in Database /\ DatabaseSound(d) /\ k \in [Nodes -> Trees]
  BY DEF StoreInv
<1>2. /\ e \in Database /\ e.content = d.content /\ e.redacted = d.redacted
      /\ e.deps = d.deps \cup EdgesOf(n)
      /\ e.reply = d.reply /\ e.tombstone = d.tombstone
      /\ e.calls = d.calls /\ e.requests = d.requests
  BY <1>1, EdgeFacts DEF Database
<1>3. StoredIn(e) = StoredIn(d) /\ n \in StoredIn(d)
  BY <1>2 DEF StoredIn
<1>4. \A f \in EdgesOf(n) : f \in StaticEdges /\ f[1] = n
  BY EdgeFacts DEF StaticEdges, WrittenEdges
<1>5. DatabaseSound(e)
  <2>1. \A f \in e.deps : f \in StaticEdges /\ f[1] \in StoredIn(e)
    BY <1>1, <1>2, <1>3, <1>4 DEF DatabaseSound
  <2>2. \A c \in e.calls : IF Mode[c] = "e16" THEN RefOf[c] \in StoredIn(e)
                           ELSE c \in e.requests \/ IndexEdges(c) \subseteq e.deps
    BY <1>1, <1>2, <1>3 DEF DatabaseSound
  <2> QED BY <1>1, <1>2, <1>3, <2>1, <2>2 DEF DatabaseSound
<1>6. Grown(d, k, e, k)
  BY <1>1, <1>2, <1>3, <1>5 DEF Grown
<1>7. EdgesOf(n) \subseteq WorldEdges(d)
  BY DEF WorldEdges
<1>8. e.deps \cup WorldEdges(e) \cup CallEdges(e) \subseteq EdgesIn(d)
  BY <1>2, <1>7 DEF EdgesIn, WorldEdges, CallEdges
<1>9. ASSUME NEW s \in GatedSources PROVE NothingJoins(TxOf(d, k, j, s), e)
  <2>1. TxOf(d, k, j, s).db = d
    BY GatedFacts, TxFacts
  <2> QED BY <1>2, <1>8, <2>1 DEF NothingJoins
<1> QED BY <1>6, <1>9, WritersKeep

\* A reservation keeps it.
LEMMA ReserveKeeps ==
    ASSUME NEW d, NEW k, NEW j, StoreInv(d, k, j), NEW c \in Calls,
           c \in Undeclared \/ LiveIn(d, Named[c]),
           NEW e, e = [d EXCEPT
              !.calls = @ \cup {c},
              !.requests = @ \cup {c},
              !.bound = IF c \in Undeclared THEN @ ELSE @ \cup {c},
              !.unreadable = IF c \in Damaged THEN @ \cup {c} ELSE @,
              !.content = IF c \in Undeclared THEN @ ELSE @ \cup {RefOf[c]},
              !.deps = IF c \in Undeclared \cup Unindexed THEN @ ELSE @ \cup IndexEdges(c)]
    PROVE  StoreInv(e, k, j)
<1> DEFINE r == RefOf[c]
<1>1. d \in Database /\ DatabaseSound(d) /\ k \in [Nodes -> Trees]
  BY DEF StoreInv
<1>2. r \in Nodes /\ Class[r] = "ref" /\ Named[c] \in SUBSET Nodes /\ IndexEdges(c) \in SUBSET (Nodes \X Nodes)
  BY CallKeys, RefFacts, EdgeFacts
<1>3. e \in Database
  <2> HIDE DEF r
  <2> QED BY <1>1, <1>2 DEF Database, r
<1>4. /\ e.redacted = d.redacted /\ e.reply = d.reply /\ e.tombstone = d.tombstone
      /\ e.calls = d.calls \cup {c} /\ e.requests = d.requests \cup {c}
      /\ e.content = IF c \in Undeclared THEN d.content ELSE d.content \cup {r}
      /\ e.deps = IF c \in Undeclared \cup Unindexed THEN d.deps ELSE d.deps \cup IndexEdges(c)
  BY <1>1 DEF Database
<1>5. /\ StoredIn(d) \subseteq StoredIn(e) /\ d.deps \subseteq e.deps
      /\ c \notin Undeclared => r \in StoredIn(e)
      /\ \A n \in e.content \ d.content : n = r
      /\ \A f \in e.deps : f \in d.deps \/ (f \in IndexEdges(c) /\ c \notin Undeclared)
  BY <1>4 DEF StoredIn
<1>6. \A f \in IndexEdges(c) : f \in StaticEdges /\ f[1] = r /\ f[2] \in Named[c]
  BY EdgeFacts DEF StaticEdges
<1> HIDE DEF r
<1>7. DatabaseSound(e)
  <2>1. e.content \cap e.redacted = {} /\ e.requests \subseteq e.calls
    BY <1>1, <1>2, <1>4 DEF DatabaseSound
  <2>2. \A f \in e.deps : f \in StaticEdges /\ f[1] \in StoredIn(e)
    BY <1>1, <1>5, <1>6 DEF DatabaseSound
  <2>3. ASSUME NEW b \in e.calls
        PROVE  IF Mode[b] = "e16" THEN RefOf[b] \in StoredIn(e)
               ELSE b \in e.requests \/ IndexEdges(b) \subseteq e.deps
    <3>1. CASE b = c
      BY <1>4, <1>5, <3>1, CallFacts DEF r
    <3>2. CASE b # c
      BY <1>1, <1>4, <1>5, <3>2 DEF DatabaseSound
    <3> QED BY <3>1, <3>2
  <2>4. \A m \in e.redacted : Class[m] \notin {"fact", "ref"}
    BY <1>1, <1>4 DEF DatabaseSound
  <2>5. Historical \subseteq StoredIn(e)
    BY <1>1, <1>5 DEF DatabaseSound
  <2> QED BY <2>1, <2>2, <2>3, <2>4, <2>5 DEF DatabaseSound
<1>8. Grown(d, k, e, k)
  <2>1. \A n \in e.content \ d.content : Class[n] = "ref"
    BY <1>2, <1>5
  <2> QED BY <1>1, <1>3, <1>4, <1>5, <1>7, <2>1 DEF Grown
<1>9. ASSUME NEW s \in GatedSources, j[s].state = "complete"
      PROVE  NothingJoins(TxOf(d, k, j, s), e)
  <2> DEFINE t == TxOf(d, k, j, s)
  <2>1. t.db = d /\ JobHolds(s, t)
    BY <1>9, GatedFacts, TxFacts
  <2> HIDE DEF t
  <2>2. Named[c] \cap HeldNodes(t) = {}
    <3>1. CASE LiveIn(d, Named[c])
      BY <1>2, <2>1, <3>1, LiveIsUnheld
    <3>2. CASE c \in Undeclared
      <4>1. Named[c] \subseteq Sources /\ s \notin Named[c]
        BY <3>2, CallFacts, GatedFacts
      <4>2. HeldNodes(t) \cap Sources \subseteq {s}
        BY <2>1 DEF JobHolds, JobSound, HoldsStored
      <4> QED BY <4>1, <4>2
    <3> QED BY <3>1, <3>2
  <2>3. \A f \in IndexEdges(c) : f[2] \notin HeldNodes(t)
    BY <1>6, <2>2
  <2>4. ASSUME NEW f \in e.deps PROVE f \in EdgesIn(d) \/ f[2] \notin HeldNodes(t)
    BY <1>5, <2>3 DEF EdgesIn
  <2>5. ASSUME NEW f \in WorldEdges(e) PROVE f \in EdgesIn(d)
    <3>1. PICK m \in e.content : Class[m] = "world" /\ f \in EdgesOf(m)
      BY DEF WorldEdges
    <3>2. m \in d.content
      BY <1>2, <1>5, <3>1
    <3> QED BY <3>1, <3>2 DEF EdgesIn, WorldEdges
  <2>6. ASSUME NEW f \in CallEdges(e) PROVE f \in EdgesIn(d) \/ f[2] \notin HeldNodes(t)
    <3>1. PICK b \in e.calls : f \in IndexEdges(b)
      BY DEF CallEdges
    <3>2. b = c \/ b \in d.calls
      BY <1>4
    <3> QED BY <2>3, <3>1, <3>2 DEF EdgesIn, CallEdges
  <2>7. \A b \in e.requests \ t.db.requests : Named[b] \cap HeldNodes(t) = {}
    BY <1>4, <2>1, <2>2
  <2>8. NothingJoins(t, e)
    BY <2>1, <2>4, <2>5, <2>6, <2>7 DEF NothingJoins
  <2> QED BY <2>8 DEF t
<1> QED BY <1>8, <1>9, WritersKeep

\* Steps that write no object, edge or call: repair_binding, begin_revoke, and those
\* of directories.
Untouched(d, e) ==
    /\ e.content = d.content /\ e.redacted = d.redacted /\ e.deps = d.deps /\ e.reply = d.reply
    /\ e.calls = d.calls /\ e.requests = d.requests /\ d.tombstone \subseteq e.tombstone

\* What changes neither objects nor edges nor requests keeps it.
LEMMA UntouchedKeeps ==
    ASSUME NEW d, NEW k, NEW j, StoreInv(d, k, j), NEW e \in Database, Untouched(d, e),
           NEW l \in [Nodes -> Trees], \A n \in Nodes : l[n] # "none" => k[n] # "none" \/ n \in d.content
    PROVE  StoreInv(e, l, j)
<1>1. d \in Database /\ DatabaseSound(d)
  BY DEF StoreInv
<1>2. DatabaseSound(e) /\ StoredIn(e) = StoredIn(d)
  BY <1>1 DEF Untouched, DatabaseSound, StoredIn
<1>3. Grown(d, k, e, l)
  BY <1>2 DEF Grown, Untouched
<1>4. e.deps \cup WorldEdges(e) \cup CallEdges(e) \subseteq EdgesIn(d) /\ e.requests = d.requests
  BY DEF Untouched, EdgesIn, WorldEdges, CallEdges
<1>5. ASSUME NEW s \in GatedSources PROVE NothingJoins(TxOf(d, k, j, s), e)
  <2>1. TxOf(d, k, j, s).db = d
    BY GatedFacts, TxFacts
  <2> QED BY <1>4, <2>1 DEF NothingJoins
<1> QED BY <1>3, <1>5, WritersKeep

\* The frontier a job begins with.
FirstRows(s) ==
    [n \in {BudgetScan, WorldScan, s} |->
        NewRow(IF n = BudgetScan THEN 1 ELSE IF n = WorldScan THEN 2 ELSE 3)]

\* The begin of a revocation keeps it.
LEMMA RevokeKeeps ==
    ASSUME NEW d, NEW k, NEW j, StoreInv(d, k, j), NEW s \in Sources, s \in StoredIn(d),
           NEW e, e = [d EXCEPT !.tombstone = @ \cup {s}]
    PROVE  StoreInv(e, k, [j EXCEPT ![s] = [state |-> "pending", rows |-> FirstRows(s)]])
<1> DEFINE H == {BudgetScan, WorldScan, s}
           f == FirstRows(s)
           u == [db |-> e, disk |-> k, state |-> "pending", rows |-> f]
<1>1. d \in Database /\ k \in [Nodes -> Trees]
  BY DEF StoreInv
<1>2. e \in Database /\ Untouched(d, e) /\ s \in e.tombstone
  BY <1>1 DEF Database, Untouched
<1>3. StoreInv(e, k, j)
  BY <1>1, <1>2, UntouchedKeeps
<1>4. H \in SUBSET RowKeys /\ s \in Nodes /\ s # BudgetScan /\ s # WorldScan /\ TicketScan \notin H
  BY NodeKeys, SourceFacts
<1>5. IsFiniteSet(H) /\ Cardinality(H) = 3
  <2> DEFINE A == {BudgetScan}
             B == A \cup {WorldScan}
  <2>1. IsFiniteSet(A) /\ Cardinality(A) = 1
    BY FS_Singleton
  <2>2. WorldScan \notin A /\ s \notin B /\ H = B \cup {s}
    BY <1>4, NodeKeys
  <2>3. IsFiniteSet(B) /\ Cardinality(B) = 2
    <3> HIDE DEF A
    <3> QED BY <2>1, <2>2, FS_AddElement
  <2> HIDE DEF B
  <2> QED BY <2>2, <2>3, FS_AddElement
<1>6. f \in [H -> Row] /\ \A n \in H : f[n].at \in 1..3 /\ f[n].cursor = 0 /\ f[n].expanded = FALSE
  BY DEF FirstRows, NewRow, Row
<1>7. f \in Frontiers /\ DOMAIN f = H
  BY <1>4, <1>6, FrontierFacts
<1> HIDE DEF f
<1>8. u \in Transaction
  BY <1>1, <1>2, <1>7 DEF Transaction, JobStates
<1>9. u.db = e /\ u.disk = k /\ u.state = "pending" /\ u.rows = f
  OBVIOUS
<1> HIDE DEF u
<1>10. Held(u) = H /\ HeldNodes(u) = {s}
  BY <1>4, <1>7, <1>9, NodeKeys DEF Held, HeldNodes
<1>11. HoldsStored(s, u)
  <2>1. s \in StoredIn(e)
    BY <1>2 DEF Untouched, StoredIn
  <2> QED BY <1>9, <1>10, <2>1 DEF HoldsStored
<1>12. ExpandedClean(u)
  BY <1>6, <1>9, <1>10 DEF ExpandedClean
<1>13. WorldsFound(s, u)
  <2>1. \A n \in u.db.content : n > 0
    BY <1>2, <1>9, NodeKeys DEF Database
  <2> QED BY <1>6, <1>9, <2>1 DEF WorldsFound
<1>14. SeqsInRange(u) /\ ReportsFound(u)
  BY <1>4, <1>5, <1>6, <1>9, <1>10 DEF SeqsInRange, ReportsFound
<1>15. JobSound(s, u)
  BY <1>2, <1>9, <1>11, <1>12, <1>13, <1>14 DEF JobSound
<1>16. HeldIsDerived(s, u)
  BY <1>10 DEF HeldIsDerived, ReachedOver
<1>17. JobHolds(s, u)
  BY <1>3, <1>8, <1>9, <1>15, <1>16 DEF JobHolds, StoreInv
<1>18. StoreInv(u.db, u.disk, [j EXCEPT ![s] = [state |-> u.state, rows |-> u.rows]])
  <2>1. StoreInv(u.db, u.disk, j) /\ (u.state = "complete" => Settled(s, u))
    BY <1>3, <1>9
  <2> QED BY <1>8, <1>17, <2>1, JobReplaced
<1> QED BY <1>9, <1>18 DEF f

-----------------------------------------------------------------------------
(* What is derived from a source, of a database.                           *)

Turned(E) == {<<e[2], e[1]>> : e \in E}

DerivedIn(s, d) == Closure({s}, Turned(EdgesIn(d)))

DerivedCallsIn(s, d) ==
    {c \in Calls : s \in Named[c] \/ (Mode[c] = "e16" /\ Named[c] \cap DerivedIn(s, d) # {})}

CleanIn(s, d, k) ==
    /\ \A n \in DerivedIn(s, d) : /\ n \in d.content => Class[n] \in {"fact", "ref"}
                                  /\ n \notin d.reply
                                  /\ Class[n] = "export" => k[n] = "none"
    /\ \A c \in DerivedCallsIn(s, d) : c \notin d.requests

\* The definitions of the properties, as facts of the database.
LEMMA DerivedIs ==
    /\ Edges = EdgesIn(db) /\ Edges' = EdgesIn(db')
    /\ \A s : Derived(s) = DerivedIn(s, db) /\ DerivedCalls(s) = DerivedCallsIn(s, db)
    /\ \A s : Derived(s)' = DerivedIn(s, db') /\ DerivedCalls(s)' = DerivedCallsIn(s, db')
<1>1. Edges = EdgesIn(db)
  BY DEF Edges, EdgesIn, ReportEdges, WorldEdges, CallEdges, Stored, StoredIn
<1>2. Edges' = EdgesIn(db')
  BY DEF Edges, EdgesIn, ReportEdges, WorldEdges, CallEdges, Stored, StoredIn
<1>3. \A s : Derived(s) = DerivedIn(s, db)
  BY <1>1 DEF Derived, DerivedIn, Turned
<1>4. \A s : Derived(s)' = DerivedIn(s, db')
  BY <1>2 DEF Derived, DerivedIn, Turned
<1> QED BY <1>1, <1>2, <1>3, <1>4 DEF DerivedCalls, DerivedCallsIn

\* Likewise for a clean source.
LEMMA CleanIs ==
    ASSUME NEW s
    PROVE  (Clean(s) <=> CleanIn(s, db, disk)) /\ (Clean(s)' <=> CleanIn(s, db', disk'))
  BY DerivedIs DEF Clean, CleanIn

\* All edges lead from nodes to nodes.
LEMMA EdgesTyped ==
    ASSUME NEW d \in Database
    PROVE  EdgesIn(d) \in SUBSET (Nodes \X Nodes) /\ Turned(EdgesIn(d)) \in SUBSET (Nodes \X Nodes)
<1>1. d.deps \in SUBSET (Nodes \X Nodes) /\ d.content \subseteq Nodes /\ StoredIn(d) \subseteq Nodes /\ d.calls \subseteq Calls
  BY DEF Database, StoredIn
<1>2. ReportEdges(d) \subseteq Nodes \X Nodes
  BY <1>1 DEF ReportEdges
<1>3. WorldEdges(d) \subseteq Nodes \X Nodes
  BY <1>1, EdgeFacts DEF WorldEdges
<1>4. CallEdges(d) \subseteq Nodes \X Nodes
  BY <1>1, EdgeFacts DEF CallEdges
<1>5. EdgesIn(d) \in SUBSET (Nodes \X Nodes)
  BY <1>1, <1>2, <1>3, <1>4 DEF EdgesIn
<1> QED BY <1>5 DEF Turned

\* A set is closed under the turned edges if it is closed backwards.
LEMMA TurnedBack ==
    ASSUME NEW M, NEW E
    PROVE  Closed(M, Turned(E)) <=> Back(M, E)
<1>1. ASSUME Closed(M, Turned(E)) PROVE Back(M, E)
  <2> SUFFICES ASSUME NEW e \in E, e[2] \in M PROVE e[1] \in M
    BY DEF Back
  <2> DEFINE f == <<e[2], e[1]>>
  <2>1. f \in Turned(E) /\ f[1] = e[2] /\ f[2] = e[1]
    BY DEF Turned
  <2> HIDE DEF f
  <2> QED BY <1>1, <2>1 DEF Closed
<1>2. ASSUME Back(M, E) PROVE Closed(M, Turned(E))
  <2> SUFFICES ASSUME NEW f \in Turned(E), f[1] \in M PROVE f[2] \in M
    BY DEF Closed
  <2>1. PICK e \in E : f = <<e[2], e[1]>>
    BY DEF Turned
  <2>2. f[1] = e[2] /\ f[2] = e[1]
    BY <2>1
  <2> QED BY <1>2, <2>2 DEF Back
<1> QED BY <1>1, <1>2

\* What is derived from a source is closed.
LEMMA DerivedFacts ==
    ASSUME NEW s \in Sources, NEW d \in Database
    PROVE  s \in DerivedIn(s, d) /\ DerivedIn(s, d) \subseteq Nodes /\ Back(DerivedIn(s, d), EdgesIn(d))
<1>1. {s} \in SUBSET Nodes
  BY SourceFacts
<1>2. Turned(EdgesIn(d)) \in SUBSET (Nodes \X Nodes)
  BY EdgesTyped
<1>3. /\ {s} \subseteq DerivedIn(s, d) /\ DerivedIn(s, d) \subseteq Nodes
      /\ Closed(DerivedIn(s, d), Turned(EdgesIn(d)))
  BY <1>1, <1>2, ClosureClosed DEF DerivedIn
<1> QED BY <1>3, TurnedBack

\* A settled job leaves nothing of its source to read.
LEMMA SettledIsClean ==
    ASSUME NEW s \in Sources, NEW t, JobHolds(s, t), Settled(s, t), t.state # "failed"
    PROVE  CleanIn(s, t.db, t.disk)
<1>1. t.db \in Database /\ HeldNodes(t) \in SUBSET Nodes /\ s \in HeldNodes(t)
  BY RowFacts, SourceFacts DEF JobHolds, JobSound, HoldsStored, HeldNodes
<1>2. DerivedIn(s, t.db) \subseteq HeldNodes(t)
  <2>1. Closed(HeldNodes(t), Turned(EdgesIn(t.db)))
    BY TurnedBack DEF Settled
  <2>2. {s} \subseteq HeldNodes(t)
    BY <1>1
  <2> QED BY <2>1, <2>2, ClosureLeast DEF DerivedIn
<1>3. \A n \in HeldNodes(t) : NodeClean(t.db, t.disk, n)
  BY DEF JobHolds, JobSound, ExpandedClean, Settled
<1>4. \A c \in DerivedCallsIn(s, t.db) : c \notin t.db.requests
  BY <1>2 DEF DerivedCallsIn, Settled
<1> QED BY <1>2, <1>3, <1>4 DEF CleanIn, NodeClean

\* The frontier a step leaves lies in what was derived when it began.
LEMMA LeftIsDerived ==
    ASSUME NEW s \in Sources, NEW t, JobHolds(s, t), NEW u, Left(s, t, u)
    PROVE  /\ HeldNodes(u) \subseteq DerivedIn(s, t.db)
           /\ \A c \in t.db.requests \ u.db.requests : c \in DerivedCallsIn(s, t.db)
<1>1. t.db \in Database /\ DatabaseSound(t.db) /\ s \in Nodes
  BY SourceFacts DEF JobHolds, Transaction
<1>2. /\ u \in Transaction /\ ReachedOver(s, HeldNodes(u), LastingEdges(u.db)) /\ DatabaseSound(u.db)
      /\ Moved(s, t, u) /\ u.db.deps \subseteq EdgesIn(t.db)
  BY DEF Left, JobHolds, HeldIsDerived
<1>3. LastingEdges(u.db) \subseteq EdgesIn(t.db)
  <2>1. CallEdges(u.db) \subseteq EdgesIn(t.db)
    BY <1>2 DEF Moved, CallEdges, EdgesIn
  <2>2. ASSUME NEW e \in ReportEdges(u.db) PROVE e \in EdgesIn(t.db)
    <3>1. PICK n \in u.db.content : ReportOf[n] # 0 /\ e = <<ReportOf[n], n>>
      BY DEF ReportEdges
    <3>2. n \in Tickets
      BY <1>2, <3>1 DEF Tickets, Transaction, Database
    <3>3. Class[n] = "fact" /\ ReportOf[n] \in Historical
      BY <3>2, TicketFacts
    <3>4. n \in t.db.content
      BY <1>2, <3>3 DEF Moved
    <3>5. ReportOf[n] \in StoredIn(t.db)
      BY <1>1, <3>3 DEF DatabaseSound
    <3> QED BY <3>1, <3>4, <3>5 DEF ReportEdges, EdgesIn
  <2> QED BY <1>2, <2>1, <2>2 DEF LastingEdges
<1>4. ReachedOver(s, HeldNodes(u), EdgesIn(t.db))
  BY <1>2, <1>3, ReachedMore
<1> DEFINE D == DerivedIn(s, t.db)
<1>5. s \in D /\ D \subseteq Nodes /\ Back(D, EdgesIn(t.db))
  BY <1>1, DerivedFacts
<1> HIDE DEF D
<1>6. HeldNodes(u) \subseteq D
  BY <1>4, <1>5 DEF ReachedOver
<1>7. ASSUME NEW c \in t.db.requests \ u.db.requests PROVE c \in DerivedCallsIn(s, t.db)
  <2>0. c \in Calls
    BY <1>1 DEF Database
  <2>1. CASE s \in Named[c]
    BY <2>0, <2>1 DEF DerivedCallsIn
  <2>2. CASE s \notin Named[c]
    <3>1. Mode[c] = "e16" /\ RefOf[c] \in HeldNodes(u)
      BY <1>2, <2>0, <2>2, CallKeys DEF Moved, HeldNodes
    <3>2. ASSUME Named[c] \cap D = {} PROVE FALSE
      <4> DEFINE r == RefOf[c]
                 M == D \ {r}
      <4>1. Class[r] = "ref" /\ r \notin Sources /\ r \notin Historical
        BY <2>0, RefFacts
      <4>2. ASSUME NEW e \in EdgesIn(t.db), e[2] \in D PROVE e[1] # r
        <5> SUFFICES ASSUME e[1] = r PROVE FALSE
          OBVIOUS
        <5>1. CASE e \in t.db.deps
          <6>1. e[2] \in Named[c]
            BY <1>1, <2>0, <5>1, StaticFacts DEF DatabaseSound
          <6> QED BY <3>2, <4>2, <6>1
        <5>2. CASE e \in ReportEdges(t.db)
          <6>1. PICK n \in t.db.content : ReportOf[n] # 0 /\ e = <<ReportOf[n], n>>
            BY <5>2 DEF ReportEdges
          <6>2. n \in Tickets /\ e[1] = ReportOf[n]
            BY <1>1, <6>1 DEF Tickets, Database
          <6> QED BY <4>1, <6>2, TicketFacts
        <5>3. CASE e \in WorldEdges(t.db)
          <6>1. PICK n \in t.db.content : Class[n] = "world" /\ e \in EdgesOf(n)
            BY <5>3 DEF WorldEdges
          <6>2. n \in Nodes /\ e[1] = n
            BY <1>1, <6>1, EdgeFacts DEF Database
          <6> QED BY <4>1, <6>1, <6>2
        <5>4. CASE e \in CallEdges(t.db)
          <6>1. PICK b \in t.db.calls : e \in IndexEdges(b)
            BY <5>4 DEF CallEdges
          <6>2. b \in Calls /\ e[1] = RefOf[b] /\ e[2] \in Named[b]
            BY <1>1, <6>1, EdgeFacts DEF Database
          <6>3. b = c
            BY <2>0, <6>2, RefFacts
          <6> QED BY <3>2, <4>2, <6>2, <6>3
        <5> QED BY <5>1, <5>2, <5>3, <5>4 DEF EdgesIn
      <4> HIDE DEF r
      <4>3. Back(M, EdgesIn(t.db)) /\ s \in M /\ M \in SUBSET Nodes
        BY <1>5, <4>1, <4>2 DEF Back
      <4>4. HeldNodes(u) \subseteq M
        <5> HIDE DEF M
        <5> QED BY <1>4, <4>3 DEF ReachedOver
      <4> QED BY <3>1, <4>4 DEF r
    <3> QED BY <2>0, <3>1, <3>2 DEF DerivedCallsIn, D
  <2> QED BY <2>1, <2>2
<1> QED BY <1>6, <1>7 DEF D

-----------------------------------------------------------------------------
(* The invariant of the specification.                                     *)

\* The transaction of a step, as a fact of the state.
LEMMA TxIs == ASSUME NEW s PROVE Tx(s) = TxOf(db, disk, job, s)
  BY DEF Tx, TxOf

\* What a step of a job computes, whoever calls it.
LEMMA SteppedLeaves ==
    ASSUME CleanupInv, NEW s \in Sources, job[s].state \notin {"none", "complete"}, NEW role, NEW limit \in Limits
    PROVE  /\ JobHolds(s, TxOf(db, disk, job, s))
           /\ Left(s, TxOf(db, disk, job, s), Stepped(s, role, limit))
<1> DEFINE t == TxOf(db, disk, job, s)
<1>1. limit \in Nat \ {0}
  BY CleanupShape
<1>2. t = Tx(s) /\ JobHolds(s, t) /\ t.state = job[s].state
  BY TxIs, TxFacts DEF CleanupInv
<1> HIDE DEF t
<1>3. StepEnd(s, t, Stepped(s, role, limit))
  BY <1>1, <1>2, StepEnds
<1>4. Left(s, t, Stepped(s, role, limit))
  BY <1>3, StepLeaves
<1> QED BY <1>2, <1>4 DEF t

\* The invariant holds initially.
LEMMA InitSound == Init => CleanupInv
<1> SUFFICES ASSUME Init PROVE CleanupInv
  OBVIOUS
<1> DEFINE d == db
<1>1. /\ d.content = Sources \cup Historical /\ d.redacted = {} /\ d.reply = Historical /\ d.tombstone = {}
      /\ d.deps = UNION {EdgesOf(n) : n \in Historical}
      /\ d.calls = {} /\ d.requests = {} /\ d.bound = {} /\ d.unreadable = {}
  BY DEF Init
<1>2. Historical \subseteq Nodes /\ Sources \subseteq Nodes
  BY CleanupShape
<1>3. \A n \in Historical : EdgesOf(n) \subseteq WrittenEdges
  BY <1>2 DEF WrittenEdges
<1>4. d.deps \subseteq WrittenEdges /\ \A e \in d.deps : e[1] \in Historical
  BY <1>1, <1>2, <1>3, EdgeFacts
<1>5. d \in Database
  <2>1. d.deps \in SUBSET (Nodes \X Nodes)
    BY <1>4, StaticFacts
  <2>2. /\ d.content \in SUBSET Nodes /\ d.redacted \in SUBSET Nodes /\ d.reply \in SUBSET Nodes
        /\ d.tombstone \in SUBSET Sources /\ d.calls \in SUBSET Calls /\ d.requests \in SUBSET Calls
        /\ d.bound \in SUBSET Calls /\ d.unreadable \in SUBSET Calls
    BY <1>1, <1>2
  <2>3. db = [content |-> d.content, redacted |-> d.redacted, deps |-> d.deps, reply |-> d.reply,
              tombstone |-> d.tombstone, calls |-> d.calls, requests |-> d.requests,
              bound |-> d.bound, unreadable |-> d.unreadable]
    BY DEF Init
  <2> QED BY <2>1, <2>2, <2>3 DEF Database
<1>6. DatabaseSound(d)
  BY <1>1, <1>4 DEF DatabaseSound, StoredIn, StaticEdges
<1>7. disk \in [Nodes -> Trees]
  BY DEF Init, Trees
<1>8. NoRows \in Frontiers
  <2>1. NoRows \in [{} -> Row] /\ {} \in SUBSET RowKeys
    BY DEF NoRows
  <2> QED BY <2>1, FrontierFacts
<1>9. /\ job \in [Sources -> [state : JobStates, rows : Frontiers]]
      /\ \A s \in Sources : job[s].state = "none"
  BY <1>8 DEF Init, JobStates
<1>10. \A s \in GatedSources : s \in Sources
  BY GatedFacts
<1> QED BY <1>5, <1>6, <1>7, <1>9, <1>10 DEF CleanupInv, StoreInv

\* Every step keeps it.
LEMMA NextKeeps == CleanupInv /\ [Next]_vars => CleanupInv'
<1> SUFFICES ASSUME CleanupInv, [Next]_vars PROVE StoreInv(db', disk', job')
  BY DEF CleanupInv
<1>0. StoreInv(db, disk, job) /\ db \in Database /\ disk \in [Nodes -> Trees]
  BY DEF CleanupInv, StoreInv
<1>1. ASSUME NEW n \in Nodes, put_object(n) PROVE StoreInv(db', disk', job')
  <2>1. n \notin StoredIn(db) /\ (n \in Ungated \/ LiveIn(db, Upstream[n])) /\ disk' = disk /\ job' = job
    BY <1>1, LiveIsLiveIn DEF put_object, Stored, StoredIn
  <2>2. db' = [db EXCEPT !.content = @ \cup {n},
                         !.deps = IF Class[n] = "world" THEN @ ELSE @ \cup EdgesOf(n),
                         !.reply = @ \cup {n}]
    BY <1>1 DEF put_object
  <2>3. StoreInv(db', disk, job)
    BY <1>0, <2>1, <2>2, PutKeeps
  <2> QED BY <2>1, <2>3
<1>2. ASSUME NEW n \in Nodes, seal_replay_world(n) PROVE StoreInv(db', disk', job')
  <2>1. /\ Class[n] = "world" /\ n \in db.content /\ disk' = disk /\ job' = job
        /\ db' = [db EXCEPT !.deps = @ \cup EdgesOf(n)]
    BY <1>2 DEF seal_replay_world
  <2>2. StoreInv(db', disk, job)
    BY <1>0, <2>1, SealKeeps
  <2> QED BY <2>1, <2>2
<1>3. ASSUME NEW n \in Nodes, publish_export(n) PROVE StoreInv(db', disk', job')
  <2>1. n \in db.content /\ disk' = [disk EXCEPT ![n] = "published"] /\ db' = db /\ job' = job
    BY <1>3 DEF publish_export
  <2>2. /\ disk' \in [Nodes -> Trees]
        /\ \A m \in Nodes : disk'[m] # "none" => disk[m] # "none" \/ m \in db.content
    BY <1>0, <2>1 DEF Trees
  <2>3. Untouched(db, db)
    BY DEF Untouched
  <2>4. StoreInv(db, disk', job)
    BY <1>0, <2>2, <2>3, UntouchedKeeps
  <2> QED BY <2>1, <2>4
<1>4. ASSUME NEW n \in Nodes, relink_export(n) PROVE StoreInv(db', disk', job')
  <2>1. /\ disk[n] # "none" /\ db' = db /\ job' = job
        /\ disk' = [disk EXCEPT ![n] = IF @ = "published" THEN "linked" ELSE "published"]
    BY <1>4 DEF relink_export
  <2>2. /\ disk' \in [Nodes -> Trees]
        /\ \A m \in Nodes : disk'[m] # "none" => disk[m] # "none" \/ m \in db.content
    BY <1>0, <2>1 DEF Trees
  <2>3. Untouched(db, db)
    BY DEF Untouched
  <2>4. StoreInv(db, disk', job)
    BY <1>0, <2>2, <2>3, UntouchedKeeps
  <2> QED BY <2>1, <2>4
<1>5. ASSUME NEW c \in Calls, reserve_call(c) PROVE StoreInv(db', disk', job')
  <2>1. (c \in Undeclared \/ LiveIn(db, Named[c])) /\ disk' = disk /\ job' = job
    BY <1>5, LiveIsLiveIn DEF reserve_call
  <2>2. db' = [db EXCEPT
            !.calls = @ \cup {c},
            !.requests = @ \cup {c},
            !.bound = IF c \in Undeclared THEN @ ELSE @ \cup {c},
            !.unreadable = IF c \in Damaged THEN @ \cup {c} ELSE @,
            !.content = IF c \in Undeclared THEN @ ELSE @ \cup {RefOf[c]},
            !.deps = IF c \in Undeclared \cup Unindexed THEN @ ELSE @ \cup IndexEdges(c)]
    BY <1>5 DEF reserve_call
  <2>3. StoreInv(db', disk, job)
    BY <1>0, <2>1, <2>2, ReserveKeeps
  <2> QED BY <2>1, <2>3
<1>6. ASSUME NEW c \in Calls, repair_binding(c) PROVE StoreInv(db', disk', job')
  <2>1. db' = [db EXCEPT !.unreadable = @ \ {c}] /\ disk' = disk /\ job' = job
    BY <1>6 DEF repair_binding
  <2>2. db' \in Database /\ Untouched(db, db')
    BY <1>0, <2>1 DEF Database, Untouched
  <2>3. StoreInv(db', disk, job)
    BY <1>0, <2>2, UntouchedKeeps
  <2> QED BY <2>1, <2>3
<1>7. ASSUME NEW s \in Sources, begin_revoke(s) PROVE StoreInv(db', disk', job')
  <2>1. /\ s \in StoredIn(db) /\ db' = [db EXCEPT !.tombstone = @ \cup {s}] /\ disk' = disk
        /\ job' = [job EXCEPT ![s] = [state |-> "pending", rows |-> FirstRows(s)]]
    BY <1>7 DEF begin_revoke, Stored, StoredIn, FirstRows
  <2>2. StoreInv(db', disk, [job EXCEPT ![s] = [state |-> "pending", rows |-> FirstRows(s)]])
    BY <1>0, <2>1, RevokeKeeps
  <2> QED BY <2>1, <2>2
<1>8. ASSUME NEW s \in Sources, NEW role, NEW limit \in Limits, cleanup_step(s, role, limit)
      PROVE  StoreInv(db', disk', job')
  <2> DEFINE u == Stepped(s, role, limit)
  <2>1. /\ job[s].state \notin {"none", "complete"} /\ db' = u.db /\ disk' = u.disk
        /\ job' = [job EXCEPT ![s] = [state |-> u.state, rows |-> u.rows]]
    BY <1>8 DEF cleanup_step
  <2>2. Left(s, TxOf(db, disk, job, s), u)
    BY <2>1, SteppedLeaves
  <2> HIDE DEF u
  <2>3. StoreInv(u.db, u.disk, [job EXCEPT ![s] = [state |-> u.state, rows |-> u.rows]])
    BY <1>0, <2>2, StepKeeps
  <2> QED BY <2>1, <2>3
<1>9. ASSUME NEW s \in Sources, NEW role, NEW limit \in Limits, cleanup_step_lost(s, role, limit)
      PROVE  StoreInv(db', disk', job')
  <2> DEFINE u == Stepped(s, role, limit)
             t == TxOf(db, disk, job, s)
  <2>1. job[s].state \notin {"none", "complete"} /\ disk' = u.disk /\ db' = db /\ job' = job
    BY <1>9 DEF cleanup_step_lost
  <2>2. Left(s, t, u)
    BY <2>1, SteppedLeaves
  <2>3. t.db = db /\ t.disk = disk
    BY <1>0, TxFacts
  <2> HIDE DEF u, t
  <2>4. u \in Transaction /\ Moved(s, t, u)
    BY <2>2 DEF Left
  <2>5. /\ u.disk \in [Nodes -> Trees]
        /\ \A m \in Nodes : u.disk[m] # "none" => disk[m] # "none" \/ m \in db.content
    BY <2>3, <2>4 DEF Transaction, Moved
  <2>6. Untouched(db, db)
    BY DEF Untouched
  <2>7. StoreInv(db, u.disk, job)
    BY <1>0, <2>5, <2>6, UntouchedKeeps
  <2> QED BY <2>1, <2>7
<1>10. CASE UNCHANGED vars
  BY <1>0, <1>10 DEF vars
<1> QED BY <1>1, <1>2, <1>3, <1>4, <1>5, <1>6, <1>7, <1>8, <1>9, <1>10 DEF Next, StepAs

-----------------------------------------------------------------------------
(* The theorems.                                                           *)

\* So it always holds,
LEMMA InvAlways == Spec => []CleanupInv
  BY InitSound, NextKeeps, PTL DEF Spec

\* and it implies that completed cleanups of gated sources are clean.
LEMMA InvIsSafe == CleanupInv => CleanupTypeOK /\ StaysClean
<1> SUFFICES ASSUME CleanupInv PROVE CleanupTypeOK /\ StaysClean
  OBVIOUS
<1>1. StoreInv(db, disk, job)
  BY DEF CleanupInv
<1>2. CleanupTypeOK
  <2>1. \A s \in Sources : JobOK(job[s])
    <3> TAKE s \in Sources
    <3>1. job[s].state \in JobStates /\ job[s].rows \in Frontiers
      BY <1>1 DEF StoreInv
    <3> QED BY <3>1, FrontierFacts DEF JobOK
  <2>2. DOMAIN job = Sources
    BY <1>1 DEF StoreInv
  <2> QED BY <1>1, <2>1, <2>2 DEF CleanupTypeOK, StoreInv, DatabaseSound
<1>3. StaysClean
  <2> SUFFICES ASSUME NEW s \in GatedSources, job[s].state = "complete" PROVE Clean(s)
    BY DEF StaysClean
  <2> DEFINE t == TxOf(db, disk, job, s)
  <2>1. t.db = db /\ t.disk = disk /\ t.state = "complete" /\ JobHolds(s, t) /\ Settled(s, t) /\ s \in Sources
    BY <1>1, TxFacts, GatedFacts
  <2> HIDE DEF t
  <2>2. CleanIn(s, t.db, t.disk)
    BY <2>1, SettledIsClean
  <2> QED BY <2>1, <2>2, CleanIs
<1> QED BY <1>2, <1>3

\* For every graph of objects and calls: types, and once the cleanup of a source whose
\* descendants all have judging writers is complete, nothing derived from the source is
\* ever readable again (revocation_gate and the fixpoint of cleanup_step).
THEOREM CleanupIsSafe == Spec => []CleanupSafe
  BY InvAlways, InvIsSafe, PTL DEF CleanupSafe

\* A step of a job that begins with one state and ends with another has computed it.
LEMMA StepsAre ==
    ASSUME [Next]_vars, NEW s \in Sources, job[s].state # "complete", job'[s].state = "complete",
           CleanupInv
    PROVE  \E role, limit : limit \in Limits /\ cleanup_step(s, role, limit)
<1>1. job \in [Sources -> [state : JobStates, rows : Frontiers]]
  BY DEF CleanupInv, StoreInv
<1>2. job' # job
  OBVIOUS
<1>3. ~ \E n \in Nodes : put_object(n) \/ seal_replay_world(n) \/ publish_export(n) \/ relink_export(n)
  BY <1>2 DEF put_object, seal_replay_world, publish_export, relink_export
<1>4. ~ \E c \in Calls : reserve_call(c) \/ repair_binding(c)
  BY <1>2 DEF reserve_call, repair_binding
<1>5. ~ UNCHANGED vars
  BY <1>2 DEF vars
<1>6. ASSUME NEW r \in Sources, begin_revoke(r) PROVE FALSE
  <2>1. job'[s] = job[s] \/ job'[s].state = "pending"
    BY <1>1, <1>6 DEF begin_revoke
  <2> QED BY <2>1
<1>7. ASSUME NEW r \in Sources, NEW role, NEW limit, cleanup_step_lost(r, role, limit) PROVE FALSE
  BY <1>2, <1>7 DEF cleanup_step_lost
<1>8. PICK r \in Sources : \E role \in Roles : StepAs(r, role)
  BY <1>3, <1>4, <1>5, <1>6, <1>7 DEF Next
<1>9. PICK role \in Roles, limit \in Limits : cleanup_step(r, role, limit)
  BY <1>8 DEF StepAs
<1>10. r = s
  <2> SUFFICES ASSUME r # s PROVE FALSE
    OBVIOUS
  <2>1. job'[s] = job[s]
    BY <1>1, <1>9 DEF cleanup_step
  <2> QED BY <2>1
<1> QED BY <1>9, <1>10

\* A step that completes a job leaves its source clean.
LEMMA CompletionIsClean ==
    ASSUME CleanupInv, [Next]_vars, NEW s \in Sources, job[s].state # "complete", job'[s].state = "complete"
    PROVE  Clean(s)'
<1>1. PICK role, limit : limit \in Limits /\ cleanup_step(s, role, limit)
  BY StepsAre
<1> DEFINE u == Stepped(s, role, limit)
<1>2. /\ job[s].state \notin {"none", "complete"} /\ db' = u.db /\ disk' = u.disk
      /\ job' = [job EXCEPT ![s] = [state |-> u.state, rows |-> u.rows]]
  BY <1>1 DEF cleanup_step
<1>3. Left(s, TxOf(db, disk, job, s), u)
  BY <1>1, <1>2, SteppedLeaves
<1> HIDE DEF u
<1>4. job'[s].state = u.state
  BY <1>2 DEF CleanupInv, StoreInv
<1>5. JobHolds(s, u) /\ Settled(s, u) /\ u.state # "failed"
  BY <1>3, <1>4 DEF Left
<1>6. CleanIn(s, u.db, u.disk)
  BY <1>5, SettledIsClean
<1> QED BY <1>2, <1>6, CleanIs

\* What a step leaves was taken from what is derived from a revoked source.
LEMMA TakenIsDerived ==
    ASSUME CleanupInv, [Next]_vars
    PROVE  LET reached == UNION {Derived(s) : s \in db.tombstone}
               calls == UNION {DerivedCalls(s) : s \in db.tombstone}
           IN /\ \A n \in Nodes :
                    /\ n \in (db.content \ db'.content) \cup (db.reply \ db'.reply) => n \in reached
                    /\ disk[n] # "none" /\ disk'[n] = "none" => n \in reached
              /\ db.requests \ db'.requests \subseteq calls
<1> DEFINE Kept == /\ db.content \subseteq db'.content /\ db.reply \subseteq db'.reply
                   /\ db.requests \subseteq db'.requests
           Trees2 == \A n \in Nodes : disk[n] # "none" => disk'[n] # "none"
           D == UNION {DerivedIn(s, db) : s \in db.tombstone}
           C == UNION {DerivedCallsIn(s, db) : s \in db.tombstone}
           Goal == /\ \A n \in Nodes :
                         /\ n \in (db.content \ db'.content) \cup (db.reply \ db'.reply) => n \in D
                         /\ disk[n] # "none" /\ disk'[n] = "none" => n \in D
                   /\ db.requests \ db'.requests \subseteq C
<1>0. db \in Database /\ disk \in [Nodes -> Trees] /\ StoreInv(db, disk, job)
  BY DEF CleanupInv, StoreInv
<1>1. SUFFICES Goal
  BY DerivedIs
<1>2. ASSUME Kept, Trees2 PROVE Goal
  BY <1>2
<1>3. ASSUME NEW n \in Nodes, put_object(n) \/ seal_replay_world(n) PROVE Goal
  <2>1. Trees2
    BY <1>3 DEF put_object, seal_replay_world
  <2>2. CASE put_object(n)
    <3>1. db'.content = db.content \cup {n} /\ db'.reply = db.reply \cup {n} /\ db'.requests = db.requests
      BY <1>0, <2>2 DEF put_object, Database
    <3> QED BY <1>2, <2>1, <3>1
  <2>3. CASE seal_replay_world(n)
    <3>1. db'.content = db.content /\ db'.reply = db.reply /\ db'.requests = db.requests
      BY <1>0, <2>3 DEF seal_replay_world, Database
    <3> QED BY <1>2, <2>1, <3>1
  <2> QED BY <1>3, <2>2, <2>3
<1>4. ASSUME NEW n \in Nodes, publish_export(n) \/ relink_export(n) PROVE Goal
  <2>1. db' = db
    BY <1>4 DEF publish_export, relink_export
  <2>2. Trees2
    BY <1>0, <1>4 DEF publish_export, relink_export, Trees
  <2> QED BY <1>2, <2>1, <2>2
<1>5. ASSUME NEW c \in Calls, reserve_call(c) \/ repair_binding(c) PROVE Goal
  <2>1. Trees2
    BY <1>5 DEF reserve_call, repair_binding
  <2>2. CASE reserve_call(c)
    <3>1. /\ db'.content = IF c \in Undeclared THEN db.content ELSE db.content \cup {RefOf[c]}
          /\ db'.reply = db.reply
          /\ db'.requests = db.requests \cup {c}
      BY <1>0, <2>2 DEF reserve_call, Database
    <3>2. db.content \subseteq db'.content
      BY <3>1
    <3> QED BY <1>2, <2>1, <3>1, <3>2
  <2>3. CASE repair_binding(c)
    <3>1. db'.content = db.content /\ db'.reply = db.reply /\ db'.requests = db.requests
      BY <1>0, <2>3 DEF repair_binding, Database
    <3> QED BY <1>2, <2>1, <3>1
  <2> QED BY <1>5, <2>2, <2>3
<1>6. ASSUME NEW s \in Sources, begin_revoke(s) PROVE Goal
  BY <1>0, <1>2, <1>6 DEF begin_revoke, Database
<1>7. ASSUME NEW s \in Sources, NEW role, NEW limit \in Limits,
             job[s].state \notin {"none", "complete"}, disk' = Stepped(s, role, limit).disk,
             db' = db \/ db' = Stepped(s, role, limit).db
      PROVE  Goal
  <2> DEFINE t == TxOf(db, disk, job, s)
             u == Stepped(s, role, limit)
  <2>1. Left(s, t, u) /\ JobHolds(s, t)
    BY <1>7, SteppedLeaves
  <2>2. t.db = db /\ t.disk = disk
    BY <1>0, TxFacts
  <2>3. disk' = u.disk /\ (db' = db \/ db' = u.db)
    BY <1>7
  <2> HIDE DEF t, u
  <2>4. Moved(s, t, u) /\ s \in db.tombstone
    BY <2>1, <2>2 DEF Left, JobHolds, JobSound
  <2>5. /\ HeldNodes(u) \subseteq DerivedIn(s, db)
        /\ \A c \in db.requests \ u.db.requests : c \in DerivedCallsIn(s, db)
    BY <2>1, <2>2, LeftIsDerived
  <2>6. \A n \in Nodes : disk[n] # "none" /\ disk'[n] = "none" => n \in HeldNodes(u)
    BY <2>2, <2>3, <2>4 DEF Moved, HeldNodes
  <2>7. \A n \in Nodes : n \in (db.content \ db'.content) \cup (db.reply \ db'.reply) => n \in HeldNodes(u)
    BY <2>2, <2>3, <2>4 DEF Moved, HeldNodes
  <2>8. HeldNodes(u) \subseteq D
    BY <2>4, <2>5
  <2>9. db.requests \ db'.requests \subseteq C
    BY <2>3, <2>4, <2>5
  <2> QED BY <2>6, <2>7, <2>8, <2>9
<1>8. ASSUME NEW s \in Sources, NEW role, NEW limit \in Limits, cleanup_step(s, role, limit) PROVE Goal
  BY <1>7, <1>8 DEF cleanup_step
<1>9. ASSUME NEW s \in Sources, NEW role, NEW limit \in Limits, cleanup_step_lost(s, role, limit) PROVE Goal
  BY <1>7, <1>9 DEF cleanup_step_lost
<1>10. CASE UNCHANGED vars
  BY <1>2, <1>10 DEF vars
<1> HIDE DEF Goal
<1> QED BY <1>3, <1>4, <1>5, <1>6, <1>8, <1>9, <1>10 DEF Next, StepAs

\* A job is reported complete only in a step that leaves nothing of its source to read,
\* and no step, committed or lost, takes what is not derived from a revoked source
\* (cleanup_step, closure_is_open, cleanup_node_content).
THEOREM StepsAreRight == Spec => CleanupStepsRight
<1>1. CleanupInv /\ [Next]_vars =>
          [\A s \in Sources : job[s].state # "complete" /\ job'[s].state = "complete" => Clean(s)']_vars
  BY CompletionIsClean
<1>2. CleanupInv /\ [Next]_vars =>
          [LET reached == UNION {Derived(s) : s \in db.tombstone}
               calls == UNION {DerivedCalls(s) : s \in db.tombstone}
           IN /\ \A n \in Nodes :
                    /\ n \in (db.content \ db'.content) \cup (db.reply \ db'.reply) => n \in reached
                    /\ disk[n] # "none" /\ disk'[n] = "none" => n \in reached
              /\ db.requests \ db'.requests \subseteq calls]_vars
  BY TakenIsDerived
<1> QED BY <1>1, <1>2, InvAlways, PTL DEF Spec, CleanupStepsRight, CompletesClean, OnlyDerivedIsCleaned

=============================================================================
