------------------------- MODULE ManagementJobProofs -------------------------
(***************************************************************************)
(* The dispatcher, for any requests, tasks, crashes and capacity: a        *)
(* request is executed once and the record of its job is honest.           *)
(*                                                                         *)
(* The invariant is local to a job: what its row says (RowSound), what     *)
(* each of its tasks relies on (TaskSound), and that at most one of them   *)
(* is at work.  What the steps of other jobs may do to it is Drift.        *)
(***************************************************************************)
EXTENDS ManagementJob, FiniteSetTheorems, TLAPS

Tasks == Jobs \X Slots
Busy(t) == task[t].pc \notin {"idle", "retry"}

\* Job j has committed nothing of its own, and stands behind nothing.
Untouched(j) ==
    /\ operation[j] \in Producers => fact[operation[j]] # j
    /\ export.prepare_job # j /\ export.publish_job # j

\* The holdout of a registration: this job's own, or an earlier one.
HoldoutIs(j, step) ==
    /\ operation[j] = "current"
    /\ step = "recorded" => fact["current"] = j
    /\ step = "already" => fact["current"] \notin {"none", j}

\* What the row k of job j says.
RowSound(j, k) ==
    /\ k.generation <= 1
    /\ ~Stored(k) \/ k.state = "queued" =>
          /\ Untouched(j) /\ k.result = "none" /\ k.arrival = "none" /\ ~k.cancel
          /\ k.generation = 0 /\ k.lease = "none"
    /\ Unclosed(k) =>
          /\ k.result = "effect" => k.step \in {"recorded", "already"}
          /\ k.step \in {"recorded", "already"} => HoldoutIs(j, k.step) /\ k.result = "effect"
          /\ k.arrival = "before" => k.step = "already"
          /\ k.arrival = "after" => k.step = "recorded"
    /\ k.arrival # "none" => k.cancel
    /\ is_terminal(k) =>
          /\ k.lease = "none"
          /\ k.state \in {"failed", "cancelled"} => ~OwnEffect(j)
          /\ k.result = "effect" => EffectExists(j)
          /\ k.arrival = "before" => ~OwnEffect(j)
          /\ k.arrival = "after" => EffectExists(j) /\ (operation[j] = "current" => OwnEffect(j))

\* The steps of a worker, by operation.
StepsOf(pc) ==
    CASE pc = "bind" -> {"current"}
      [] pc = "prepare" -> {"prepare"}
      [] pc \in {"review", "publish", "deliver", "abort"} -> {"publish"}
      [] pc \in {"checkpoint", "effect"} -> Ops \ {"current", "prepare", "publish"}
      [] OTHER -> Ops

\* The export is this job's, decided on and not ended by it.
OwnExport(j) == operation[j] = "publish" /\ export.publish_job = j /\ export.phase \in {"reviewed", "redacted"}

\* What is told of work that was committed: a worker's outcome or what was found.
ToldSound(j, k, o) ==
    /\ o.state \in {"succeeded", "blocked"}
    /\ o.result = "effect" => EffectExists(j)
    /\ o.result # "effect" => ~OwnEffect(j)
    /\ operation[j] = "current" => o.result = "effect" /\ o.step = k.step /\ o.step \in {"recorded", "already"}
    /\ o.step = "already" => operation[j] = "current"

SeenSound(j, k, o) ==
    /\ o.kind \in {"outcome", "refused", "lost"}
    /\ o.kind = "outcome" => ToldSound(j, k, o)
    /\ o.kind = "refused" => o = Refused /\ ~OwnEffect(j)
    /\ o.kind = "lost" => o = Lost

FoundSound(j, k, o) ==
    /\ o.kind \in {"unknown", "not_committed", "committed"}
    /\ o.kind = "not_committed" => ~OwnEffect(j)
    /\ o.kind = "committed" => ToldSound(j, k, o)

\* What a task x of job j, whose row is k, relies on at each of its steps.
TaskSound(j, k, x) ==
    /\ x.pc \in {"claim", "retry"} => Stored(k)
    /\ x.pc = "claim" => ~Unclosed(k)
    /\ x.pc = "end" => is_terminal(k)
    /\ x.pc \in ConsumerSteps \cup (ClosingSteps \ {"observed"}) => Unclosed(k)
    /\ x.pc = "observed" => Unclosed(k) \/ is_terminal(k)
    /\ x.pc \in ConsumerSteps => operation[j] \in StepsOf(x.pc)
    /\ x.pc \in ConsumerSteps \ {"publish", "deliver", "abort"} => Untouched(j)
    /\ x.pc \in {"publish", "deliver", "abort", "verify", "confirm"} => OwnExport(j)
    /\ x.pc \in {"publish", "abort"} => ~tree
    /\ x.pc \in ClosingSteps /\ Unclosed(k) => SeenSound(j, k, x.seen)
    /\ x.pc \in {"verify", "confirm"} => x.seen.kind = "lost"
    /\ x.pc = "settle" /\ x.seen.kind = "lost" => FoundSound(j, k, x.found)

\* At most one task of a job is at work; it is registered, and an unfinished job of a
\* running process has one.
OneAtWork(j) ==
    /\ \A m, n \in Slots : Busy(<<j, m>>) /\ Busy(<<j, n>>) => m = n
    /\ j \in active <=> \E n \in Slots : Busy(<<j, n>>)
    /\ process = "up" /\ Unclosed(job[j]) => \E n \in Slots : Busy(<<j, n>>)

ExportShape ==
    /\ export.phase = "absent" => export.prepare_job = "none"
    /\ export.phase \in {"absent", "prepared"} => export.publish_job = "none" /\ ~tree

UnclosedJobs == {j \in Jobs : Unclosed(job[j])}
WithinSlots == Cardinality(UnclosedJobs) <= MaxConcurrent

JobInv ==
    /\ TypeOK /\ ExportShape /\ WithinSlots
    /\ \A j \in Jobs : RowSound(j, job[j]) /\ OneAtWork(j)
    /\ \A t \in Tasks : TaskSound(t[1], job[t[1]], task[t])

USE DEF Tasks, Ops, Producers, Terminals, ConsumerSteps, ClosingSteps

-----------------------------------------------------------------------------
(* What the steps of other jobs do to job i.                               *)

Drift(i) ==
    /\ operation' = operation
    /\ operation[i] \in Producers =>
          /\ fact'[operation[i]] = i <=> fact[operation[i]] = i
          /\ fact[operation[i]] # "none" => fact'[operation[i]] = fact[operation[i]]
    /\ export'.prepare_job = i <=> export.prepare_job = i
    /\ export'.publish_job = i <=> export.publish_job = i
    /\ export.publish_job = i =>
          /\ tree' => tree
          /\ export'.phase = export.phase \/ (export'.phase = "redacted" /\ ~tree')

LEMMA DriftKeeps ==
    ASSUME NEW i \in Jobs, Drift(i)
    PROVE  /\ ~OwnEffect(i) => ~OwnEffect(i)'
           /\ EffectExists(i) => EffectExists(i)'
           /\ operation[i] = "current" /\ OwnEffect(i) => OwnEffect(i)'
           /\ Untouched(i) => Untouched(i)'
           /\ \A s : HoldoutIs(i, s) => HoldoutIs(i, s)'
           /\ OwnExport(i) => OwnExport(i)' /\ (tree' => tree)
<1>1. ~OwnEffect(i) => ~OwnEffect(i)'
  BY DEF Drift, OwnEffect
<1>2. EffectExists(i) => EffectExists(i)'
  BY DEF Drift, EffectExists
<1>3. operation[i] = "current" /\ OwnEffect(i) => OwnEffect(i)'
  BY DEF Drift, OwnEffect
<1>4. Untouched(i) => Untouched(i)'
  BY DEF Drift, Untouched
<1>5. \A s : HoldoutIs(i, s) => HoldoutIs(i, s)'
  BY DEF Drift, HoldoutIs
<1>6. OwnExport(i) => OwnExport(i)' /\ (tree' => tree)
  BY DEF Drift, OwnExport
<1> QED BY <1>1, <1>2, <1>3, <1>4, <1>5, <1>6

LEMMA RowKept ==
    ASSUME NEW i \in Jobs, Drift(i), NEW k, RowSound(i, k)
    PROVE  RowSound(i, k)'
<1>1. operation' = operation
  BY DEF Drift
<1> QED BY <1>1, DriftKeeps DEF RowSound

LEMMA ToldKept ==
    ASSUME NEW i \in Jobs, Drift(i), NEW k, NEW o, ToldSound(i, k, o)
    PROVE  ToldSound(i, k, o)'
<1>1. operation' = operation
  BY DEF Drift
<1> QED BY <1>1, DriftKeeps DEF ToldSound

LEMMA TaskKept ==
    ASSUME NEW i \in Jobs, Drift(i), NEW k, NEW x, TaskSound(i, k, x)
    PROVE  TaskSound(i, k, x)'
<1>1. operation' = operation
  BY DEF Drift
<1>2. \A o : SeenSound(i, k, o) => SeenSound(i, k, o)'
  BY DriftKeeps, ToldKept DEF SeenSound, Refused, Lost
<1>3. \A o : FoundSound(i, k, o) => FoundSound(i, k, o)'
  BY DriftKeeps, ToldKept DEF FoundSound
<1> QED BY <1>1, <1>2, <1>3, DriftKeeps DEF TaskSound, StepsOf

\* The row of a job moves and a task of it does not: the job stays unfinished, or
\* as it was finished.
SameStanding(k, l) ==
    /\ Unclosed(k) <=> Unclosed(l)
    /\ is_terminal(k) => is_terminal(l)
    /\ Stored(k) => Stored(l)
    /\ Unclosed(k) => l.step = k.step

LEMMA TaskStands ==
    ASSUME NEW i, NEW k, NEW l, NEW x, SameStanding(k, l), TaskSound(i, k, x)
    PROVE  TaskSound(i, l, x)
<1>1. Unclosed(k) => \A o : ToldSound(i, k, o) => ToldSound(i, l, o)
  BY DEF SameStanding, ToldSound
<1>2. Unclosed(k) => \A o : SeenSound(i, k, o) => SeenSound(i, l, o)
  BY <1>1 DEF SeenSound
<1>3. Unclosed(k) => \A o : FoundSound(i, k, o) => FoundSound(i, l, o)
  BY <1>1 DEF FoundSound
<1> QED BY <1>2, <1>3 DEF TaskSound, SameStanding

-----------------------------------------------------------------------------
(* A step of one job.                                                      *)

LEMMA OneJobMoves ==
    ASSUME JobInv, TypeOK', ExportShape', WithinSlots', NEW j \in Jobs,
           \A i \in Jobs \ {j} : Drift(i) /\ job'[i] = job[i] /\ (i \in active' <=> i \in active),
           \A t \in Tasks : t[1] # j => task'[t] = task[t],
           process' = process,
           RowSound(j, job[j])', OneAtWork(j)', \A n \in Slots : TaskSound(j, job[j], task[<<j, n>>])'
    PROVE  JobInv'
<1>1. ASSUME NEW i \in Jobs PROVE RowSound(i, job[i])' /\ OneAtWork(i)'
  <2>1. CASE i # j
    <3>1. Drift(i) /\ job'[i] = job[i] /\ RowSound(i, job[i]) /\ OneAtWork(i)
      BY <2>1 DEF JobInv
    <3>2. RowSound(i, job[i])'
      BY <3>1, RowKept
    <3>3. \A n \in Slots : task'[<<i, n>>] = task[<<i, n>>]
      BY <2>1
    <3> QED BY <2>1, <3>1, <3>2, <3>3 DEF OneAtWork, Busy
  <2> QED BY <2>1
<1>2. ASSUME NEW t \in Tasks PROVE TaskSound(t[1], job[t[1]], task[t])'
  <2>1. CASE t[1] # j
    <3>1. t[1] \in Jobs /\ Drift(t[1]) /\ job'[t[1]] = job[t[1]] /\ task'[t] = task[t] /\ TaskSound(t[1], job[t[1]], task[t])
      BY <2>1 DEF JobInv
    <3> QED BY <3>1, TaskKept
  <2>2. CASE t[1] = j
    <3>1. t = <<j, t[2]>> /\ t[2] \in Slots
      BY <2>2
    <3> QED BY <2>2, <3>1
  <2> QED BY <2>1, <2>2
<1> QED BY <1>1, <1>2 DEF JobInv

LEMMA UnclosedIsFinite == IsFiniteSet(UnclosedJobs) /\ Cardinality(UnclosedJobs) \in Nat
BY JobShape, FS_Subset, FS_CardinalityType DEF UnclosedJobs

\* The open jobs stay within the capacity: none is opened, or one was free.
LEMMA SlotsHold ==
    ASSUME WithinSlots, NEW j \in Jobs, \A i \in Jobs \ {j} : job'[i] = job[i],
           Unclosed(job[j])' => Unclosed(job[j]) \/ CapacityFree
    PROVE  WithinSlots'
<1> DEFINE U == UnclosedJobs
<1>1. IsFiniteSet(U) /\ Cardinality(U) \in Nat /\ Cardinality(U) <= MaxConcurrent /\ MaxConcurrent \in Nat
  BY UnclosedIsFinite, JobShape DEF WithinSlots
<1>2. CASE ~Unclosed(job[j])' \/ Unclosed(job[j])
  <2>1. UnclosedJobs' \subseteq U
    BY <1>2 DEF UnclosedJobs
  <2>2. Cardinality(UnclosedJobs') <= Cardinality(U) /\ Cardinality(UnclosedJobs') \in Nat
    BY <1>1, <2>1, FS_Subset, FS_CardinalityType
  <2>3. Cardinality(UnclosedJobs') <= MaxConcurrent
    <3> HIDE DEF U
    <3> QED BY <2>2, <1>1
  <2> QED BY <2>3 DEF WithinSlots
<1>3. CASE Unclosed(job[j])' /\ ~Unclosed(job[j])
  <2>1. UnclosedJobs' = U \cup {j} /\ j \notin U
    BY <1>3 DEF UnclosedJobs
  <2>2. Cardinality(UnclosedJobs') = Cardinality(U) + 1
    BY <1>1, <2>1, FS_AddElement
  <2>3. Cardinality(U) < MaxConcurrent
    BY <1>3 DEF CapacityFree, UnclosedJobs
  <2>4. Cardinality(UnclosedJobs') <= MaxConcurrent
    <3> HIDE DEF U
    <3> QED BY <2>2, <2>3, <1>1
  <2> QED BY <2>4 DEF WithinSlots
<1> QED BY <1>2, <1>3

\* The task t of a job moves on to x and leaves the row of its job at k.
LEMMA TaskMoves ==
    ASSUME JobInv, NEW t \in Tasks, Busy(t), NEW k \in JobRow, NEW x \in TaskRow,
           x.pc \notin {"idle", "retry"},
           job' = [job EXCEPT ![t[1]] = k], task' = [task EXCEPT ![t] = x],
           UNCHANGED <<Sources, Machine>>,
           fact' \in [Producers -> Jobs \cup {"none", "other"}],
           export' \in [phase : {"absent", "prepared", "reviewed", "delivered", "aborted", "redacted"},
                        prepare_job : Jobs \cup {"none"}, publish_job : Jobs \cup {"none"}],
           tree' \in BOOLEAN, published' \subseteq Jobs, ExportShape',
           Unclosed(k) => Unclosed(job[t[1]]) \/ CapacityFree,
           \A i \in Jobs \ {t[1]} : Drift(i),
           RowSound(t[1], k)', TaskSound(t[1], k, x)'
    PROVE  JobInv'
<1>1. PICK j \in Jobs, n \in Slots : t = <<j, n>>
  OBVIOUS
<1>2. TypeOK /\ WithinSlots /\ OneAtWork(j) /\ t[1] = j
  BY <1>1 DEF JobInv
<1>3. TypeOK'
  BY <1>2, <1>1 DEF TypeOK, Sources, Machine
<1>4. job'[j] = k /\ \A i \in Jobs \ {j} : job'[i] = job[i]
  BY <1>2, <1>1 DEF TypeOK
<1>5. task'[t] = x /\ \A u \in Tasks \ {t} : task'[u] = task[u]
  BY <1>2 DEF TypeOK
<1>6. WithinSlots'
  BY <1>2, <1>4, SlotsHold
<1>7. \A m \in Slots : Busy(<<j, m>>)' <=> Busy(<<j, m>>)
  BY <1>1, <1>5 DEF Busy
<1>8. OneAtWork(j)'
  <2>1. active' = active /\ process' = process
    BY DEF Machine
  <2>2. \E m \in Slots : Busy(<<j, m>>)
    BY <1>1
  <2> QED BY <1>2, <1>7, <2>1, <2>2 DEF OneAtWork
<1>9. ASSUME NEW m \in Slots PROVE TaskSound(j, job[j], task[<<j, m>>])'
  <2>1. CASE m = n
    BY <2>1, <1>1, <1>2, <1>4, <1>5
  <2>2. CASE m # n
    <3>1. ~Busy(<<j, m>>)
      BY <2>2, <1>1, <1>2 DEF OneAtWork
    <3>2. task'[<<j, m>>].pc \in {"idle", "retry"}
      BY <3>1, <1>7 DEF Busy
    <3>3. Stored(k)
      BY DEF TaskSound, TaskRow, TaskSteps, Stored, Unclosed, is_terminal
    <3> QED BY <1>4, <3>2, <3>3 DEF TaskSound
  <2> QED BY <2>1, <2>2
<1>10. \A u \in Tasks : u[1] # j => task'[u] = task[u]
  BY <1>2, <1>5
<1>11. process' = process /\ active' = active
  BY DEF Machine
<1>12. RowSound(j, job[j])'
  BY <1>2, <1>4
<1>13. \A i \in Jobs \ {j} : Drift(i) /\ job'[i] = job[i] /\ (i \in active' <=> i \in active)
  BY <1>2, <1>4, <1>11
<1> QED BY <1>3, <1>6, <1>8, <1>9, <1>10, <1>11, <1>12, <1>13, OneJobMoves

\* Nothing but tasks moves.
LEMMA StillDrift ==
    ASSUME UNCHANGED <<operation, Business>>, NEW i PROVE Drift(i)
BY DEF Drift, Business

\* The task t moves to x and writes nothing.
LEMMA TaskAlone ==
    ASSUME JobInv, NEW t \in Tasks, Busy(t), NEW x \in TaskRow, x.pc \notin {"idle", "retry"},
           task' = [task EXCEPT ![t] = x], UNCHANGED <<job, Business, Sources, Machine>>,
           TaskSound(t[1], job[t[1]], x)
    PROVE  JobInv'
<1> DEFINE k == job[t[1]]
<1>1. TypeOK /\ ExportShape /\ RowSound(t[1], k) /\ t[1] \in Jobs
  BY DEF JobInv
<1>2. k \in JobRow /\ job' = [job EXCEPT ![t[1]] = k]
  BY <1>1 DEF TypeOK
<1>3. PICK r \in JobRow : r = k
  BY <1>2
<1>4. operation' = operation /\ fact' = fact /\ export' = export /\ tree' = tree /\ published' = published
  BY DEF Business, Sources
<1>5. \A i \in Jobs : Drift(i)
  BY <1>4, StillDrift DEF Business
<1>6. RowSound(t[1], r)' /\ TaskSound(t[1], r, x)'
  BY <1>1, <1>3, <1>5, RowKept, TaskKept
<1>7. ExportShape'
  BY <1>1, <1>4 DEF ExportShape
<1> HIDE DEF k
<1> QED
  <2>1. fact' \in [Producers -> Jobs \cup {"none", "other"}]
        /\ export' \in [phase : {"absent", "prepared", "reviewed", "delivered", "aborted", "redacted"},
                        prepare_job : Jobs \cup {"none"}, publish_job : Jobs \cup {"none"}]
        /\ tree' \in BOOLEAN /\ published' \subseteq Jobs
    BY <1>1, <1>4 DEF TypeOK
  <2>2. job' = [job EXCEPT ![t[1]] = r] /\ (Unclosed(r) => Unclosed(job[t[1]]))
    BY <1>2, <1>3 DEF k
  <2>3. UNCHANGED <<Sources, Machine>>
    BY DEF Sources, Machine
  <2> QED BY <1>5, <1>6, <1>7, <2>1, <2>2, <2>3, TaskMoves

-----------------------------------------------------------------------------
(* How a task moves.                                                       *)

LEMMA MoveIs ==
    ASSUME TypeOK, NEW t \in Tasks, NEW pc \in TaskSteps, Move(t, pc)
    PROVE  \E x \in TaskRow : /\ task' = [task EXCEPT ![t] = x]
                              /\ x.pc = pc /\ x.seen = task[t].seen /\ x.found = task[t].found
<1> DEFINE x == [task[t] EXCEPT !.pc = pc]
<1>1. task[t] \in TaskRow
  BY DEF TypeOK
<1>2. x \in TaskRow /\ x.pc = pc /\ x.seen = task[t].seen /\ x.found = task[t].found
  BY <1>1 DEF TaskRow
<1>3. task' = [task EXCEPT ![t] = x]
  BY DEF Move
<1> QED BY <1>2, <1>3

LEMMA ExitIs ==
    ASSUME TypeOK, NEW t \in Tasks, NEW report \in Reports, Exit(t, report)
    PROVE  \E x \in TaskRow : task' = [task EXCEPT ![t] = x] /\ x.pc = "observed" /\ x.seen = report
<1> DEFINE x == [task[t] EXCEPT !.pc = "observed", !.seen = report]
<1>1. task[t] \in TaskRow
  BY DEF TypeOK
<1>2. x \in TaskRow /\ x.pc = "observed" /\ x.seen = report
  BY <1>1 DEF TaskRow, TaskSteps
<1>3. task' = [task EXCEPT ![t] = x]
  BY <1>1 DEF Exit, TypeOK
<1> QED BY <1>2, <1>3

LEMMA FoundIs ==
    ASSUME TypeOK, NEW t \in Tasks, NEW progress \in Reports, Found(t, progress)
    PROVE  \E x \in TaskRow : /\ task' = [task EXCEPT ![t] = x] /\ x.pc = "settle"
                              /\ x.seen = task[t].seen /\ x.found = progress
<1> DEFINE x == [task[t] EXCEPT !.pc = "settle", !.found = progress]
<1>1. task[t] \in TaskRow
  BY DEF TypeOK
<1>2. x \in TaskRow /\ x.pc = "settle" /\ x.seen = task[t].seen /\ x.found = progress
  BY <1>1 DEF TaskRow, TaskSteps
<1>3. task' = [task EXCEPT ![t] = x]
  BY <1>1 DEF Found, TypeOK
<1> QED BY <1>2, <1>3

LEMMA ReportTypes ==
    /\ Refused \in Reports /\ Lost \in Reports /\ Unknown \in Reports /\ NotCommitted \in Reports
    /\ Nothing \in Reports
    /\ \A kind \in {"outcome", "committed"}, state \in Terminals, step \in StepNames, result \in Results :
          Report(kind, state, step, result) \in Reports
BY DEF Refused, Lost, Unknown, NotCommitted, Nothing, Report, Reports, StepNames, Results

\* What the invariant says of a task and its job.
LEMMA Rely ==
    ASSUME JobInv, NEW t \in Tasks
    PROVE  /\ t[1] \in Jobs /\ job[t[1]] \in JobRow /\ task[t] \in TaskRow /\ operation[t[1]] \in Ops
           /\ t[1] # "none" /\ t[1] # "other"
           /\ RowSound(t[1], job[t[1]]) /\ TaskSound(t[1], job[t[1]], task[t]) /\ TypeOK /\ ExportShape
BY JobShape DEF JobInv, TypeOK

LEMMA UntouchedIsClean == ASSUME NEW j, Untouched(j) PROVE ~OwnEffect(j)
BY DEF Untouched, OwnEffect

\* A task at "observed" relies on what was reported to it only.
LEMMA Observes ==
    ASSUME NEW j, NEW k, NEW x, x.pc = "observed", Unclosed(k) \/ is_terminal(k),
           Unclosed(k) => SeenSound(j, k, x.seen)
    PROVE  TaskSound(j, k, x)
BY DEF TaskSound

LEMMA LostIsSound == ASSUME NEW j, NEW k PROVE SeenSound(j, k, Lost)
BY DEF SeenSound, Lost, Report

LEMMA RefusedIsSound == ASSUME NEW j, NEW k, ~OwnEffect(j) PROVE SeenSound(j, k, Refused)
BY DEF SeenSound, Refused, Report

\* A worker exits and has written nothing.
LEMMA ExitsAlone ==
    ASSUME JobInv, NEW t \in Tasks, task[t].pc \in ConsumerSteps, NEW report \in Reports, Exit(t, report),
           UNCHANGED <<job, Business, Sources, Machine>>, SeenSound(t[1], job[t[1]], report)
    PROVE  JobInv'
<1>1. PICK x \in TaskRow : task' = [task EXCEPT ![t] = x] /\ x.pc = "observed" /\ x.seen = report
  BY ExitIs, Rely
<1>2. Unclosed(job[t[1]])
  BY Rely DEF TaskSound
<1>3. TaskSound(t[1], job[t[1]], x)
  BY <1>1, <1>2, Observes
<1>4. Busy(t)
  BY DEF Busy
<1> QED BY <1>1, <1>3, <1>4, TaskAlone

-----------------------------------------------------------------------------
(* Steps that write nothing but their task.                                *)

LEMMA LoadKeeps == ASSUME JobInv, NEW t \in Tasks, load_private_request(t) PROVE JobInv'
<1>1. task[t].pc = "load" /\ UNCHANGED <<job, Business, Sources, Machine>>
  BY DEF load_private_request, Working
<1>2. Unclosed(job[t[1]]) /\ Untouched(t[1]) /\ operation[t[1]] \in Ops
  BY <1>1, Rely DEF TaskSound
<1>3. CASE Exit(t, Refused)
  BY <1>1, <1>2, <1>3, ReportTypes, UntouchedIsClean, RefusedIsSound, ExitsAlone
<1>4. CASE Move(t, FirstStep(t[1]))
  <2>1. FirstStep(t[1]) \in {"bind", "prepare", "review", "checkpoint"} /\ operation[t[1]] \in StepsOf(FirstStep(t[1]))
    BY <1>2 DEF FirstStep, StepsOf
  <2>2. PICK x \in TaskRow : task' = [task EXCEPT ![t] = x] /\ x.pc = FirstStep(t[1])
    BY <1>4, <2>1, MoveIs, Rely DEF TaskSteps
  <2>3. TaskSound(t[1], job[t[1]], x)
    BY <1>2, <2>1, <2>2 DEF TaskSound
  <2>4. Busy(t) /\ x.pc \notin {"idle", "retry"}
    BY <1>1, <2>1, <2>2 DEF Busy
  <2> QED BY <1>1, <2>2, <2>3, <2>4, TaskAlone
<1> QED BY <1>3, <1>4 DEF load_private_request

LEMMA StatusKeeps == ASSUME JobInv, NEW t \in Tasks, status_read(t) PROVE JobInv'
<1> DEFINE o == Report("outcome", "succeeded", "ended", "status")
<1>1. task[t].pc = "effect" /\ UNCHANGED <<job, Business, Sources, Machine>> /\ Exit(t, o)
      /\ operation[t[1]] = "status"
  BY DEF status_read, Working
<1>2. Untouched(t[1])
  BY <1>1, Rely DEF TaskSound
<1>3. SeenSound(t[1], job[t[1]], o)
  BY <1>1, <1>2, UntouchedIsClean DEF SeenSound, ToldSound, Report
<1>4. o \in Reports
  BY ReportTypes DEF StepNames, Results
<1> HIDE DEF o
<1> QED BY <1>1, <1>3, <1>4, ExitsAlone

LEMMA FailKeeps == ASSUME JobInv, NEW t \in Tasks, worker_fails(t) PROVE JobInv'
<1>1. task[t].pc \in ConsumerSteps /\ UNCHANGED <<job, Business, Sources, Machine>>
  BY DEF worker_fails, Working
<1>2. CASE Exit(t, Lost)
  BY <1>1, <1>2, ReportTypes, LostIsSound, ExitsAlone
<1>3. CASE Exit(t, Refused) /\ Refuses(t[1], task[t].pc)
  <2>1. Untouched(t[1])
    BY <1>1, <1>3, Rely DEF TaskSound, Refuses
  <2> QED BY <1>1, <1>3, <2>1, ReportTypes, UntouchedIsClean, RefusedIsSound, ExitsAlone
<1> QED BY <1>2, <1>3 DEF worker_fails, Working

LEMMA ClaimNoneKeeps == ASSUME JobInv, NEW t \in Tasks, claim_none(t) PROVE JobInv'
<1>1. task[t].pc = "claim" /\ UNCHANGED <<job, Business, Sources, Machine>> /\ Move(t, "end")
      /\ job[t[1]].state # "queued"
  BY DEF claim_none, ClaimStep
<1>2. is_terminal(job[t[1]])
  BY <1>1, Rely DEF TaskSound, JobRow, States, Stored, Unclosed, is_terminal
<1>3. PICK x \in TaskRow : task' = [task EXCEPT ![t] = x] /\ x.pc = "end"
  BY <1>1, MoveIs, Rely DEF TaskSteps
<1>4. TaskSound(t[1], job[t[1]], x)
  BY <1>2, <1>3 DEF TaskSound
<1>5. Busy(t)
  BY <1>1 DEF Busy
<1> QED BY <1>1, <1>3, <1>4, <1>5, TaskAlone

LEMMA VerifyKeeps == ASSUME JobInv, NEW t \in Tasks, verify_trace_export_tree(t) PROVE JobInv'
<1>1. task[t].pc = "verify" /\ UNCHANGED <<job, Business, Sources, Machine>> /\ Busy(t)
  BY DEF verify_trace_export_tree, Supervising, Busy
<1>2. Unclosed(job[t[1]]) /\ OwnExport(t[1]) /\ SeenSound(t[1], job[t[1]], task[t].seen)
      /\ task[t].seen.kind = "lost"
  BY <1>1, Rely DEF TaskSound
<1>3. CASE tree /\ Move(t, "confirm")
  <2>1. PICK x \in TaskRow : task' = [task EXCEPT ![t] = x] /\ x.pc = "confirm" /\ x.seen = task[t].seen
    BY <1>3, MoveIs, Rely DEF TaskSteps
  <2>2. TaskSound(t[1], job[t[1]], x)
    BY <1>2, <2>1 DEF TaskSound
  <2> QED BY <1>1, <2>1, <2>2, TaskAlone
<1>4. CASE ~tree /\ Found(t, NotCommitted)
  <2>1. PICK x \in TaskRow : task' = [task EXCEPT ![t] = x] /\ x.pc = "settle" /\ x.seen = task[t].seen
                             /\ x.found = NotCommitted
    BY <1>4, FoundIs, ReportTypes, Rely
  <2>2. FoundSound(t[1], job[t[1]], NotCommitted)
    BY <1>2, <1>4 DEF FoundSound, NotCommitted, Report, OwnExport, OwnEffect
  <2>3. TaskSound(t[1], job[t[1]], x)
    BY <1>2, <2>1, <2>2 DEF TaskSound
  <2> QED BY <1>1, <2>1, <2>3, TaskAlone
<1> QED BY <1>3, <1>4 DEF verify_trace_export_tree

\* What the lookup of a dead worker's progress finds is so.
LEMMA ProgressIsSound ==
    ASSUME JobInv, NEW j \in Jobs, Unclosed(job[j])
    PROVE  /\ OrUnknown(job[j], consumer_progress(j)) \in Reports
           /\ FoundSound(j, job[j], OrUnknown(job[j], consumer_progress(j)))
<1> DEFINE k == job[j]
           p == consumer_progress(j)
<1>1. k \in JobRow /\ RowSound(j, k) /\ operation[j] \in Ops /\ j # "none" /\ ExportShape /\ Unclosed(k)
  BY JobShape DEF JobInv, TypeOK
<1>2. k.step \in StepNames /\ (k.result = "effect" => k.step \in {"recorded", "already"})
      /\ (k.step \in {"recorded", "already"} => HoldoutIs(j, k.step) /\ k.result = "effect")
  BY <1>1 DEF RowSound, JobRow
<1>3. Unknown \in Reports /\ FoundSound(j, k, Unknown)
  BY ReportTypes DEF FoundSound, Unknown, Report
<1>4. NotCommitted \in Reports /\ (~OwnEffect(j) => FoundSound(j, k, NotCommitted))
  BY ReportTypes DEF FoundSound, NotCommitted, Report
<1>5. Committed(j) \in Reports
      /\ (EffectExists(j) /\ operation[j] # "current" => FoundSound(j, k, Committed(j)))
  BY ReportTypes DEF Committed, FoundSound, ToldSound, EffectState, Report, StepNames, Results
<1>6. ASSUME NEW s \in {"recorded", "already"}, s = k.step
      PROVE  LET c == [Committed(j) EXCEPT !.step = s] IN c \in Reports /\ FoundSound(j, k, c)
  <2>1. operation[j] = "current" /\ fact["current"] # "none"
    BY <1>1, <1>2, <1>6 DEF HoldoutIs
  <2>2. EffectExists(j)
    BY <2>1 DEF EffectExists
  <2> QED BY <1>6, <2>1, <2>2 DEF Committed, FoundSound, ToldSound, EffectState, Report, Reports, StepNames, Results
<1>7. p \in Reports /\ FoundSound(j, k, p)
  <2>1. CASE operation[j] = "current" /\ k.step = "recorded"
    BY <2>1, <1>6 DEF consumer_progress
  <2>2. CASE ~(operation[j] = "current" /\ k.step = "recorded") /\ ~ProgressInput(j)
    BY <2>2, <1>3 DEF consumer_progress
  <2> DEFINE Looked == ~(operation[j] = "current" /\ k.step = "recorded") /\ ProgressInput(j)
  <2>3. CASE Looked /\ operation[j] = "current"
    <3>1. p = CurrentProgress(j)
      BY <2>3 DEF consumer_progress
    <3>2. fact["current"] = "none" => ~OwnEffect(j)
      BY <2>3, <1>1 DEF OwnEffect
    <3>3. CASE fact["current"] = "none"
      BY <2>3, <3>1, <3>2, <3>3, <1>3, <1>4 DEF CurrentProgress
    <3>4. CASE fact["current"] # "none" /\ k.result = "effect"
      BY <2>3, <3>1, <3>4, <1>2, <1>6 DEF CurrentProgress
    <3>5. CASE fact["current"] # "none" /\ k.result # "effect"
      BY <2>3, <3>1, <3>5, <1>3 DEF CurrentProgress
    <3> QED BY <3>3, <3>4, <3>5
  <2>4. CASE Looked /\ operation[j] = "prepare"
    <3>1. p = PrepareProgress(j)
      BY <2>4 DEF consumer_progress
    <3>2. export.prepare_job = j => EffectExists(j)
      BY <2>4 DEF EffectExists
    <3>3. export.prepare_job # j \/ export.phase = "absent" => ~OwnEffect(j)
      BY <2>4, <1>1 DEF OwnEffect, ExportShape
    <3> QED BY <2>4, <3>1, <3>2, <3>3, <1>3, <1>4, <1>5 DEF PrepareProgress
  <2>5. CASE Looked /\ operation[j] = "publish"
    <3>1. p = PublishProgress(j)
      BY <2>5 DEF consumer_progress
    <3>2. CASE export.phase = "prepared"
      <4>1. ~OwnEffect(j)
        BY <2>5, <3>2, <1>1 DEF OwnEffect, ExportShape
      <4> QED BY <3>1, <3>2, <4>1, <1>4 DEF PublishProgress
    <3>3. CASE export.phase = "delivered" /\ export.publish_job = j
      <4>1. EffectExists(j)
        BY <2>5, <3>3 DEF EffectExists
      <4> QED BY <2>5, <3>1, <3>3, <4>1, <1>5 DEF PublishProgress
    <3>4. CASE export.phase # "prepared" /\ ~(export.phase = "delivered" /\ export.publish_job = j)
      BY <3>1, <3>4, <1>3 DEF PublishProgress
    <3> QED BY <3>2, <3>3, <3>4
  <2>6. CASE Looked /\ operation[j] = "status"
    <3>1. p = NotCommitted /\ ~OwnEffect(j)
      BY <2>6 DEF consumer_progress, OwnEffect
    <3> QED BY <3>1, <1>4
  <2>7. CASE Looked /\ operation[j] = "meta"
    <3>1. p = Report("committed", "blocked", "ended", "none") /\ ~OwnEffect(j)
      BY <2>7 DEF consumer_progress, OwnEffect
    <3>2. p \in Reports
      BY <3>1, ReportTypes DEF StepNames, Results
    <3> QED BY <2>7, <3>1, <3>2 DEF FoundSound, ToldSound, Report
  <2>8. CASE Looked /\ operation[j] \in {"ticket", "replay", "world", "probe"}
    <3>1. p = ProducerProgress(j)
      BY <2>8 DEF consumer_progress
    <3>2. fact[operation[j]] = "none" => ~OwnEffect(j)
      BY <2>8, <1>1 DEF OwnEffect
    <3>3. fact[operation[j]] # "none" => EffectExists(j)
      BY <2>8 DEF EffectExists
    <3> QED BY <2>8, <3>1, <3>2, <3>3, <1>4, <1>5 DEF ProducerProgress
  <2> QED BY <1>1, <2>1, <2>2, <2>3, <2>4, <2>5, <2>6, <2>7, <2>8
<1>8. OrUnknown(k, p) \in {p, Unknown}
  BY DEF OrUnknown
<1> QED BY <1>3, <1>7, <1>8

LEMMA ObserveKeeps == ASSUME JobInv, NEW t \in Tasks, observe_progress(t) PROVE JobInv'
<1>1. task[t].pc = "progress" /\ UNCHANGED <<job, Business, Sources, Machine>> /\ Busy(t)
  BY DEF observe_progress, Supervising, Busy
<1>2. Unclosed(job[t[1]]) /\ SeenSound(t[1], job[t[1]], task[t].seen)
  BY <1>1, Rely DEF TaskSound
<1>3. CASE task[t].seen.kind = "lost" /\ operation[t[1]] = "publish" /\ OwnReview(t[1]) /\ Move(t, "verify")
  <2>1. PICK x \in TaskRow : task' = [task EXCEPT ![t] = x] /\ x.pc = "verify" /\ x.seen = task[t].seen
    BY <1>3, MoveIs, Rely DEF TaskSteps
  <2>2. OwnExport(t[1])
    BY <1>3 DEF OwnExport, OwnReview
  <2>3. TaskSound(t[1], job[t[1]], x)
    BY <1>2, <1>3, <2>1, <2>2 DEF TaskSound
  <2> QED BY <1>1, <2>1, <2>3, TaskAlone
<1>4. ASSUME NEW p \in Reports, Found(t, p), task[t].seen.kind = "lost" => FoundSound(t[1], job[t[1]], p)
      PROVE  JobInv'
  <2>1. PICK x \in TaskRow : task' = [task EXCEPT ![t] = x] /\ x.pc = "settle" /\ x.seen = task[t].seen
                             /\ x.found = p
    BY <1>4, FoundIs, Rely
  <2>2. TaskSound(t[1], job[t[1]], x)
    BY <1>2, <1>4, <2>1 DEF TaskSound
  <2> QED BY <1>1, <2>1, <2>2, TaskAlone
<1>5. CASE task[t].seen.kind = "lost" /\ Found(t, OrUnknown(job[t[1]], consumer_progress(t[1])))
  BY <1>2, <1>4, <1>5, ProgressIsSound, Rely
<1>6. CASE task[t].seen.kind # "lost" /\ Found(t, NotCommitted)
  BY <1>4, <1>6, ReportTypes
<1> QED BY <1>3, <1>5, <1>6 DEF observe_progress

-----------------------------------------------------------------------------
(* Steps that write the row of their job as well.                          *)

LEMMA RowMoves ==
    ASSUME JobInv, NEW t \in Tasks, Busy(t), NEW k \in JobRow, NEW x \in TaskRow,
           x.pc \notin {"idle", "retry"},
           job' = [job EXCEPT ![t[1]] = k], task' = [task EXCEPT ![t] = x],
           UNCHANGED <<Business, Sources, Machine>>,
           Unclosed(k) => Unclosed(job[t[1]]) \/ CapacityFree,
           RowSound(t[1], k), TaskSound(t[1], k, x)
    PROVE  JobInv'
<1>1. TypeOK /\ ExportShape /\ t[1] \in Jobs
  BY DEF JobInv
<1>2. operation' = operation /\ fact' = fact /\ export' = export /\ tree' = tree /\ published' = published
  BY DEF Business, Sources
<1>3. \A i \in Jobs : Drift(i)
  BY <1>2, StillDrift DEF Business
<1>4. RowSound(t[1], k)' /\ TaskSound(t[1], k, x)'
  BY <1>1, <1>3, RowKept, TaskKept
<1>5. ExportShape'
  BY <1>1, <1>2 DEF ExportShape
<1>6. fact' \in [Producers -> Jobs \cup {"none", "other"}]
      /\ export' \in [phase : {"absent", "prepared", "reviewed", "delivered", "aborted", "redacted"},
                      prepare_job : Jobs \cup {"none"}, publish_job : Jobs \cup {"none"}]
      /\ tree' \in BOOLEAN /\ published' \subseteq Jobs
  BY <1>1, <1>2 DEF TypeOK
<1>7. UNCHANGED <<Sources, Machine>>
  BY DEF Sources, Machine
<1> QED BY <1>3, <1>4, <1>5, <1>6, <1>7, TaskMoves

\* A queued job ends without having been claimed.
LEMMA EndsUnclaimed ==
    ASSUME JobInv, NEW t \in Tasks, task[t].pc = "claim", job[t[1]].state = "queued",
           SetJob(t[1], [job[t[1]] EXCEPT !.state = "failed", !.step = "ended"]), Move(t, "end"),
           UNCHANGED <<Business, Sources, Machine>>
    PROVE  JobInv'
<1> DEFINE k == job[t[1]]
<1>1. k \in JobRow /\ RowSound(t[1], k) /\ k.state = "queued"
  BY Rely
<1>2. PICK l \in JobRow : /\ job' = [job EXCEPT ![t[1]] = l] /\ l.state = "failed" /\ l.result = k.result
                          /\ l.cancel = k.cancel /\ l.arrival = k.arrival /\ l.generation = k.generation
                          /\ l.lease = k.lease
  <2> DEFINE r == [k EXCEPT !.state = "failed", !.step = "ended"]
  <2>1. r \in JobRow /\ r.state = "failed" /\ r.result = k.result /\ r.cancel = k.cancel /\ r.arrival = k.arrival
        /\ r.generation = k.generation /\ r.lease = k.lease
    BY <1>1 DEF JobRow, States, StepNames
  <2>2. job' = [job EXCEPT ![t[1]] = r]
    BY DEF SetJob
  <2> QED BY <2>1, <2>2
<1>3. Untouched(t[1]) /\ RowSound(t[1], l) /\ is_terminal(l) /\ ~Unclosed(l)
  BY <1>1, <1>2, UntouchedIsClean DEF RowSound, is_terminal, Unclosed, Stored
<1>4. PICK x \in TaskRow : task' = [task EXCEPT ![t] = x] /\ x.pc = "end"
  BY MoveIs, Rely DEF TaskSteps
<1>5. TaskSound(t[1], l, x)
  BY <1>3, <1>4 DEF TaskSound
<1>6. Busy(t)
  BY DEF Busy
<1> QED BY <1>2, <1>3, <1>4, <1>5, <1>6, RowMoves

LEMMA RefusalKeeps ==
    ASSUME JobInv, NEW t \in Tasks, claim_refused(t) \/ record_background_error(t) PROVE JobInv'
BY EndsUnclaimed DEF claim_refused, record_background_error, ClaimStep, Business, Sources, Machine

LEMMA ClaimKeeps == ASSUME JobInv, NEW t \in Tasks, claim(t) PROVE JobInv'
<1> DEFINE k == job[t[1]]
           r == [k EXCEPT !.state = "running", !.step = "claimed", !.lease = "live", !.generation = @ + 1]
<1>1. k \in JobRow /\ RowSound(t[1], k) /\ k.state = "queued" /\ CapacityFree /\ task[t].pc = "claim"
      /\ job' = [job EXCEPT ![t[1]] = r] /\ Move(t, "load")
  BY Rely DEF claim, ClaimStep, SetJob
<1>2. UNCHANGED <<Business, Sources, Machine>>
  BY DEF claim, ClaimStep, Business, Sources, Machine
<1>3. k.generation = 0 /\ k.result = "none" /\ k.arrival = "none" /\ Untouched(t[1])
  BY <1>1 DEF RowSound
<1>4. r \in JobRow /\ r.state = "running" /\ r.step = "claimed" /\ r.result = "none" /\ r.arrival = "none"
      /\ r.generation = 1
  <2>1. k.generation + 1 = 1
    BY <1>3
  <2>2. r = [k EXCEPT !.state = "running", !.step = "claimed", !.lease = "live", !.generation = 1]
    BY <2>1
  <2> HIDE DEF k, r
  <2> QED BY <1>1, <1>3, <2>2 DEF JobRow, States, StepNames
<1>5. PICK l \in JobRow : l = r
  BY <1>4
<1> HIDE DEF r, k
<1>6. RowSound(t[1], l) /\ Unclosed(l)
  BY <1>4, <1>5 DEF RowSound, Unclosed, is_terminal, Stored
<1>7. PICK x \in TaskRow : task' = [task EXCEPT ![t] = x] /\ x.pc = "load"
  BY <1>1, MoveIs, Rely DEF TaskSteps
<1>8. TaskSound(t[1], l, x)
  BY <1>3, <1>6, <1>7, Rely DEF TaskSound, StepsOf
<1>9. Busy(t)
  BY <1>1 DEF Busy
<1> QED BY <1>1, <1>2, <1>5, <1>6, <1>7, <1>8, <1>9, RowMoves

LEMMA CheckpointKeeps == ASSUME JobInv, NEW t \in Tasks, checkpoint_claim(t) PROVE JobInv'
<1> DEFINE k == job[t[1]]
           r == [k EXCEPT !.step = "checkpointed"]
           o == Report("outcome", "blocked", "ended", "none")
<1>1. task[t].pc = "checkpoint" /\ UNCHANGED <<Business, Sources, Machine>>
  BY DEF checkpoint_claim, Working, Business, Sources, Machine
<1>2. Untouched(t[1]) /\ Unclosed(k) /\ operation[t[1]] \in Ops \ {"current", "prepare", "publish"}
      /\ k \in JobRow /\ RowSound(t[1], k)
  BY <1>1, Rely DEF TaskSound, StepsOf
<1>3. CASE operation[t[1]] = "meta"
  <2>1. UNCHANGED job /\ Exit(t, o)
    BY <1>3 DEF checkpoint_claim
  <2>2. SeenSound(t[1], job[t[1]], o)
    BY <1>2, <1>3, UntouchedIsClean DEF SeenSound, ToldSound, Report
  <2>3. o \in Reports
    BY ReportTypes DEF StepNames, Results
  <2> HIDE DEF o
  <2> QED BY <1>1, <2>1, <2>2, <2>3, ExitsAlone
<1>4. CASE operation[t[1]] # "meta"
  <2>1. job' = [job EXCEPT ![t[1]] = r] /\ Move(t, "effect")
    BY <1>4 DEF checkpoint_claim, SetJob
  <2>2. r \in JobRow /\ r.step = "checkpointed" /\ r.state = k.state /\ r.result = k.result /\ r.arrival = k.arrival
        /\ r.cancel = k.cancel /\ r.generation = k.generation
    BY <1>2 DEF JobRow, StepNames
  <2>3. k.step \notin {"recorded", "already"}
    BY <1>2 DEF RowSound, HoldoutIs
  <2>4. PICK l \in JobRow : l = r
    BY <2>2
  <2> HIDE DEF r
  <2>5. RowSound(t[1], l) /\ Unclosed(l)
    <3>1. k.result # "effect" /\ k.arrival = "none" /\ k.generation <= 1
      BY <1>2, <2>3 DEF RowSound, JobRow
    <3> HIDE DEF k
    <3> QED BY <1>2, <2>2, <2>4, <3>1 DEF RowSound, Unclosed, is_terminal, Stored
  <2>6. PICK x \in TaskRow : task' = [task EXCEPT ![t] = x] /\ x.pc = "effect"
    BY <2>1, MoveIs, Rely DEF TaskSteps
  <2>7. TaskSound(t[1], l, x)
    BY <1>2, <2>5, <2>6 DEF TaskSound, StepsOf
  <2>8. Busy(t)
    BY <1>1 DEF Busy
  <2> QED BY <1>1, <1>2, <2>1, <2>4, <2>5, <2>6, <2>7, <2>8, RowMoves
<1> QED BY <1>3, <1>4

\* Closing a job from an outcome keeps its row honest.
Deniable(o) == o.state = "failed" /\ o.step = "ended" /\ o.result = "none"

LEMMA OutcomeIsSound ==
    ASSUME NEW j \in Jobs, NEW k \in JobRow, RowSound(j, k), Unclosed(k), NEW o \in Reports,
           ToldSound(j, k, o) \/ (Deniable(o) /\ ~OwnEffect(j))
    PROVE  LET l == apply_completed_outcome(k, o) IN
             /\ l \in JobRow /\ RowSound(j, l)
             /\ is_terminal(l) \/ (Unclosed(l) /\ l.step = k.step)
<1> DEFINE l == apply_completed_outcome(k, o)
<1>0. k.arrival \in {"none", "before", "after"} /\ k.cancel \in BOOLEAN /\ k.generation <= 1
      /\ (k.arrival # "none" => k.cancel)
      /\ (k.result = "effect" => k.step \in {"recorded", "already"})
      /\ (k.step \in {"recorded", "already"} => HoldoutIs(j, k.step) /\ k.result = "effect")
      /\ (k.arrival = "before" => k.step = "already") /\ (k.arrival = "after" => k.step = "recorded")
  BY DEF RowSound, JobRow
<1>1. CASE ~committed_result_is_preserved(k.result, o.result)
  <2>1. l = [k EXCEPT !.state = "draining"]
    BY <1>1 DEF apply_completed_outcome
  <2>2. l \in JobRow /\ l.state = "draining" /\ l.step = k.step /\ l.result = k.result /\ l.arrival = k.arrival
        /\ l.cancel = k.cancel /\ l.generation = k.generation
    BY <2>1 DEF JobRow, States
  <2> HIDE DEF l
  <2>3. RowSound(j, l) /\ Unclosed(l)
    BY <1>0, <2>2 DEF RowSound, Unclosed, is_terminal, Stored
  <2> QED BY <2>2, <2>3 DEF l
<1>2. CASE committed_result_is_preserved(k.result, o.result)
  <2> DEFINE committed == has_committed_side_effect(o)
             cancelled == k.cancel /\ ~committed
  <2>1. l = [k EXCEPT !.state = IF cancelled THEN "cancelled" ELSE o.state,
                      !.step = IF cancelled THEN "ended" ELSE o.step,
                      !.result = IF cancelled THEN "none" ELSE o.result,
                      !.arrival = Arrival(k, committed),
                      !.lease = "none"]
    BY <1>2 DEF apply_completed_outcome
  <2>2. o.state \in Terminals /\ o.step \in StepNames /\ o.result \in Results
    BY DEF Reports
  <2>3. Arrival(k, committed) \in {"none", "before", "after"}
    BY <1>0 DEF Arrival
  <2>4. l \in JobRow /\ l.lease = "none" /\ l.cancel = k.cancel /\ l.generation = k.generation
        /\ l.arrival = Arrival(k, committed)
        /\ l.state = (IF cancelled THEN "cancelled" ELSE o.state)
        /\ l.result = (IF cancelled THEN "none" ELSE o.result)
    <3> HIDE DEF committed, cancelled
    <3> QED BY <2>1, <2>2, <2>3 DEF JobRow, States, StepNames, Results
  <2> HIDE DEF l
  <2>5. is_terminal(l) /\ ~Unclosed(l) /\ Stored(l) /\ l.state # "queued"
    BY <2>2, <2>4 DEF is_terminal, Unclosed, Stored
  <2>6. ~committed => ~OwnEffect(j)
    <3>1. CASE Deniable(o) /\ ~OwnEffect(j)
      BY <3>1
    <3>2. CASE ToldSound(j, k, o) /\ o.result # "effect"
      BY <3>2 DEF ToldSound
    <3>3. CASE ToldSound(j, k, o) /\ o.step = "already"
      BY <3>3, <1>0 DEF ToldSound, HoldoutIs, OwnEffect
    <3> QED BY <3>1, <3>2, <3>3 DEF has_committed_side_effect
  <2>7. committed => EffectExists(j) /\ (operation[j] = "current" => OwnEffect(j))
    <3>1. SUFFICES ASSUME o.result = "effect", o.step # "already"
                   PROVE  EffectExists(j) /\ (operation[j] = "current" => OwnEffect(j))
      BY DEF has_committed_side_effect
    <3>2. ToldSound(j, k, o)
      BY <3>1 DEF Deniable
    <3>3. EffectExists(j)
      BY <3>1, <3>2 DEF ToldSound
    <3>4. operation[j] = "current" => k.step = "recorded" /\ HoldoutIs(j, "recorded")
      BY <3>1, <3>2, <1>0 DEF ToldSound
    <3> QED BY <3>3, <3>4 DEF HoldoutIs, OwnEffect
  <2>8. k.arrival = "after" => committed
    <3>1. SUFFICES ASSUME k.arrival = "after" PROVE committed
      OBVIOUS
    <3>2. k.step = "recorded" /\ k.result = "effect" /\ operation[j] = "current"
      BY <3>1, <1>0 DEF HoldoutIs
    <3>3. o.result = "effect"
      BY <3>2, <1>2 DEF committed_result_is_preserved, stored_result_has_side_effect
    <3>4. o.step = k.step
      BY <3>2, <3>3 DEF ToldSound, Deniable
    <3> QED BY <3>2, <3>3, <3>4 DEF has_committed_side_effect
  <2>9. l.arrival = "before" => ~committed
    BY <1>0, <2>4 DEF Arrival
  <2>10. l.arrival = "after" => committed
    BY <1>0, <2>4, <2>8 DEF Arrival
  <2>11. l.arrival # "none" => l.cancel
    BY <1>0, <2>4 DEF Arrival
  <2>12. l.state \in {"failed", "cancelled"} => ~OwnEffect(j)
    <3>1. CASE cancelled
      BY <3>1, <2>6
    <3>2. CASE ~cancelled
      BY <3>2, <2>4 DEF ToldSound, Deniable
    <3> QED BY <3>1, <3>2
  <2>13. l.result = "effect" => EffectExists(j)
    BY <2>4 DEF ToldSound, Deniable
  <2> HIDE DEF committed, cancelled
  <2>14. RowSound(j, l)
    BY <1>0, <2>4, <2>5, <2>6, <2>7, <2>9, <2>10, <2>11, <2>12, <2>13 DEF RowSound
  <2> QED BY <2>4, <2>5, <2>14 DEF l
<1> QED BY <1>1, <1>2

\* The supervisor that has closed a job ends; one that could not goes on as before.
LEMMA ClosesOrGoesOn ==
    ASSUME NEW j, NEW k, NEW l, NEW x, is_terminal(l) \/ (Unclosed(l) /\ l.step = k.step),
           x.pc = (IF is_terminal(l) THEN "end" ELSE "observed"), SeenSound(j, k, x.seen)
    PROVE  TaskSound(j, l, x)
<1>1. CASE is_terminal(l)
  BY <1>1 DEF TaskSound
<1>2. CASE ~is_terminal(l)
  <2>1. SeenSound(j, l, x.seen)
    BY <1>2 DEF SeenSound, ToldSound
  <2> QED BY <1>2, <2>1, Observes
<1> QED BY <1>1, <1>2

LEMMA FinishKeeps == ASSUME JobInv, NEW t \in Tasks, finish_claim(t) PROVE JobInv'
<1> DEFINE k == job[t[1]]
           seen == task[t].seen
<1>1. task[t].pc = "observed" /\ UNCHANGED <<Business, Sources, Machine>> /\ Busy(t) /\ k \in JobRow
      /\ RowSound(t[1], k) /\ TaskSound(t[1], k, task[t]) /\ t[1] \in Jobs /\ seen \in Reports
  BY Rely DEF finish_claim, Supervising, Business, Sources, Machine, Busy, TaskRow
<1>2. CASE is_terminal(k) /\ UNCHANGED job /\ Move(t, "end")
  <2>1. PICK x \in TaskRow : task' = [task EXCEPT ![t] = x] /\ x.pc = "end"
    BY <1>2, MoveIs, Rely DEF TaskSteps
  <2>2. TaskSound(t[1], k, x)
    BY <1>2, <2>1 DEF TaskSound
  <2> QED BY <1>1, <1>2, <2>1, <2>2, TaskAlone
<1>3. CASE /\ ~is_terminal(k) /\ seen.kind = "outcome" /\ SetJob(t[1], apply_completed_outcome(k, seen))
           /\ Move(t, IF is_terminal(job'[t[1]]) THEN "end" ELSE "observed")
  <2>1. Unclosed(k) /\ SeenSound(t[1], k, seen) /\ ToldSound(t[1], k, seen)
    BY <1>1, <1>3 DEF TaskSound, SeenSound
  <2>2. PICK l \in JobRow : /\ l = apply_completed_outcome(k, seen) /\ RowSound(t[1], l)
                            /\ is_terminal(l) \/ (Unclosed(l) /\ l.step = k.step)
    BY <1>1, <2>1, OutcomeIsSound
  <2>3. job' = [job EXCEPT ![t[1]] = l] /\ job'[t[1]] = l
    BY <1>1, <1>3, <2>2, Rely DEF SetJob, TypeOK
  <2>4. PICK x \in TaskRow : /\ task' = [task EXCEPT ![t] = x] /\ x.seen = seen
                             /\ x.pc = IF is_terminal(l) THEN "end" ELSE "observed"
    BY <1>3, <2>3, MoveIs, Rely DEF TaskSteps
  <2>5. TaskSound(t[1], l, x)
    BY <2>1, <2>2, <2>4, ClosesOrGoesOn
  <2> QED BY <1>1, <2>1, <2>2, <2>3, <2>4, <2>5, RowMoves
<1>4. CASE ~is_terminal(k) /\ UNCHANGED job /\ Move(t, "progress")
  <2>1. PICK x \in TaskRow : task' = [task EXCEPT ![t] = x] /\ x.pc = "progress" /\ x.seen = seen
    BY <1>4, MoveIs, Rely DEF TaskSteps
  <2>2. TaskSound(t[1], k, x)
    BY <1>1, <1>4, <2>1 DEF TaskSound
  <2> QED BY <1>1, <1>4, <2>1, <2>2, TaskAlone
<1> QED BY <1>2, <1>3, <1>4 DEF finish_claim

LEMMA SettledIsSound ==
    ASSUME NEW j \in Jobs, NEW k \in JobRow, RowSound(j, k), Unclosed(k), NEW seen \in Reports, NEW found \in Reports,
           SeenSound(j, k, seen), seen.kind = "lost" => FoundSound(j, k, found)
    PROVE  LET l == Settled(k, seen, found) IN
             /\ l \in JobRow /\ RowSound(j, l)
             /\ is_terminal(l) \/ (Unclosed(l) /\ l.step = k.step)
<1> DEFINE p == OrUnknown(k, found)
<1>1. CASE seen.kind = "outcome"
  BY <1>1, OutcomeIsSound DEF Settled, SeenSound
<1>2. CASE seen.kind = "refused"
  <2>1. Deniable(seen) /\ ~OwnEffect(j)
    BY <1>2 DEF SeenSound, Deniable, Refused, Report
  <2> QED BY <1>2, <2>1, OutcomeIsSound DEF Settled
<1>3. CASE seen.kind = "lost"
  <2>1. p = found \/ p = Unknown
    BY DEF OrUnknown
  <2>2. p \in Reports /\ FoundSound(j, k, p)
    BY <1>3, <2>1, ReportTypes DEF FoundSound, Unknown, Report
  <2>3. Deniable(seen)
    BY <1>3 DEF SeenSound, Deniable, Lost, Report
  <2>4. CASE p.kind = "unknown"
    <3> DEFINE l == [k EXCEPT !.state = "draining"]
    <3>1. Settled(k, seen, found) = l
      BY <1>3, <2>4 DEF Settled
    <3>2. l \in JobRow /\ l.state = "draining" /\ l.step = k.step /\ l.result = k.result /\ l.arrival = k.arrival
          /\ l.cancel = k.cancel /\ l.generation = k.generation
      BY DEF JobRow, States
    <3> HIDE DEF l
    <3>3. RowSound(j, l) /\ Unclosed(l)
      BY <3>2 DEF RowSound, Unclosed, is_terminal, Stored
    <3> QED BY <3>1, <3>2, <3>3
  <2>5. CASE p.kind = "committed"
    <3>1. Settled(k, seen, found) = apply_completed_outcome(k, p) /\ ToldSound(j, k, p)
      BY <1>3, <2>2, <2>5 DEF Settled, FoundSound
    <3> HIDE DEF p
    <3> QED BY <2>2, <3>1, OutcomeIsSound
  <2>6. CASE p.kind = "not_committed"
    <3>1. Settled(k, seen, found) = apply_completed_outcome(k, seen) /\ ~OwnEffect(j)
      BY <1>3, <2>2, <2>6 DEF Settled, FoundSound
    <3> QED BY <2>3, <3>1, OutcomeIsSound
  <2> QED BY <2>2, <2>4, <2>5, <2>6 DEF FoundSound
<1> QED BY <1>1, <1>2, <1>3 DEF SeenSound

LEMMA SettleKeeps == ASSUME JobInv, NEW t \in Tasks, settle_observed(t) PROVE JobInv'
<1> DEFINE k == job[t[1]]
           seen == task[t].seen
           found == task[t].found
<1>1. task[t].pc = "settle" /\ UNCHANGED <<Business, Sources, Machine>> /\ Busy(t) /\ k \in JobRow
      /\ RowSound(t[1], k) /\ TaskSound(t[1], k, task[t]) /\ t[1] \in Jobs /\ seen \in Reports /\ found \in Reports
  BY Rely DEF settle_observed, Supervising, Business, Sources, Machine, Busy, TaskRow
<1>2. Unclosed(k) /\ ~is_terminal(k) /\ SeenSound(t[1], k, seen) /\ (seen.kind = "lost" => FoundSound(t[1], k, found))
  BY <1>1 DEF TaskSound, Unclosed, is_terminal
<1>3. PICK l \in JobRow : /\ l = Settled(k, seen, found) /\ RowSound(t[1], l)
                          /\ is_terminal(l) \/ (Unclosed(l) /\ l.step = k.step)
  BY <1>1, <1>2, SettledIsSound
<1>4. job' = [job EXCEPT ![t[1]] = l] /\ job'[t[1]] = l
  BY <1>1, <1>2, <1>3, Rely DEF settle_observed, SetJob, TypeOK
<1>5. PICK x \in TaskRow : /\ task' = [task EXCEPT ![t] = x] /\ x.seen = seen
                           /\ x.pc = IF is_terminal(l) THEN "end" ELSE "observed"
  <2> DEFINE pc == IF is_terminal(l) THEN "end" ELSE "observed"
             x == [task[t] EXCEPT !.pc = pc, !.found = Nothing]
  <2>1. pc \in TaskSteps /\ Nothing \in Reports /\ task[t] \in TaskRow
    BY ReportTypes, Rely DEF TaskSteps
  <2>2. task' = [task EXCEPT ![t].pc = pc, ![t].found = Nothing]
    BY <1>4 DEF settle_observed
  <2> HIDE DEF pc
  <2>3. x \in TaskRow /\ x.seen = seen /\ x.pc = pc
    BY <2>1 DEF TaskRow
  <2>4. task' = [task EXCEPT ![t] = x]
    BY <2>1, <2>2, Rely DEF TypeOK
  <2> QED BY <2>3, <2>4 DEF pc
<1>6. TaskSound(t[1], l, x)
  BY <1>2, <1>3, <1>5, ClosesOrGoesOn
<1> QED BY <1>1, <1>2, <1>3, <1>4, <1>5, <1>6, RowMoves

-----------------------------------------------------------------------------
(* Steps that commit.                                                      *)

\* The row of an unfinished job that registers no holdout refers to nothing yet.
Plain(k) == Unclosed(k) /\ k.generation <= 1 /\ k.result # "effect" /\ k.arrival = "none"
            /\ k.step \notin {"recorded", "already"}

LEMMA OthersArePlain ==
    ASSUME NEW j, NEW k \in JobRow, RowSound(j, k), Unclosed(k), operation[j] # "current"
    PROVE  Plain(k)
BY DEF Plain, RowSound, HoldoutIs, JobRow

LEMMA PlainIsSound == ASSUME NEW j, NEW k, Plain(k) PROVE RowSound(j, k) /\ RowSound(j, k)'
<1>1. RowSound(j, k)
  BY DEF Plain, RowSound, Unclosed, is_terminal, Stored
<1>2. RowSound(j, k)'
  BY DEF Plain, RowSound, Unclosed, is_terminal, Stored
<1> QED BY <1>1, <1>2

\* A fact is committed once: what other jobs rely on stays.
LEMMA CommitDrift ==
    ASSUME TypeOK, NEW j \in Jobs, CommitFact(j), UNCHANGED <<operation, export, tree, published>>
    PROVE  /\ \A i \in Jobs \ {j} : Drift(i)
           /\ fact' \in [Producers -> Jobs \cup {"none", "other"}]
           /\ fact'[operation[j]] = IF fact[operation[j]] = "none" THEN j ELSE fact[operation[j]]
<1> DEFINE o == operation[j]
<1>1. o \in Producers /\ fact \in [Producers -> Jobs \cup {"none", "other"}]
      /\ fact' = [fact EXCEPT ![o] = IF fact[o] = "none" THEN j ELSE fact[o]]
  BY DEF CommitFact, TypeOK
<1> HIDE DEF o
<1>2. fact' \in [Producers -> Jobs \cup {"none", "other"}]
  BY <1>1
<1>3. fact'[o] = IF fact[o] = "none" THEN j ELSE fact[o]
  BY <1>1
<1>4. \A q \in Producers : q # o => fact'[q] = fact[q]
  BY <1>1
<1>5. ASSUME NEW i \in Jobs \ {j} PROVE Drift(i)
  <2>1. i # j /\ i # "none"
    BY JobShape
  <2>2. \A q \in Producers : /\ fact'[q] = i <=> fact[q] = i
                             /\ fact[q] # "none" => fact'[q] = fact[q]
    BY <1>3, <1>4, <2>1
  <2> QED BY <2>2 DEF Drift
<1> QED BY <1>2, <1>3, <1>5 DEF o

LEMMA EffectKeeps ==
    ASSUME JobInv, NEW t \in Tasks, effect_commits(t) \/ effect_commits_unseen(t) PROVE JobInv'
<1> DEFINE j == t[1]
           o == Report("outcome", EffectState(j), "ended", "effect")
<1>1. task[t].pc = "effect" /\ CommitFact(j) /\ (Exit(t, o) \/ Exit(t, Lost))
      /\ UNCHANGED <<job, export, tree, published, operation>> /\ UNCHANGED <<Sources, Machine>> /\ Busy(t)
  BY DEF effect_commits, effect_commits_unseen, Working, Sources, Machine, Busy
<1>2. j \in Jobs /\ TypeOK /\ ExportShape /\ job[j] \in JobRow /\ RowSound(j, job[j]) /\ Unclosed(job[j])
      /\ operation[j] # "current" /\ operation[j] \in Producers
  BY <1>1, Rely DEF TaskSound, StepsOf, CommitFact
<1>3. PICK k \in JobRow : k = job[j]
  BY <1>2
<1>4. /\ \A i \in Jobs \ {j} : Drift(i)
      /\ fact' \in [Producers -> Jobs \cup {"none", "other"}]
      /\ fact'[operation[j]] # "none"
  <2>1. j # "none"
    BY <1>2, JobShape
  <2> QED BY <1>1, <1>2, <2>1, CommitDrift
<1>5. EffectExists(j)'
  BY <1>1, <1>2, <1>4 DEF EffectExists
<1>6. SeenSound(j, k, o)' /\ SeenSound(j, k, Lost)'
  BY <1>1, <1>2, <1>5 DEF SeenSound, ToldSound, EffectState, Report, Lost
<1>7. o \in Reports /\ Lost \in Reports
  BY ReportTypes DEF EffectState, StepNames, Results
<1> HIDE DEF o
<1>8. PICK x \in TaskRow : task' = [task EXCEPT ![t] = x] /\ x.pc = "observed" /\ x.seen \in {o, Lost}
  BY <1>1, <1>2, <1>7, ExitIs
<1>9. TaskSound(j, k, x)' /\ RowSound(j, k)'
  <2>1. Plain(k) /\ Unclosed(k)
    BY <1>2, <1>3, OthersArePlain
  <2>2. SeenSound(j, k, x.seen)'
    BY <1>6, <1>8 DEF SeenSound, ToldSound, o, Report, EffectState, Lost
  <2> QED BY <1>8, <2>1, <2>2, PlainIsSound DEF TaskSound
<1>10. ExportShape' /\ export' \in [phase : {"absent", "prepared", "reviewed", "delivered", "aborted", "redacted"},
                                   prepare_job : Jobs \cup {"none"}, publish_job : Jobs \cup {"none"}]
       /\ tree' \in BOOLEAN /\ published' \subseteq Jobs
  BY <1>1, <1>2 DEF ExportShape, TypeOK
<1>11. job' = [job EXCEPT ![t[1]] = k] /\ (Unclosed(k) => Unclosed(job[t[1]]))
  BY <1>1, <1>2, <1>3 DEF TypeOK
<1> HIDE DEF j
<1> QED BY <1>1, <1>4, <1>8, <1>9, <1>10, <1>11, TaskMoves DEF j

LEMMA BindKeeps == ASSUME JobInv, NEW t \in Tasks, bind_current(t) PROVE JobInv'
<1> DEFINE j == t[1]
<1>1. PICK s \in {"recorded", "already"} :
        /\ s = IF fact[operation[j]] = "none" THEN "recorded" ELSE "already"
        /\ job' = [job EXCEPT ![j] = [job[j] EXCEPT !.step = s, !.result = "effect"]]
        /\ Exit(t, Report("outcome", "succeeded", s, "effect")) \/ Exit(t, Lost)
  BY DEF bind_current, SetJob
<1>2. task[t].pc = "bind" /\ begin_management_step(t) /\ CommitFact(j)
      /\ UNCHANGED <<export, tree, published, operation>> /\ UNCHANGED <<Sources, Machine>> /\ Busy(t)
  BY DEF bind_current, Working, Sources, Machine, Busy
<1>3. j \in Jobs /\ TypeOK /\ ExportShape /\ job[j] \in JobRow /\ RowSound(j, job[j]) /\ Unclosed(job[j])
      /\ operation[j] = "current" /\ Untouched(j)
  BY <1>2, Rely DEF TaskSound, StepsOf
<1>4. job[j].arrival = "none" /\ job[j].generation <= 1 /\ job[j].state = "running"
  BY <1>2, <1>3 DEF RowSound, begin_management_step, ensure_fence
<1>5. PICK k \in JobRow : /\ job' = [job EXCEPT ![j] = k] /\ k.step = s /\ k.result = "effect" /\ k.arrival = "none"
                          /\ k.generation <= 1 /\ k.state = "running"
  <2> DEFINE r == [job[j] EXCEPT !.step = s, !.result = "effect"]
  <2>1. r \in JobRow /\ r.step = s /\ r.result = "effect" /\ r.arrival = job[j].arrival
        /\ r.generation = job[j].generation /\ r.state = job[j].state
    BY <1>3 DEF JobRow, StepNames, Results
  <2> HIDE DEF r
  <2> QED BY <1>1, <1>4, <2>1 DEF r
<1>6. PICK o \in Reports : o = Report("outcome", "succeeded", s, "effect")
  BY ReportTypes DEF StepNames, Results
<1>7. /\ \A i \in Jobs \ {j} : Drift(i)
      /\ fact' \in [Producers -> Jobs \cup {"none", "other"}]
      /\ fact'[operation[j]] = IF fact[operation[j]] = "none" THEN j ELSE fact[operation[j]]
  BY <1>2, <1>3, CommitDrift
<1>8. j # "none" /\ fact["current"] # j
  BY <1>3, JobShape DEF Untouched
<1>9. HoldoutIs(j, s)'
  BY <1>1, <1>2, <1>3, <1>7, <1>8 DEF HoldoutIs
<1>10. EffectExists(j)'
  BY <1>2, <1>3, <1>7, <1>8 DEF EffectExists
<1>11. RowSound(j, k)' /\ Unclosed(k)
  BY <1>5, <1>9 DEF RowSound, Unclosed, is_terminal, Stored
<1>12. SeenSound(j, k, o)' /\ SeenSound(j, k, Lost)'
  BY <1>2, <1>3, <1>5, <1>6, <1>10 DEF SeenSound, ToldSound, Report, Lost
<1>13. PICK x \in TaskRow : task' = [task EXCEPT ![t] = x] /\ x.pc = "observed" /\ x.seen \in {o, Lost}
  BY <1>1, <1>3, <1>6, ReportTypes, ExitIs
<1>14. TaskSound(j, k, x)'
  <2>1. CASE x.seen = o
    BY <1>11, <1>12, <1>13, <2>1 DEF TaskSound
  <2>2. CASE x.seen = Lost
    <3>1. SeenSound(j, k, x.seen)'
      BY <1>12, <2>2 DEF Lost, Report, SeenSound
    <3> QED BY <1>11, <1>13, <3>1 DEF TaskSound
  <2> QED BY <1>13, <2>1, <2>2
<1>15. ExportShape' /\ export' \in [phase : {"absent", "prepared", "reviewed", "delivered", "aborted", "redacted"},
                                   prepare_job : Jobs \cup {"none"}, publish_job : Jobs \cup {"none"}]
       /\ tree' \in BOOLEAN /\ published' \subseteq Jobs
  BY <1>2, <1>3 DEF ExportShape, TypeOK
<1> HIDE DEF j
<1> QED BY <1>2, <1>3, <1>5, <1>7, <1>11, <1>13, <1>14, <1>15, TaskMoves DEF j

LEMMA PrepareKeeps == ASSUME JobInv, NEW t \in Tasks, trace_export_prepare(t) PROVE JobInv'
<1> DEFINE j == t[1]
           e == [export EXCEPT !.phase = "prepared", !.prepare_job = j]
           o == Report("outcome", "succeeded", "ended", "effect")
           r == [Closed(job[j], "succeeded") EXCEPT !.result = "effect"]
<1>1. task[t].pc = "prepare" /\ begin_management_step(t) /\ export.phase = "absent" /\ export' = e
      /\ Exit(t, o) /\ job' = [job EXCEPT ![j] = r] /\ UNCHANGED <<operation, fact, tree, published>>
      /\ UNCHANGED <<Sources, Machine>> /\ Busy(t)
  BY DEF trace_export_prepare, SetJob, Working, Sources, Machine, Busy
<1>2. j \in Jobs /\ TypeOK /\ ExportShape /\ job[j] \in JobRow /\ RowSound(j, job[j])
      /\ operation[j] = "prepare"
  BY <1>1, Rely DEF TaskSound, StepsOf
<1>3. r \in JobRow /\ r.arrival = "none" /\ r.generation <= 1 /\ r.state = "succeeded" /\ r.lease = "none"
  <2>1. job[j].arrival = "none" /\ job[j].generation <= 1
    BY <1>1, <1>2 DEF RowSound, begin_management_step
  <2> QED BY <1>2, <2>1 DEF JobRow, Closed, States, StepNames, Results
<1>4. PICK k \in JobRow : k = r
  BY <1>3
<1>5. e.phase = "prepared" /\ e.prepare_job = j /\ e.publish_job = export.publish_job
      /\ e \in [phase : {"absent", "prepared", "reviewed", "delivered", "aborted", "redacted"},
                prepare_job : Jobs \cup {"none"}, publish_job : Jobs \cup {"none"}]
  BY <1>2 DEF TypeOK
<1>6. export.prepare_job = "none" /\ export.publish_job = "none" /\ ~tree
  BY <1>1, <1>2 DEF ExportShape
<1>7. o \in Reports
  BY ReportTypes DEF StepNames, Results
<1> HIDE DEF e, r, o
<1>8. ASSUME NEW i \in Jobs \ {j} PROVE Drift(i)
  <2>1. i # j /\ i # "none"
    BY JobShape
  <2> QED BY <1>1, <1>5, <1>6, <2>1 DEF Drift
<1>9. ExportShape'
  BY <1>1, <1>5, <1>6 DEF ExportShape
<1>10. EffectExists(j)'
  BY <1>1, <1>2, <1>5 DEF EffectExists
<1>11. RowSound(j, k)' /\ is_terminal(k) /\ ~Unclosed(k)
  BY <1>3, <1>4, <1>10 DEF RowSound, Unclosed, is_terminal, Stored
<1>12. PICK x \in TaskRow : task' = [task EXCEPT ![t] = x] /\ x.pc = "observed"
  BY <1>1, <1>2, <1>7, ExitIs
<1>13. TaskSound(j, k, x)'
  BY <1>11, <1>12 DEF TaskSound
<1>14. fact' \in [Producers -> Jobs \cup {"none", "other"}] /\ tree' \in BOOLEAN /\ published' \subseteq Jobs
  BY <1>1, <1>2 DEF TypeOK
<1> HIDE DEF j
<1> QED BY <1>1, <1>4, <1>5, <1>8, <1>9, <1>11, <1>12, <1>13, <1>14, TaskMoves DEF j

LEMMA DecisionKeeps == ASSUME JobInv, NEW t \in Tasks, trace_export_publish_decision(t) PROVE JobInv'
<1> DEFINE j == t[1]
           e == [export EXCEPT !.phase = "reviewed", !.publish_job = j]
           r == [job[j] EXCEPT !.step = "publishing"]
<1>1. task[t].pc = "review" /\ export.phase = "prepared" /\ export' = e
      /\ Move(t, "publish") /\ job' = [job EXCEPT ![j] = r] /\ UNCHANGED <<operation, fact, tree, published>>
      /\ UNCHANGED <<Sources, Machine>> /\ Busy(t)
  BY DEF trace_export_publish_decision, SetJob, Working, Sources, Machine, Busy
<1>2. j \in Jobs /\ TypeOK /\ ExportShape /\ job[j] \in JobRow /\ RowSound(j, job[j]) /\ Unclosed(job[j])
      /\ operation[j] = "publish"
  BY <1>1, Rely DEF TaskSound, StepsOf
<1>3. r \in JobRow /\ Plain(r)
  <2>1. Plain(job[j])
    BY <1>2, OthersArePlain
  <2>2. r \in JobRow /\ r.step = "publishing" /\ r.state = job[j].state /\ r.result = job[j].result
        /\ r.arrival = job[j].arrival /\ r.generation = job[j].generation
    BY <1>2 DEF JobRow, StepNames
  <2> HIDE DEF r, j
  <2> QED BY <2>1, <2>2 DEF Plain, Unclosed
<1>4. PICK k \in JobRow : k = r
  BY <1>3
<1>5. e.phase = "reviewed" /\ e.prepare_job = export.prepare_job /\ e.publish_job = j
      /\ e \in [phase : {"absent", "prepared", "reviewed", "delivered", "aborted", "redacted"},
                prepare_job : Jobs \cup {"none"}, publish_job : Jobs \cup {"none"}]
  BY <1>2 DEF TypeOK
<1>6. export.publish_job = "none" /\ ~tree
  BY <1>1, <1>2 DEF ExportShape
<1> HIDE DEF e, r
<1>8. ASSUME NEW i \in Jobs \ {j} PROVE Drift(i)
  <2>1. i # j /\ i # "none"
    BY JobShape
  <2> QED BY <1>1, <1>5, <1>6, <2>1 DEF Drift
<1>9. ExportShape'
  BY <1>1, <1>5, <1>6 DEF ExportShape
<1>10. OwnExport(j)' /\ ~tree'
  BY <1>1, <1>2, <1>5, <1>6 DEF OwnExport
<1>11. RowSound(j, k)' /\ Unclosed(k)
  BY <1>3, <1>4, PlainIsSound DEF Plain
<1>12. PICK x \in TaskRow : task' = [task EXCEPT ![t] = x] /\ x.pc = "publish"
  BY <1>1, <1>2, MoveIs DEF TaskSteps
<1>13. TaskSound(j, k, x)'
  BY <1>1, <1>2, <1>10, <1>11, <1>12 DEF TaskSound, StepsOf
<1>14. fact' \in [Producers -> Jobs \cup {"none", "other"}] /\ tree' \in BOOLEAN /\ published' \subseteq Jobs
  BY <1>1, <1>2 DEF TypeOK
<1> HIDE DEF j
<1> QED BY <1>1, <1>2, <1>4, <1>5, <1>8, <1>9, <1>11, <1>12, <1>13, <1>14, TaskMoves DEF j

\* The rename: only its own job relied on the tree's being absent.
LEMMA PublishKeeps == ASSUME JobInv, NEW t \in Tasks, publish_staged_trace_export(t) PROVE JobInv'
<1> DEFINE j == t[1]
<1>1. task[t].pc = "publish" /\ UNCHANGED <<operation, job, fact, export>> /\ UNCHANGED <<Sources, Machine>> /\ Busy(t)
  BY DEF publish_staged_trace_export, Working, Sources, Machine, Busy
<1>2. j \in Jobs /\ TypeOK /\ ExportShape /\ job[j] \in JobRow /\ RowSound(j, job[j]) /\ Unclosed(job[j])
      /\ operation[j] = "publish" /\ OwnExport(j) /\ ~tree
  BY <1>1, Rely DEF TaskSound, StepsOf
<1>3. PICK k \in JobRow : k = job[j] /\ Plain(k) /\ Unclosed(k)
  BY <1>2, OthersArePlain
<1>4. CASE /\ export.phase = "reviewed" /\ tree' = TRUE /\ published' = published \cup {j}
           /\ Move(t, "deliver") \/ Exit(t, Lost)
  <2>1. \A i \in Jobs \ {j} : Drift(i)
    BY <1>1, <1>2 DEF Drift, OwnExport
  <2>2. ExportShape' /\ OwnExport(j)'
    BY <1>1, <1>2, <1>4 DEF ExportShape, OwnExport
  <2>3. PICK x \in TaskRow : /\ task' = [task EXCEPT ![t] = x]
                             /\ x.pc = "deliver" \/ (x.pc = "observed" /\ x.seen = Lost)
    BY <1>2, <1>4, MoveIs, ExitIs, ReportTypes DEF TaskSteps
  <2>4. TaskSound(j, k, x)'
    <3>1. CASE x.pc = "deliver"
      BY <1>1, <1>2, <1>3, <2>2, <3>1 DEF TaskSound, StepsOf
    <3>2. CASE x.pc = "observed" /\ x.seen = Lost
      <4>1. SeenSound(j, k, x.seen)'
        BY <3>2 DEF SeenSound, Lost, Report
      <4> QED BY <1>3, <3>2, <4>1 DEF TaskSound
    <3> QED BY <2>3, <3>1, <3>2
  <2>5. fact' \in [Producers -> Jobs \cup {"none", "other"}] /\ tree' \in BOOLEAN /\ published' \subseteq Jobs
        /\ export' \in [phase : {"absent", "prepared", "reviewed", "delivered", "aborted", "redacted"},
                        prepare_job : Jobs \cup {"none"}, publish_job : Jobs \cup {"none"}]
    BY <1>1, <1>2, <1>4 DEF TypeOK
  <2>6. job' = [job EXCEPT ![j] = k] /\ RowSound(j, k)'
    BY <1>1, <1>2, <1>3, PlainIsSound DEF TypeOK
  <2> HIDE DEF j
  <2> QED BY <1>1, <1>2, <1>3, <2>1, <2>2, <2>3, <2>4, <2>5, <2>6, TaskMoves DEF j
<1>5. CASE UNCHANGED <<tree, published>> /\ Move(t, "abort")
  <2>1. PICK x \in TaskRow : task' = [task EXCEPT ![t] = x] /\ x.pc = "abort"
    BY <1>2, <1>5, MoveIs DEF TaskSteps
  <2>2. TaskSound(j, job[j], x)
    BY <1>2, <2>1 DEF TaskSound, StepsOf
  <2>3. UNCHANGED <<job, Business, Sources, Machine>>
    BY <1>1, <1>5 DEF Business
  <2> QED BY <1>1, <2>1, <2>2, <2>3, TaskAlone
<1>6. CASE UNCHANGED <<tree, published>> /\ Exit(t, Lost)
  <2>1. UNCHANGED <<job, Business, Sources, Machine>>
    BY <1>1, <1>6 DEF Business
  <2> QED BY <1>1, <1>6, <2>1, ReportTypes, LostIsSound, ExitsAlone
<1> QED BY <1>4, <1>5, <1>6 DEF publish_staged_trace_export

\* What ends the publication of job j leaves the other jobs as they were.
LEMMA EndingDrift ==
    ASSUME NEW j \in Jobs, export.publish_job = j, UNCHANGED <<operation, fact, tree>>,
           export'.prepare_job = export.prepare_job, export'.publish_job = export.publish_job
    PROVE  \A i \in Jobs \ {j} : Drift(i)
BY DEF Drift

LEMMA DeliveredKeeps == ASSUME JobInv, NEW t \in Tasks, trace_export_delivered(t) PROVE JobInv'
<1> DEFINE j == t[1]
           e == [export EXCEPT !.phase = "delivered"]
           c == Closed(job[j], "succeeded")
           a == IF job[j].cancel THEN "after" ELSE job[j].arrival
           r == [c EXCEPT !.result = "effect", !.arrival = a]
           o == Report("outcome", "succeeded", "ended", "effect")
<1>1. task[t].pc = "deliver" /\ export.publish_job = j /\ export' = e /\ Exit(t, o)
      /\ UNCHANGED <<operation, fact, tree, published>> /\ UNCHANGED <<Sources, Machine>> /\ Busy(t)
  BY DEF trace_export_delivered, Finishable, Working, Sources, Machine, Busy
<1>2. j \in Jobs /\ TypeOK /\ ExportShape /\ job[j] \in JobRow /\ RowSound(j, job[j]) /\ Unclosed(job[j])
      /\ operation[j] = "publish"
  BY <1>1, Rely DEF TaskSound, StepsOf
<1>3. Plain(job[j])
  BY <1>2, OthersArePlain
<1>4. c \in JobRow /\ c.arrival = job[j].arrival /\ c.generation = job[j].generation /\ c.state = "succeeded"
      /\ c.lease = "none" /\ c.cancel = job[j].cancel
  BY <1>2 DEF Closed, JobRow, States, StepNames
<1>5. job' = [job EXCEPT ![j] = r]
  BY <1>4 DEF trace_export_delivered, SetJob
<1>6. a \in {"none", "after"} /\ (a # "none" => job[j].cancel)
  BY <1>3 DEF Plain
<1>7. r \in JobRow /\ r.arrival = a /\ r.generation = c.generation /\ r.state = "succeeded" /\ r.lease = "none"
      /\ r.cancel = c.cancel
  <2> HIDE DEF c, a
  <2> QED BY <1>4, <1>6 DEF JobRow, Results
<1>8. PICK k \in JobRow : k = r
  BY <1>7
<1>9. e.phase = "delivered" /\ e.prepare_job = export.prepare_job /\ e.publish_job = export.publish_job
      /\ e \in [phase : {"absent", "prepared", "reviewed", "delivered", "aborted", "redacted"},
                prepare_job : Jobs \cup {"none"}, publish_job : Jobs \cup {"none"}]
  BY <1>2 DEF TypeOK
<1>10. o \in Reports
  BY ReportTypes DEF StepNames, Results
<1> HIDE DEF e, r, o, a, c
<1>11. EffectExists(j)' /\ ExportShape'
  BY <1>1, <1>2, <1>9 DEF EffectExists, ExportShape
<1>12. RowSound(j, k)' /\ is_terminal(k) /\ ~Unclosed(k)
  BY <1>1, <1>2, <1>3, <1>4, <1>6, <1>7, <1>8, <1>11 DEF RowSound, Plain, Unclosed, is_terminal, Stored
<1>13. PICK x \in TaskRow : task' = [task EXCEPT ![t] = x] /\ x.pc = "observed"
  BY <1>1, <1>2, <1>10, ExitIs
<1>14. TaskSound(j, k, x)'
  BY <1>12, <1>13 DEF TaskSound
<1>15. fact' \in [Producers -> Jobs \cup {"none", "other"}] /\ tree' \in BOOLEAN /\ published' \subseteq Jobs
  BY <1>1, <1>2 DEF TypeOK
<1>16. \A i \in Jobs \ {j} : Drift(i)
  BY <1>1, <1>2, <1>9, EndingDrift
<1> HIDE DEF j
<1> QED BY <1>1, <1>5, <1>8, <1>9, <1>11, <1>12, <1>13, <1>14, <1>15, <1>16, TaskMoves DEF j

LEMMA AbortKeeps == ASSUME JobInv, NEW t \in Tasks, commit_trace_export_abort(t) PROVE JobInv'
<1> DEFINE j == t[1]
           e == [export EXCEPT !.phase = "aborted"]
           r == Closed(job[j], "failed")
<1>1. task[t].pc = "abort" /\ UNCHANGED <<operation, fact, tree, published>> /\ UNCHANGED <<Sources, Machine>> /\ Busy(t)
  BY DEF commit_trace_export_abort, Working, Sources, Machine, Busy
<1>2. j \in Jobs /\ TypeOK /\ ExportShape /\ job[j] \in JobRow /\ RowSound(j, job[j]) /\ Unclosed(job[j])
      /\ operation[j] = "publish" /\ OwnExport(j) /\ ~tree
  BY <1>1, Rely DEF TaskSound, StepsOf
<1>3. CASE Finishable(t) /\ export' = e /\ SetJob(j, r) /\ Exit(t, Refused)
  <2>1. Plain(job[j])
    BY <1>2, OthersArePlain
  <2>2. r \in JobRow /\ r.arrival = job[j].arrival /\ r.generation = job[j].generation /\ r.state = "failed"
        /\ r.lease = "none" /\ r.result = job[j].result /\ r.cancel = job[j].cancel
    BY <1>2 DEF Closed, JobRow, States, StepNames
  <2>3. PICK k \in JobRow : k = r
    BY <2>2
  <2>4. e.phase = "aborted" /\ e.prepare_job = export.prepare_job /\ e.publish_job = export.publish_job
        /\ e \in [phase : {"absent", "prepared", "reviewed", "delivered", "aborted", "redacted"},
                  prepare_job : Jobs \cup {"none"}, publish_job : Jobs \cup {"none"}]
    BY <1>2 DEF TypeOK
  <2>5. job' = [job EXCEPT ![j] = r]
    BY <1>3 DEF SetJob
  <2> HIDE DEF e, r
  <2>6. ~OwnEffect(j)' /\ ExportShape'
    BY <1>1, <1>2, <1>3, <2>4 DEF OwnEffect, ExportShape
  <2>7. RowSound(j, k)' /\ is_terminal(k) /\ ~Unclosed(k)
    BY <2>1, <2>2, <2>3, <2>6 DEF RowSound, Plain, Unclosed, is_terminal, Stored
  <2>8. PICK x \in TaskRow : task' = [task EXCEPT ![t] = x] /\ x.pc = "observed"
    BY <1>2, <1>3, ReportTypes, ExitIs
  <2>9. TaskSound(j, k, x)'
    BY <2>7, <2>8 DEF TaskSound
  <2>10. fact' \in [Producers -> Jobs \cup {"none", "other"}] /\ tree' \in BOOLEAN /\ published' \subseteq Jobs
    BY <1>1, <1>2 DEF TypeOK
  <2>11. \A i \in Jobs \ {j} : Drift(i)
    BY <1>1, <1>2, <1>3, <2>4, EndingDrift DEF OwnExport
  <2> HIDE DEF j
  <2> QED BY <1>1, <1>3, <2>3, <2>4, <2>5, <2>6, <2>7, <2>8, <2>9, <2>10, <2>11, TaskMoves DEF j
<1>4. CASE UNCHANGED <<job, export>> /\ (Exit(t, Refused) \/ Exit(t, Lost))
  <2>1. UNCHANGED <<job, Business, Sources, Machine>>
    BY <1>1, <1>4 DEF Business
  <2>2. ~OwnEffect(j)
    BY <1>2 DEF OwnEffect, OwnExport
  <2>3. SeenSound(j, job[j], Refused) /\ SeenSound(j, job[j], Lost)
    BY <2>2, LostIsSound, RefusedIsSound
  <2> QED BY <1>1, <1>4, <2>1, <2>3, ReportTypes, ExitsAlone
<1> QED BY <1>3, <1>4 DEF commit_trace_export_abort

LEMMA ReconcileKeeps == ASSUME JobInv, NEW t \in Tasks, reconcile_publication(t) PROVE JobInv'
<1> DEFINE j == t[1]
           e == [export EXCEPT !.phase = "delivered"]
<1>1. task[t].pc = "confirm" /\ UNCHANGED <<operation, job, fact, tree, published>> /\ UNCHANGED <<Sources, Machine>>
      /\ Busy(t)
  BY DEF reconcile_publication, Supervising, Sources, Machine, Busy
<1>2. j \in Jobs /\ TypeOK /\ ExportShape /\ job[j] \in JobRow /\ RowSound(j, job[j]) /\ Unclosed(job[j])
      /\ operation[j] = "publish" /\ OwnExport(j) /\ task[t].seen.kind = "lost"
      /\ SeenSound(j, job[j], task[t].seen)
  BY <1>1, Rely DEF TaskSound, OwnExport
<1>3. PICK k \in JobRow : k = job[j] /\ Plain(k) /\ Unclosed(k)
  BY <1>2, OthersArePlain
<1>4. CASE OwnReview(j) /\ export' = e /\ Found(t, Committed(j))
  <2>1. e.phase = "delivered" /\ e.prepare_job = export.prepare_job /\ e.publish_job = export.publish_job
        /\ e \in [phase : {"absent", "prepared", "reviewed", "delivered", "aborted", "redacted"},
                  prepare_job : Jobs \cup {"none"}, publish_job : Jobs \cup {"none"}]
    BY <1>2 DEF TypeOK
  <2>2. PICK p \in Reports : p = Committed(j) /\ p.kind = "committed" /\ p.state = "succeeded" /\ p.step = "ended"
                             /\ p.result = "effect"
    BY <1>2, ReportTypes DEF Committed, Report, EffectState, StepNames, Results
  <2>3. PICK x \in TaskRow : task' = [task EXCEPT ![t] = x] /\ x.pc = "settle" /\ x.seen = task[t].seen
                             /\ x.found = p
    BY <1>2, <1>4, <2>2, FoundIs
  <2> HIDE DEF e
  <2>4. EffectExists(j)' /\ ExportShape'
    BY <1>1, <1>2, <1>4, <2>1 DEF EffectExists, ExportShape, OwnReview
  <2>5. FoundSound(j, k, p)'
    BY <1>1, <1>2, <2>2, <2>4 DEF FoundSound, ToldSound
  <2>6. x.seen = Lost /\ SeenSound(j, k, x.seen)'
    BY <1>2, <2>3 DEF SeenSound, Lost, Report
  <2>7. TaskSound(j, k, x)'
    BY <1>3, <2>3, <2>5, <2>6 DEF TaskSound
  <2>8. fact' \in [Producers -> Jobs \cup {"none", "other"}] /\ tree' \in BOOLEAN /\ published' \subseteq Jobs
    BY <1>1, <1>2 DEF TypeOK
  <2>9. \A i \in Jobs \ {j} : Drift(i)
    BY <1>1, <1>2, <1>4, <2>1, EndingDrift DEF OwnExport
  <2>10. job' = [job EXCEPT ![j] = k] /\ RowSound(j, k)'
    BY <1>1, <1>2, <1>3, PlainIsSound DEF TypeOK
  <2> HIDE DEF j
  <2> QED BY <1>1, <1>2, <1>3, <1>4, <2>1, <2>3, <2>4, <2>7, <2>8, <2>9, <2>10, TaskMoves DEF j
<1>5. CASE UNCHANGED export /\ Found(t, Unknown)
  <2>1. PICK x \in TaskRow : task' = [task EXCEPT ![t] = x] /\ x.pc = "settle" /\ x.seen = task[t].seen
                             /\ x.found = Unknown
    BY <1>2, <1>5, ReportTypes, FoundIs
  <2>2. TaskSound(j, job[j], x)
    BY <1>2, <2>1 DEF TaskSound, FoundSound, Unknown, Report
  <2>3. UNCHANGED <<job, Business, Sources, Machine>>
    BY <1>1, <1>5 DEF Business
  <2> QED BY <1>1, <2>1, <2>2, <2>3, TaskAlone
<1> QED BY <1>4, <1>5 DEF reconcile_publication

-----------------------------------------------------------------------------
(* Requests, supervisors and what happens around them.                     *)

\* A row is written from outside, and its tasks do not notice.
LEMMA RowAlone ==
    ASSUME JobInv, NEW j \in Jobs, NEW l \in JobRow, job' = [job EXCEPT ![j] = l],
           UNCHANGED <<Business, Sources, task, Machine>>, SameStanding(job[j], l), RowSound(j, l)
    PROVE  JobInv'
<1>1. TypeOK /\ ExportShape /\ WithinSlots /\ OneAtWork(j)
  BY DEF JobInv
<1>2. operation' = operation /\ fact' = fact /\ export' = export /\ tree' = tree /\ published' = published
      /\ revoked' = revoked /\ input' = input /\ active' = active /\ process' = process /\ crashes' = crashes
  BY DEF Business, Sources, Machine
<1>3. job'[j] = l /\ \A i \in Jobs \ {j} : job'[i] = job[i]
  BY <1>1 DEF TypeOK
<1>4. \A i \in Jobs : Drift(i)
  BY <1>2, StillDrift DEF Business
<1>5. TypeOK'
  BY <1>1, <1>2 DEF TypeOK
<1>6. ExportShape' /\ WithinSlots'
  BY <1>1, <1>2, <1>3, SlotsHold DEF ExportShape, SameStanding
<1>7. RowSound(j, job[j])'
  BY <1>3, <1>4, RowKept
<1>8. ASSUME NEW n \in Slots PROVE TaskSound(j, job[j], task[<<j, n>>])'
  <2>1. TaskSound(j, job[j], task[<<j, n>>])
    <3>1. <<j, n>> \in Tasks /\ <<j, n>>[1] = j
      OBVIOUS
    <3> QED BY <3>1, Rely
  <2>2. TaskSound(j, l, task[<<j, n>>])
    BY <2>1, TaskStands
  <2>3. TaskSound(j, job'[j], task'[<<j, n>>])
    BY <1>3, <2>2
  <2> QED BY <1>4, <2>3, TaskKept
<1>9. OneAtWork(j)'
  BY <1>1, <1>2, <1>3 DEF OneAtWork, Busy, SameStanding
<1> QED BY <1>2, <1>3, <1>4, <1>5, <1>6, <1>7, <1>8, <1>9, OneJobMoves

LEMMA CancelKeeps == ASSUME JobInv, NEW j \in Jobs, cancel(j) PROVE JobInv'
<1> DEFINE k == job[j]
           c == [k EXCEPT !.cancel = TRUE]
<1>1. k \in JobRow /\ RowSound(j, k) /\ Stored(k) /\ ~is_terminal(k) /\ ~k.cancel
      /\ UNCHANGED <<Business, Sources, task, Machine>>
  BY DEF JobInv, TypeOK, cancel, Business, Sources, Machine
<1>2. k.arrival = "none"
  BY <1>1 DEF RowSound
<1>3. c \in JobRow /\ c.cancel = TRUE /\ c.state = k.state /\ c.step = k.step /\ c.result = k.result
      /\ c.arrival = k.arrival /\ c.generation = k.generation /\ c.lease = k.lease
  BY <1>1 DEF JobRow
<1>4. CASE k.state = "queued"
  <2> DEFINE r == [c EXCEPT !.state = "cancelled", !.step = "ended", !.arrival = "before"]
  <2>1. job' = [job EXCEPT ![j] = r]
    BY <1>3, <1>4 DEF cancel, SetJob
  <2> HIDE DEF c
  <2>2. r \in JobRow /\ r.state = "cancelled" /\ r.arrival = "before" /\ r.cancel = TRUE /\ r.result = k.result
        /\ r.generation = k.generation /\ r.lease = k.lease
    BY <1>3 DEF JobRow, States, StepNames
  <2>3. PICK l \in JobRow : l = r
    BY <2>2
  <2> HIDE DEF r
  <2>4. RowSound(j, l) /\ SameStanding(k, l)
    BY <1>1, <1>4, <2>2, <2>3, UntouchedIsClean DEF RowSound, SameStanding, Unclosed, is_terminal, Stored
  <2> QED BY <1>1, <2>1, <2>3, <2>4, RowAlone
<1>5. CASE k.state # "queued"
  <2> DEFINE a == IF k.step = "already" THEN "before"
                  ELSE IF stored_result_has_side_effect(k.result) THEN "after" ELSE k.arrival
             r == [c EXCEPT !.state = "draining", !.arrival = a]
  <2>1. job' = [job EXCEPT ![j] = r]
    BY <1>3, <1>5 DEF cancel, SetJob
  <2>2. a \in {"none", "before", "after"}
    BY <1>2
  <2> HIDE DEF c, a
  <2>3. r \in JobRow /\ r.state = "draining" /\ r.arrival = a /\ r.cancel = TRUE /\ r.result = k.result
        /\ r.generation = k.generation /\ r.step = k.step
    BY <1>3, <2>2 DEF JobRow, States
  <2>4. PICK l \in JobRow : l = r
    BY <2>3
  <2> HIDE DEF r
  <2>5. Unclosed(k)
    BY <1>1, <1>5 DEF JobRow, States, Unclosed, is_terminal, Stored
  <2>6. RowSound(j, l)
    BY <1>1, <1>2, <2>3, <2>4, <2>5 DEF RowSound, Unclosed, is_terminal, Stored, a, stored_result_has_side_effect
  <2>7. SameStanding(k, l)
    BY <2>3, <2>4, <2>5 DEF SameStanding, Unclosed, is_terminal, Stored
  <2> QED BY <1>1, <2>1, <2>4, <2>6, <2>7, RowAlone
<1> QED BY <1>4, <1>5

LEMMA ExpiryKeeps == ASSUME JobInv, NEW j \in Jobs, lease_expires(j) PROVE JobInv'
<1> DEFINE k == job[j]
           r == [k EXCEPT !.lease = "expired"]
<1>1. k \in JobRow /\ RowSound(j, k) /\ k.lease = "live" /\ job' = [job EXCEPT ![j] = r]
      /\ UNCHANGED <<Business, Sources, task, Machine>>
  BY DEF JobInv, TypeOK, lease_expires, SetJob, Business, Sources, Machine
<1>2. Unclosed(k)
  BY <1>1 DEF RowSound, JobRow, States, Unclosed, is_terminal, Stored
<1>3. r \in JobRow /\ r.state = k.state /\ r.step = k.step /\ r.result = k.result /\ r.arrival = k.arrival
      /\ r.cancel = k.cancel /\ r.generation = k.generation
  BY <1>1 DEF JobRow
<1>4. PICK l \in JobRow : l = r
  BY <1>3
<1> HIDE DEF r
<1>5. RowSound(j, l) /\ SameStanding(k, l)
  BY <1>1, <1>2, <1>3, <1>4 DEF RowSound, SameStanding, Unclosed, is_terminal, Stored
<1> QED BY <1>1, <1>4, <1>5, RowAlone

\* Neither rows nor tasks move.
LEMMA AllDrift ==
    ASSUME JobInv, TypeOK', ExportShape', \A i \in Jobs : Drift(i), UNCHANGED <<job, task, Machine>>
    PROVE  JobInv'
<1>1. active' = active /\ process' = process
  BY DEF Machine
<1>2. ASSUME NEW i \in Jobs PROVE RowSound(i, job[i])' /\ OneAtWork(i)'
  BY <1>1, RowKept DEF JobInv, OneAtWork, Busy
<1>3. ASSUME NEW t \in Tasks PROVE TaskSound(t[1], job[t[1]], task[t])'
  BY TaskKept DEF JobInv
<1>4. WithinSlots'
  BY DEF JobInv, WithinSlots, UnclosedJobs
<1> QED BY <1>2, <1>3, <1>4 DEF JobInv

LEMMA OutsideKeeps ==
    ASSUME JobInv, revoke \/ cleanup_export \/ \E j \in Jobs : other_commits(j) \/ cleanup_input(j)
    PROVE  JobInv'
<1>1. TypeOK /\ ExportShape
  BY DEF JobInv
<1>2. CASE revoke
  <2>1. TypeOK' /\ ExportShape' /\ UNCHANGED <<job, task, Machine>> /\ UNCHANGED <<operation, Business>>
    BY <1>1, <1>2 DEF revoke, TypeOK, ExportShape, Business, Machine
  <2> QED BY <2>1, StillDrift, AllDrift
<1>3. CASE \E j \in Jobs : cleanup_input(j)
  <2>1. PICK j \in Jobs : cleanup_input(j)
    BY <1>3
  <2>2. TypeOK' /\ ExportShape' /\ UNCHANGED <<job, task, Machine>> /\ UNCHANGED <<operation, Business>>
    BY <1>1, <2>1 DEF cleanup_input, TypeOK, ExportShape, Business, Machine
  <2> QED BY <2>2, StillDrift, AllDrift
<1>4. CASE cleanup_export
  <2>1. UNCHANGED <<job, task, Machine>> /\ UNCHANGED <<operation, fact, published>> /\ tree' = FALSE
        /\ export' = [export EXCEPT !.phase = "redacted"] /\ export.phase \notin {"absent", "redacted"}
        /\ revoked' = revoked /\ input' = input
    BY <1>4 DEF cleanup_export, Machine, Sources
  <2>2. TypeOK'
    BY <1>1, <2>1 DEF TypeOK, Machine
  <2>3. export'.phase = "redacted" /\ export'.prepare_job = export.prepare_job /\ export'.publish_job = export.publish_job
    BY <1>1, <2>1 DEF TypeOK
  <2>4. ExportShape' /\ \A i \in Jobs : Drift(i)
    BY <2>1, <2>3 DEF ExportShape, Drift
  <2> QED BY <2>1, <2>2, <2>4, AllDrift
<1>5. CASE \E j \in Jobs : other_commits(j)
  <2>1. PICK j \in Jobs : other_commits(j)
    BY <1>5
  <2>2. UNCHANGED <<job, task, Machine>> /\ UNCHANGED <<operation, export, tree, published, revoked, input>>
        /\ operation[j] \in Producers /\ fact[operation[j]] = "none"
        /\ fact' = [fact EXCEPT ![operation[j]] = "other"]
    BY <2>1 DEF other_commits, Machine, Sources
  <2>3. TypeOK' /\ ExportShape'
    BY <1>1, <2>2 DEF TypeOK, ExportShape, Machine
  <2>4. fact'[operation[j]] = "other" /\ \A q \in Producers : q # operation[j] => fact'[q] = fact[q]
    BY <1>1, <2>2 DEF TypeOK
  <2>5. ASSUME NEW i \in Jobs PROVE Drift(i)
    <3>1. i # "none" /\ i # "other"
      BY JobShape
    <3>2. \A q \in Producers : /\ fact'[q] = i <=> fact[q] = i
                               /\ fact[q] # "none" => fact'[q] = fact[q]
      BY <2>2, <2>4, <3>1
    <3> QED BY <2>2, <3>2 DEF Drift
  <2> QED BY <2>2, <2>3, <2>5, AllDrift
<1> QED BY <1>2, <1>3, <1>4, <1>5

LEMMA RenewalKeeps == ASSUME JobInv, NEW t \in Tasks, renew_claim_fails(t) PROVE JobInv'
<1> DEFINE x == [task[t] EXCEPT !.stop = TRUE]
<1>1. task[t] \in TaskRow /\ TaskSound(t[1], job[t[1]], task[t]) /\ task[t].pc \in ConsumerSteps
      /\ UNCHANGED <<job, Business, Sources, Machine>> /\ task' = [task EXCEPT ![t] = x]
  BY Rely DEF renew_claim_fails, Business, Sources, Machine
<1>2. x \in TaskRow /\ x.pc = task[t].pc /\ x.seen = task[t].seen /\ x.found = task[t].found
  BY <1>1 DEF TaskRow
<1>3. PICK y \in TaskRow : y = x
  BY <1>2
<1> HIDE DEF x
<1>4. TaskSound(t[1], job[t[1]], y)
  BY <1>1, <1>2, <1>3 DEF TaskSound
<1>5. Busy(t)
  BY <1>1 DEF Busy
<1> QED BY <1>1, <1>2, <1>3, <1>4, <1>5, TaskAlone

\* A task of job j starts or ends, and enters or leaves active_workers.
LEMMA SupervisorMoves ==
    ASSUME JobInv, NEW j \in Jobs, NEW n \in Slots, NEW k \in JobRow, NEW x \in TaskRow,
           job' = [job EXCEPT ![j] = k], task' = [task EXCEPT ![<<j, n>>] = x],
           UNCHANGED <<Business, Sources, process, crashes>>,
           active' \subseteq Jobs, \A i \in Jobs \ {j} : i \in active' <=> i \in active,
           SameStanding(job[j], k), RowSound(j, k), TaskSound(j, k, x), OneAtWork(j)'
    PROVE  JobInv'
<1>1. TypeOK /\ ExportShape /\ WithinSlots
  BY DEF JobInv
<1>2. operation' = operation /\ fact' = fact /\ export' = export /\ tree' = tree /\ published' = published
      /\ revoked' = revoked /\ input' = input /\ process' = process /\ crashes' = crashes
  BY DEF Business, Sources
<1>3. job'[j] = k /\ \A i \in Jobs \ {j} : job'[i] = job[i]
  BY <1>1 DEF TypeOK
<1>4. task'[<<j, n>>] = x /\ \A u \in Tasks \ {<<j, n>>} : task'[u] = task[u]
  BY <1>1 DEF TypeOK
<1>5. \A i \in Jobs : Drift(i)
  BY <1>2, StillDrift DEF Business
<1>6. TypeOK'
  BY <1>1, <1>2 DEF TypeOK
<1>7. ExportShape' /\ WithinSlots'
  BY <1>1, <1>2, <1>3, SlotsHold DEF ExportShape, SameStanding
<1>8. RowSound(j, job[j])'
  BY <1>3, <1>5, RowKept
<1>9. ASSUME NEW m \in Slots PROVE TaskSound(j, job[j], task[<<j, m>>])'
  <2>1. CASE m = n
    BY <2>1, <1>3, <1>4, <1>5, TaskKept
  <2>2. CASE m # n
    <3>1. <<j, m>> \in Tasks /\ <<j, m>>[1] = j /\ task'[<<j, m>>] = task[<<j, m>>]
      BY <2>2, <1>4
    <3>2. TaskSound(j, k, task[<<j, m>>])
      BY <3>1, Rely, TaskStands
    <3>3. TaskSound(j, job'[j], task'[<<j, m>>])
      BY <1>3, <3>1, <3>2
    <3> QED BY <1>5, <3>3, TaskKept
  <2> QED BY <2>1, <2>2
<1>10. \A u \in Tasks : u[1] # j => task'[u] = task[u]
  BY <1>4
<1> QED BY <1>2, <1>3, <1>5, <1>6, <1>7, <1>8, <1>9, <1>10, OneJobMoves

\* The tasks that no step has led to.
Watching == [At("observed") EXCEPT !.seen = Lost]

LEMMA FreshTasks ==
    /\ Idle \in TaskRow /\ Idle.pc = "idle"
    /\ At("claim") \in TaskRow /\ At("claim").pc = "claim"
    /\ Watching \in TaskRow /\ Watching.pc = "observed" /\ Watching.seen = Lost
<1>1. Nothing \in Reports /\ Lost \in Reports
  BY ReportTypes
<1>2. Idle \in TaskRow /\ Idle.pc = "idle"
  BY <1>1 DEF Idle, TaskRow, TaskSteps
<1>3. At("claim") \in TaskRow /\ At("claim").pc = "claim"
  BY <1>2 DEF At, TaskRow, TaskSteps
<1>4. At("observed") \in TaskRow /\ At("observed").pc = "observed"
  BY <1>2 DEF At, TaskRow, TaskSteps
<1>5. Watching \in TaskRow /\ Watching.pc = "observed" /\ Watching.seen = Lost
  BY <1>1, <1>4 DEF Watching, TaskRow
<1> QED BY <1>2, <1>3, <1>5

LEMMA StandsAsItIs == ASSUME NEW k PROVE SameStanding(k, k)
BY DEF SameStanding

LEMMA SubmitKeeps == ASSUME JobInv, NEW j \in Jobs, submit(j) PROVE JobInv'
<1>1. TypeOK /\ job[j] \in JobRow /\ RowSound(j, job[j]) /\ OneAtWork(j) /\ process = "up"
      /\ UNCHANGED <<Business, Sources, process, crashes>> /\ active \subseteq Jobs
  BY DEF JobInv, TypeOK, submit, Business, Sources
<1>2. PICK k \in JobRow : /\ job' = [job EXCEPT ![j] = k] /\ RowSound(j, k) /\ SameStanding(job[j], k) /\ Stored(k)
                          /\ Unclosed(k) <=> Unclosed(job[j])
  <2>1. CASE ~Stored(job[j]) /\ SetJob(j, [NoJob EXCEPT !.state = "queued"])
    <3> DEFINE r == [NoJob EXCEPT !.state = "queued"]
    <3>1. r \in JobRow /\ r.state = "queued" /\ r.result = "none" /\ r.arrival = "none" /\ ~r.cancel
          /\ r.generation = 0 /\ r.lease = "none"
      BY DEF NoJob, JobRow, States, StepNames, Results
    <3>2. job' = [job EXCEPT ![j] = r]
      BY <2>1 DEF SetJob
    <3> HIDE DEF r
    <3>3. RowSound(j, r)
      BY <1>1, <2>1, <3>1 DEF RowSound, Stored, Unclosed, is_terminal
    <3>4. SameStanding(job[j], r) /\ Stored(r) /\ ~Unclosed(r) /\ ~Unclosed(job[j])
      BY <2>1, <3>1 DEF SameStanding, Stored, Unclosed, is_terminal
    <3> QED BY <3>1, <3>2, <3>3, <3>4
  <2>2. CASE Stored(job[j]) /\ UNCHANGED job
    <3>1. job' = [job EXCEPT ![j] = job[j]]
      BY <1>1, <2>2 DEF TypeOK
    <3> QED BY <1>1, <2>2, <3>1, StandsAsItIs
  <2> QED BY <2>1, <2>2 DEF submit
<1>3. CASE j \in active /\ UNCHANGED <<task, active>>
  <2>1. UNCHANGED <<Business, Sources, task, Machine>>
    BY <1>1, <1>3 DEF Machine
  <2> QED BY <1>2, <2>1, RowAlone
<1>4. CASE /\ j \notin active /\ active' = active \cup {j}
           /\ \E n \in Slots : task[<<j, n>>] = Idle /\ task' = [task EXCEPT ![<<j, n>>] = At("claim")]
  <2>1. PICK n \in Slots : task' = [task EXCEPT ![<<j, n>>] = At("claim")]
    BY <1>4
  <2>2. PICK x \in TaskRow : x = At("claim") /\ x.pc = "claim"
    BY FreshTasks
  <2>3. \A m \in Slots : ~Busy(<<j, m>>)
    BY <1>1, <1>4 DEF OneAtWork
  <2>4. ~Unclosed(k)
    BY <1>1, <1>2, <2>3 DEF OneAtWork
  <2>5. TaskSound(j, k, x)
    BY <1>2, <2>2, <2>4 DEF TaskSound
  <2>6. \A m \in Slots : Busy(<<j, m>>)' <=> m = n
    BY <1>1, <2>1, <2>2, <2>3 DEF Busy, TypeOK
  <2>7. OneAtWork(j)'
    <3>1. job'[j] = k
      BY <1>1, <1>2 DEF TypeOK
    <3> QED BY <1>4, <2>4, <2>6, <3>1 DEF OneAtWork
  <2>8. active' \subseteq Jobs /\ \A i \in Jobs \ {j} : i \in active' <=> i \in active
    BY <1>1, <1>4
  <2> QED BY <1>1, <1>2, <2>1, <2>2, <2>5, <2>7, <2>8, SupervisorMoves
<1> QED BY <1>3, <1>4 DEF submit, spawn_job

LEMMA WaitKeeps == ASSUME JobInv, NEW t \in Tasks, claim_waits(t) PROVE JobInv'
<1>1. PICK j \in Jobs, n \in Slots : t = <<j, n>> /\ t[1] = j
  OBVIOUS
<1> DEFINE r == [job[j] EXCEPT !.step = "capacity_wait"]
<1>2. TypeOK /\ job[j] \in JobRow /\ RowSound(j, job[j]) /\ OneAtWork(j) /\ job[j].state = "queued"
      /\ active \subseteq Jobs /\ task[t].pc = "claim" /\ Move(t, "retry") /\ active' = active \ {j}
      /\ UNCHANGED <<Business, Sources, process, crashes>> /\ job' = [job EXCEPT ![j] = r]
  BY <1>1 DEF JobInv, TypeOK, claim_waits, ClaimStep, SetJob, Business, Sources
<1>3. r \in JobRow /\ r.state = job[j].state /\ r.result = job[j].result /\ r.arrival = job[j].arrival
      /\ r.cancel = job[j].cancel /\ r.generation = job[j].generation /\ r.lease = job[j].lease
  BY <1>2 DEF JobRow, StepNames
<1>4. PICK k \in JobRow : k = r
  BY <1>3
<1> HIDE DEF r
<1>5. RowSound(j, k) /\ SameStanding(job[j], k) /\ Stored(k) /\ ~Unclosed(k)
  BY <1>2, <1>3, <1>4 DEF RowSound, SameStanding, Stored, Unclosed, is_terminal
<1>6. PICK x \in TaskRow : task' = [task EXCEPT ![t] = x] /\ x.pc = "retry"
  BY <1>2, MoveIs DEF TaskSteps
<1>7. TaskSound(j, k, x)
  BY <1>5, <1>6 DEF TaskSound
<1>8. \A m \in Slots : ~Busy(<<j, m>>)'
  <2>1. \A m \in Slots : m # n => ~Busy(<<j, m>>)
    BY <1>1, <1>2 DEF OneAtWork, Busy
  <2> QED BY <1>1, <1>2, <1>6, <2>1 DEF Busy, TypeOK
<1>9. OneAtWork(j)'
  <2>1. job'[j] = k
    BY <1>2, <1>4 DEF TypeOK
  <2> QED BY <1>2, <1>5, <1>8, <2>1 DEF OneAtWork
<1>10. active' \subseteq Jobs /\ \A i \in Jobs \ {j} : i \in active' <=> i \in active
  BY <1>2
<1> QED BY <1>1, <1>2, <1>4, <1>5, <1>6, <1>7, <1>9, <1>10, SupervisorMoves

LEMMA RetryKeeps == ASSUME JobInv, NEW t \in Tasks, retry_claim_later(t) PROVE JobInv'
<1>1. PICK j \in Jobs, n \in Slots : t = <<j, n>> /\ t[1] = j
  OBVIOUS
<1>2. TypeOK /\ job[j] \in JobRow /\ RowSound(j, job[j]) /\ OneAtWork(j) /\ TaskSound(j, job[j], task[t])
      /\ active \subseteq Jobs /\ task[t].pc = "retry" /\ active' = active \cup {j} /\ process = "up"
      /\ UNCHANGED <<Business, Sources, process, crashes>> /\ job' = [job EXCEPT ![j] = job[j]]
      /\ IF j \in active THEN Move(t, "idle") ELSE Move(t, "claim")
  BY <1>1 DEF JobInv, TypeOK, retry_claim_later, Business, Sources
<1>3. PICK k \in JobRow : k = job[j]
  BY <1>2
<1>4. PICK x \in TaskRow : task' = [task EXCEPT ![t] = x] /\ x.pc = IF j \in active THEN "idle" ELSE "claim"
  BY <1>2, MoveIs DEF TaskSteps
<1>5. job'[j] = k /\ task'[t] = x /\ \A m \in Slots : m # n => task'[<<j, m>>] = task[<<j, m>>]
  BY <1>1, <1>2, <1>3, <1>4 DEF TypeOK
<1>6. j \notin active => ~Unclosed(k) /\ \A m \in Slots : ~Busy(<<j, m>>)
  BY <1>2, <1>3 DEF OneAtWork
<1>7. TaskSound(j, k, x)
  BY <1>2, <1>3, <1>4, <1>6 DEF TaskSound
<1>8. OneAtWork(j)'
  <2>1. CASE j \in active
    <3>1. \A m \in Slots : Busy(<<j, m>>)' <=> Busy(<<j, m>>)
      BY <1>1, <1>2, <1>4, <1>5, <2>1 DEF Busy
    <3> QED BY <1>2, <1>3, <1>5, <2>1, <3>1 DEF OneAtWork
  <2>2. CASE j \notin active
    <3>1. \A m \in Slots : Busy(<<j, m>>)' <=> m = n
      BY <1>1, <1>4, <1>5, <1>6, <2>2 DEF Busy
    <3> QED BY <1>2, <1>5, <1>6, <2>2, <3>1 DEF OneAtWork
  <2> QED BY <2>1, <2>2
<1>9. active' \subseteq Jobs /\ \A i \in Jobs \ {j} : i \in active' <=> i \in active
  BY <1>2
<1> QED BY <1>1, <1>2, <1>3, <1>4, <1>7, <1>8, <1>9, StandsAsItIs, SupervisorMoves

LEMMA EndKeeps == ASSUME JobInv, NEW t \in Tasks, supervisor_ends(t) PROVE JobInv'
<1>1. PICK j \in Jobs, n \in Slots : t = <<j, n>> /\ t[1] = j
  OBVIOUS
<1>2. TypeOK /\ job[j] \in JobRow /\ RowSound(j, job[j]) /\ OneAtWork(j) /\ TaskSound(j, job[j], task[t])
      /\ active \subseteq Jobs /\ task[t].pc = "end" /\ active' = active \ {j} /\ task' = [task EXCEPT ![t] = Idle]
      /\ UNCHANGED <<Business, Sources, process, crashes>> /\ job' = [job EXCEPT ![j] = job[j]]
  BY <1>1 DEF JobInv, TypeOK, supervisor_ends, Business, Sources
<1>3. PICK k \in JobRow : k = job[j]
  BY <1>2
<1>4. PICK x \in TaskRow : x = Idle /\ x.pc = "idle"
  BY FreshTasks
<1>5. job'[j] = k /\ task'[t] = x /\ \A m \in Slots : m # n => task'[<<j, m>>] = task[<<j, m>>]
  BY <1>1, <1>2, <1>3, <1>4 DEF TypeOK
<1>6. ~Unclosed(k)
  BY <1>2, <1>3 DEF TaskSound, Unclosed, is_terminal
<1>7. TaskSound(j, k, x)
  BY <1>4 DEF TaskSound
<1>8. \A m \in Slots : ~Busy(<<j, m>>)'
  <2>1. \A m \in Slots : m # n => ~Busy(<<j, m>>)
    BY <1>1, <1>2 DEF OneAtWork, Busy
  <2> QED BY <1>1, <1>4, <1>5, <2>1 DEF Busy
<1>9. OneAtWork(j)'
  BY <1>2, <1>5, <1>6, <1>8 DEF OneAtWork
<1>10. active' \subseteq Jobs /\ \A i \in Jobs \ {j} : i \in active' <=> i \in active
  BY <1>2
<1> QED BY <1>1, <1>2, <1>3, <1>4, <1>7, <1>9, <1>10, StandsAsItIs, SupervisorMoves

LEMMA CrashKeeps == ASSUME JobInv, crash PROVE JobInv'
<1>1. TypeOK /\ ExportShape /\ crashes' \in 0..MaxCrashes
  <2>1. TypeOK /\ ExportShape /\ crashes \in 0..MaxCrashes /\ crashes < MaxCrashes /\ crashes' = crashes + 1 /\ MaxCrashes \in Nat
    BY JobShape DEF JobInv, TypeOK, crash
  <2> QED BY <2>1
<1>2. UNCHANGED <<job, operation, fact, export, tree, published, revoked, input>> /\ process' = "down" /\ active' = {}
      /\ task' = [t \in Tasks |-> Idle]
  BY DEF crash, Business, Sources
<1>3. TypeOK'
  BY <1>1, <1>2, FreshTasks DEF TypeOK
<1>4. ExportShape' /\ WithinSlots' /\ \A i \in Jobs : Drift(i)
  BY <1>2, StillDrift DEF JobInv, ExportShape, WithinSlots, UnclosedJobs, Business
<1>5. ASSUME NEW t \in Tasks PROVE TaskSound(t[1], job[t[1]], task[t])' /\ ~Busy(t)'
  <2>1. task'[t].pc = "idle"
    BY <1>2, FreshTasks
  <2> QED BY <2>1 DEF TaskSound, Busy
<1>6. ASSUME NEW i \in Jobs PROVE RowSound(i, job[i])' /\ OneAtWork(i)'
  <2>1. RowSound(i, job[i])'
    BY <1>2, <1>4, RowKept DEF JobInv
  <2>2. \A n \in Slots : ~Busy(<<i, n>>)'
    BY <1>5
  <2> QED BY <1>2, <2>1, <2>2 DEF OneAtWork
<1> QED BY <1>3, <1>4, <1>5, <1>6 DEF JobInv

LEMMA RecoverKeeps == ASSUME JobInv, recover_pending PROVE JobInv'
<1> DEFINE pending == {j \in Jobs : Stored(job[j]) /\ ~is_terminal(job[j])}
<1>1. TypeOK /\ ExportShape
  BY DEF JobInv
<1>2. UNCHANGED <<job, operation, fact, export, tree, published, revoked, input, crashes>> /\ process' = "up"
      /\ active' = pending
  BY DEF recover_pending, Business, Sources
<1>3. PICK first \in Slots :
        task' = [t \in Tasks |-> IF t[1] \notin pending \/ t[2] # first THEN Idle
                                 ELSE IF job[t[1]].state = "queued" THEN At("claim") ELSE Watching]
  BY DEF recover_pending, Watching
<1>4. \A t \in Tasks : task'[t] \in TaskRow
  BY <1>3, FreshTasks
<1>5. TypeOK'
  <2>1. task' \in [Tasks -> TaskRow]
    BY <1>3, <1>4
  <2> QED BY <1>1, <1>2, <2>1 DEF TypeOK
<1>6. ExportShape' /\ WithinSlots' /\ \A i \in Jobs : Drift(i)
  BY <1>2, StillDrift DEF JobInv, ExportShape, WithinSlots, UnclosedJobs, Business
<1>7. ASSUME NEW t \in Tasks PROVE TaskSound(t[1], job[t[1]], task[t])' /\ (Busy(t)' <=> t[1] \in pending /\ t[2] = first)
  <2>1. CASE t[1] \notin pending \/ t[2] # first
    <3>1. task'[t].pc = "idle"
      BY <1>3, <2>1, FreshTasks
    <3> QED BY <2>1, <3>1 DEF TaskSound, Busy
  <2>2. CASE t[1] \in pending /\ t[2] = first /\ job[t[1]].state = "queued"
    <3>1. task'[t].pc = "claim" /\ Stored(job'[t[1]]) /\ ~Unclosed(job'[t[1]])
      BY <1>2, <1>3, <2>2, FreshTasks DEF Unclosed
    <3> QED BY <2>2, <3>1 DEF TaskSound, Busy
  <2>3. CASE t[1] \in pending /\ t[2] = first /\ job[t[1]].state # "queued"
    <3>1. task'[t].pc = "observed" /\ task'[t].seen = Lost
      BY <1>3, <2>3, FreshTasks
    <3>2. Unclosed(job'[t[1]])
      BY <1>1, <1>2, <2>3 DEF TypeOK, JobRow, States, Stored, is_terminal, Unclosed
    <3>3. SeenSound(t[1], job[t[1]], task[t].seen)'
      BY <3>1 DEF SeenSound, Lost, Report
    <3> QED BY <2>3, <3>1, <3>2, <3>3 DEF TaskSound, Busy
  <2> QED BY <2>1, <2>2, <2>3
<1>8. ASSUME NEW i \in Jobs PROVE RowSound(i, job[i])' /\ OneAtWork(i)'
  <2>1. RowSound(i, job[i])'
    BY <1>2, <1>6, RowKept DEF JobInv
  <2>2. \A n \in Slots : Busy(<<i, n>>)' <=> i \in pending /\ n = first
    <3>1. ASSUME NEW n \in Slots PROVE Busy(<<i, n>>)' <=> i \in pending /\ n = first
      <4>1. <<i, n>> \in Tasks /\ <<i, n>>[1] = i /\ <<i, n>>[2] = n
        OBVIOUS
      <4> QED BY <4>1, <1>7
    <3> QED BY <3>1
  <2>3. Unclosed(job'[i]) => i \in pending
    BY <1>2 DEF Unclosed, Stored, is_terminal
  <2> QED BY <1>2, <2>1, <2>2, <2>3 DEF OneAtWork
<1> QED BY <1>5, <1>6, <1>7, <1>8 DEF JobInv

-----------------------------------------------------------------------------
(* The invariant.                                                          *)

LEMMA JobInvInit == Init => JobInv
<1> SUFFICES ASSUME Init PROVE JobInv
  OBVIOUS
<1>1. /\ operation \in Workloads /\ job = [j \in Jobs |-> NoJob] /\ fact = [o \in Producers |-> "none"]
      /\ export = [phase |-> "absent", prepare_job |-> "none", publish_job |-> "none"]
      /\ tree = FALSE /\ published = {} /\ revoked = FALSE /\ input = [j \in Jobs |-> "live"]
      /\ task = [t \in Tasks |-> Idle] /\ active = {} /\ process = "up" /\ crashes = 0
  BY DEF Init
<1>2. NoJob \in JobRow /\ NoJob.state = "absent" /\ NoJob.result = "none" /\ NoJob.arrival = "none" /\ ~NoJob.cancel
      /\ NoJob.generation = 0 /\ NoJob.lease = "none"
  BY DEF NoJob, JobRow, States, StepNames, Results
<1>3. TypeOK
  <2>1. crashes \in 0..MaxCrashes
    BY <1>1, JobShape
  <2> QED BY <1>1, <1>2, <2>1, FreshTasks DEF TypeOK
<1>4. ExportShape
  BY <1>1 DEF ExportShape
<1>5. WithinSlots
  <2>1. UnclosedJobs = {}
    BY <1>1, <1>2 DEF UnclosedJobs, Unclosed
  <2> QED BY <2>1, FS_EmptySet, JobShape DEF WithinSlots
<1>6. ASSUME NEW t \in Tasks PROVE TaskSound(t[1], job[t[1]], task[t]) /\ ~Busy(t)
  <2>1. task[t].pc = "idle"
    BY <1>1, FreshTasks
  <2> QED BY <2>1 DEF TaskSound, Busy
<1>7. ASSUME NEW j \in Jobs PROVE RowSound(j, job[j]) /\ OneAtWork(j)
  <2>1. job[j] = NoJob /\ j # "none"
    BY <1>1, JobShape
  <2>2. Untouched(j)
    BY <1>1, <2>1 DEF Untouched
  <2>3. RowSound(j, job[j])
    BY <1>2, <2>1, <2>2 DEF RowSound, Unclosed, is_terminal, Stored
  <2>4. \A n \in Slots : ~Busy(<<j, n>>)
    BY <1>6
  <2> QED BY <1>1, <1>2, <2>1, <2>3, <2>4 DEF OneAtWork, Unclosed
<1> QED BY <1>3, <1>4, <1>5, <1>6, <1>7 DEF JobInv

LEMMA JobInvTask == ASSUME JobInv, NEW t \in Tasks, TaskStep(t) PROVE JobInv'
BY LoadKeeps, StatusKeeps, FailKeeps, ClaimNoneKeeps, VerifyKeeps, ObserveKeeps, RefusalKeeps, ClaimKeeps,
   CheckpointKeeps, FinishKeeps, SettleKeeps, EffectKeeps, BindKeeps, PrepareKeeps, DecisionKeeps, PublishKeeps,
   DeliveredKeeps, AbortKeeps, ReconcileKeeps, WaitKeeps, RetryKeeps, EndKeeps DEF TaskStep

LEMMA JobInvStep == JobInv /\ [Next]_vars => JobInv'
<1> SUFFICES ASSUME JobInv, [Next]_vars PROVE JobInv'
  OBVIOUS
<1>1. CASE UNCHANGED vars
  <2>1. UNCHANGED <<job, task, Machine>> /\ UNCHANGED <<operation, Business>> /\ TypeOK' /\ ExportShape'
    BY <1>1 DEF vars, JobInv, TypeOK, ExportShape, Business, Machine
  <2> QED BY <2>1, StillDrift, AllDrift
<1>2. ASSUME NEW j \in Jobs, submit(j) \/ cancel(j) \/ lease_expires(j) \/ cleanup_input(j) \/ other_commits(j)
      PROVE  JobInv'
  BY <1>2, SubmitKeeps, CancelKeeps, ExpiryKeeps, OutsideKeeps
<1>3. ASSUME NEW t \in Tasks, TaskStep(t) \/ renew_claim_fails(t) PROVE JobInv'
  BY <1>3, JobInvTask, RenewalKeeps
<1>4. CASE revoke \/ cleanup_export \/ crash \/ recover_pending
  BY <1>4, OutsideKeeps, CrashKeeps, RecoverKeeps
<1> QED BY <1>1, <1>2, <1>3, <1>4 DEF Next

\* The inductive invariant of the jobs holds in every reachable state: the leases,
\* the attempts of each task and the records agree, whoever crashes and when.
THEOREM JobInvHolds == Spec => []JobInv
BY JobInvInit, JobInvStep, PTL DEF Spec

-----------------------------------------------------------------------------
(* What follows from it.                                                   *)

\* The jobs of two workers differ, and each of them holds a slot.
LEMMA WorkersHaveSlots ==
    ASSUME JobInv
    PROVE  Cardinality({t \in Tasks : task[t].pc \in ConsumerSteps}) <= MaxConcurrent
<1> DEFINE W == {t \in Tasks : task[t].pc \in ConsumerSteps}
           U == UnclosedJobs
           f == [t \in W |-> t[1]]
<1>1. \A t \in W : t[1] \in U
  BY Rely DEF TaskSound, UnclosedJobs
<1>2. ASSUME NEW s \in W, NEW t \in W, s[1] = t[1] PROVE s = t
  <2>1. PICK j \in Jobs, m \in Slots, n \in Slots : s = <<j, m>> /\ t = <<j, n>>
    BY <1>2
  <2>2. Busy(<<j, m>>) /\ Busy(<<j, n>>) /\ OneAtWork(j)
    BY <2>1 DEF Busy, JobInv
  <2> QED BY <2>1, <2>2 DEF OneAtWork
<1>3. f \in Injection(W, U)
  BY <1>1, <1>2 DEF Injection, IsInjective
<1>4. IsFiniteSet(U) /\ Cardinality(U) \in Nat /\ Cardinality(U) <= MaxConcurrent /\ MaxConcurrent \in Nat
  BY UnclosedIsFinite, JobShape DEF JobInv, WithinSlots
<1>5. IsFiniteSet(W) /\ Cardinality(W) <= Cardinality(U)
  BY <1>3, <1>4, FS_Injection
<1>6. Cardinality(W) \in Nat
  BY <1>5, FS_CardinalityType
<1> HIDE DEF W, U
<1>7. Cardinality(W) <= MaxConcurrent
  BY <1>4, <1>5, <1>6
<1> QED BY <1>7 DEF W

LEMMA InvIsExecutedOnce == JobInv => ExecutedOnce
<1> SUFFICES ASSUME JobInv PROVE ExecutedOnce
  OBVIOUS
<1>1. \A j \in Jobs : job[j].generation <= 1
  BY DEF JobInv, RowSound
<1> QED BY <1>1, WorkersHaveSlots DEF ExecutedOnce

LEMMA InvIsHonest == JobInv => RecordIsHonest
<1> SUFFICES ASSUME JobInv PROVE RecordIsHonest
  OBVIOUS
<1>1. TypeOK
  BY DEF JobInv
<1>2. UnfinishedIsWatched
  <2>1. SUFFICES ASSUME process = "up", NEW j \in Jobs, Unclosed(job[j])
                 PROVE  /\ j \in active
                        /\ \E n \in Slots :
                             /\ task[<<j, n>>].pc \in ConsumerSteps \cup ClosingSteps
                             /\ \A m \in Slots \ {n} : task[<<j, m>>].pc \in {"idle", "retry"}
    BY DEF UnfinishedIsWatched
  <2>2. OneAtWork(j)
    BY DEF JobInv
  <2>3. PICK n \in Slots : Busy(<<j, n>>)
    BY <2>1, <2>2 DEF OneAtWork
  <2>4. \A m \in Slots \ {n} : task[<<j, m>>].pc \in {"idle", "retry"}
    BY <2>2, <2>3 DEF OneAtWork, Busy
  <2>5. <<j, n>> \in Tasks /\ <<j, n>>[1] = j
    OBVIOUS
  <2>6. task[<<j, n>>] \in TaskRow /\ TaskSound(j, job[j], task[<<j, n>>])
    BY <2>5, Rely
  <2>7. task[<<j, n>>].pc \in ConsumerSteps \cup ClosingSteps
    BY <2>1, <2>3, <2>6 DEF TaskSound, Busy, TaskRow, TaskSteps, Unclosed, is_terminal
  <2> QED BY <2>2, <2>3, <2>4, <2>7 DEF OneAtWork
<1>3. TerminalIsHonest
  BY DEF JobInv, RowSound, TerminalIsHonest
<1>4. ArrivalIsHonest
  BY DEF JobInv, RowSound, ArrivalIsHonest
<1> QED BY <1>1, <1>2, <1>3, <1>4 DEF RecordIsHonest

\* A request is executed once (claim, count_management_job_capacity): no job is
\* claimed twice, whatever leases expire and processes die, and never more workers
\* run than MAX_CONCURRENT_DISPATCH, for any jobs, tasks and number of crashes.
THEOREM RequestsExecuteOnce == Spec => []ExecutedOnce
BY JobInvHolds, InvIsExecutedOnce, PTL

\* The record of a job is honest (run_job, finish_observed_worker,
\* consumer_progress, cancel_job_atomic): an open job has its one supervisor, a
\* closed one tells what it committed and when its cancellation arrived.
THEOREM RecordsAreHonest == Spec => []RecordIsHonest
BY JobInvHolds, InvIsHonest, PTL

-----------------------------------------------------------------------------
(* No row takes back what it says.                                         *)

RowGrows(k, l) ==
    /\ is_terminal(k) => l = k
    /\ k.result = "effect" /\ k.step # "already" => l.result = "effect"

LEMMA OutcomeGrows ==
    ASSUME NEW j \in Jobs, NEW k \in JobRow, RowSound(j, k), Unclosed(k), NEW o \in Reports,
           ToldSound(j, k, o) \/ (Deniable(o) /\ ~OwnEffect(j))
    PROVE  RowGrows(k, apply_completed_outcome(k, o))
<1> DEFINE l == apply_completed_outcome(k, o)
<1>1. ~is_terminal(k)
  BY DEF is_terminal, Unclosed
<1>2. SUFFICES ASSUME k.result = "effect", k.step # "already" PROVE l.result = "effect"
  BY <1>1 DEF RowGrows
<1>3. k.step = "recorded" /\ operation[j] = "current"
  BY <1>2 DEF RowSound, HoldoutIs
<1>4. CASE o.result # "effect"
  <2>1. l = [k EXCEPT !.state = "draining"]
    BY <1>2, <1>4 DEF apply_completed_outcome, committed_result_is_preserved, stored_result_has_side_effect
  <2> QED BY <1>2, <2>1 DEF JobRow
<1>5. CASE o.result = "effect"
  <2>1. o.step = "recorded"
    BY <1>3, <1>5 DEF ToldSound, Deniable
  <2>2. has_committed_side_effect(o) /\ committed_result_is_preserved(k.result, o.result)
    BY <1>2, <1>5, <2>1 DEF has_committed_side_effect, committed_result_is_preserved
  <2>3. l = [k EXCEPT !.state = o.state, !.step = o.step, !.result = o.result,
                      !.arrival = Arrival(k, has_committed_side_effect(o)), !.lease = "none"]
    BY <2>2 DEF apply_completed_outcome
  <2> QED BY <1>5, <2>3 DEF JobRow
<1> QED BY <1>4, <1>5

LEMMA SettledGrows ==
    ASSUME NEW j \in Jobs, NEW k \in JobRow, RowSound(j, k), Unclosed(k), NEW seen \in Reports, NEW found \in Reports,
           SeenSound(j, k, seen), seen.kind = "lost" => FoundSound(j, k, found)
    PROVE  RowGrows(k, Settled(k, seen, found))
<1> DEFINE p == OrUnknown(k, found)
<1>1. CASE seen.kind = "outcome"
  BY <1>1, OutcomeGrows DEF Settled, SeenSound
<1>2. CASE seen.kind = "refused"
  <2>1. Deniable(seen) /\ ~OwnEffect(j)
    BY <1>2 DEF SeenSound, Deniable, Refused, Report
  <2> QED BY <1>2, <2>1, OutcomeGrows DEF Settled
<1>3. CASE seen.kind = "lost"
  <2>1. p = found \/ p = Unknown
    BY DEF OrUnknown
  <2>2. p \in Reports /\ FoundSound(j, k, p)
    BY <1>3, <2>1, ReportTypes DEF FoundSound, Unknown, Report
  <2>3. CASE p.kind = "unknown"
    <3>1. Settled(k, seen, found) = [k EXCEPT !.state = "draining"]
      BY <1>3, <2>3 DEF Settled
    <3> QED BY <3>1 DEF RowGrows, JobRow, is_terminal, Unclosed
  <2>4. CASE p.kind = "committed"
    <3>1. Settled(k, seen, found) = apply_completed_outcome(k, p) /\ ToldSound(j, k, p)
      BY <1>3, <2>2, <2>4 DEF Settled, FoundSound
    <3> HIDE DEF p
    <3> QED BY <2>2, <3>1, OutcomeGrows
  <2>5. CASE p.kind = "not_committed"
    <3>1. Settled(k, seen, found) = apply_completed_outcome(k, seen) /\ ~OwnEffect(j) /\ Deniable(seen)
      BY <1>3, <2>2, <2>5 DEF Settled, FoundSound, SeenSound, Deniable, Lost, Report
    <3> QED BY <3>1, OutcomeGrows
  <2> QED BY <2>2, <2>3, <2>4, <2>5 DEF FoundSound
<1> QED BY <1>1, <1>2, <1>3 DEF SeenSound

RowsGrow == \A i \in Jobs : RowGrows(job[i], job'[i])

LEMMA OneRowGrows == ASSUME TypeOK, NEW j \in Jobs, NEW l, SetJob(j, l), RowGrows(job[j], l) PROVE RowsGrow
BY DEF TypeOK, SetJob, RowsGrow, RowGrows

LEMMA SameRowsGrow == ASSUME UNCHANGED job PROVE RowsGrow
BY DEF RowsGrow, RowGrows

\* A row that is open and refers to nothing may become anything.
LEMMA OpenRowGrows == ASSUME NEW k, NEW l, ~is_terminal(k), k.result # "effect" \/ l.result = "effect" PROVE RowGrows(k, l)
BY DEF RowGrows

LEMMA RequestsGrow ==
    ASSUME JobInv, NEW j \in Jobs, submit(j) \/ cancel(j) \/ lease_expires(j) PROVE RowsGrow
<1> DEFINE k == job[j]
<1>1. TypeOK /\ k \in JobRow /\ RowSound(j, k)
  BY DEF JobInv, TypeOK
<1>2. CASE submit(j)
  <2>1. CASE ~Stored(k) /\ SetJob(j, [NoJob EXCEPT !.state = "queued"])
    <3>1. ~is_terminal(k) /\ k.result # "effect"
      BY <1>1, <2>1 DEF RowSound, is_terminal, Stored
    <3> QED BY <1>1, <2>1, <3>1, OpenRowGrows, OneRowGrows
  <2> QED BY <1>2, <2>1, SameRowsGrow DEF submit
<1>3. CASE cancel(j)
  <2> DEFINE c == [k EXCEPT !.cancel = TRUE]
             l == IF c.state = "queued"
                  THEN [c EXCEPT !.state = "cancelled", !.step = "ended", !.arrival = "before"]
                  ELSE [c EXCEPT !.state = "draining",
                                 !.arrival = IF c.step = "already" THEN "before"
                                             ELSE IF stored_result_has_side_effect(c.result) THEN "after"
                                             ELSE c.arrival]
  <2>1. SetJob(j, l) /\ ~is_terminal(k)
    BY <1>3 DEF cancel
  <2>2. c \in JobRow /\ c.result = k.result
    BY <1>1 DEF JobRow
  <2>3. l.result = c.result
    <3> HIDE DEF c
    <3> QED BY <2>2 DEF JobRow
  <2> HIDE DEF l, c
  <2>4. RowGrows(k, l)
    BY <2>1, <2>2, <2>3 DEF RowGrows
  <2> QED BY <1>1, <2>1, <2>4, OneRowGrows
<1>4. CASE lease_expires(j)
  <2>1. SetJob(j, [k EXCEPT !.lease = "expired"]) /\ ~is_terminal(k)
    BY <1>1, <1>4 DEF lease_expires, RowSound
  <2>2. RowGrows(k, [k EXCEPT !.lease = "expired"])
    BY <1>1, <2>1 DEF RowGrows, JobRow
  <2> QED BY <1>1, <2>1, <2>2, OneRowGrows
<1> QED BY <1>2, <1>3, <1>4

\* Before it is claimed, a row refers to nothing.
LEMMA ClaimsGrow ==
    ASSUME JobInv, NEW t \in Tasks, claim_refused(t) \/ claim_waits(t) \/ claim(t) \/ record_background_error(t)
    PROVE  RowsGrow
<1>1. job[t[1]].state = "queued" /\ TypeOK /\ t[1] \in Jobs /\ RowSound(t[1], job[t[1]])
  BY Rely DEF claim_refused, claim_waits, claim, record_background_error
<1>2. ~is_terminal(job[t[1]]) /\ job[t[1]].result # "effect"
  BY <1>1 DEF RowSound, is_terminal
<1>3. \E l : SetJob(t[1], l)
  BY DEF claim_refused, claim_waits, claim, record_background_error
<1> QED BY <1>1, <1>2, <1>3, OpenRowGrows, OneRowGrows

LEMMA WorkersGrow ==
    ASSUME JobInv, NEW t \in Tasks,
           \/ checkpoint_claim(t) \/ bind_current(t) \/ trace_export_prepare(t) \/ trace_export_publish_decision(t)
           \/ trace_export_delivered(t) \/ commit_trace_export_abort(t)
    PROVE  RowsGrow
<1> DEFINE j == t[1]
           k == job[j]
<1>1. task[t].pc \in ConsumerSteps /\ TypeOK /\ j \in Jobs /\ k \in JobRow /\ RowSound(j, k)
      /\ TaskSound(j, k, task[t])
  BY Rely DEF checkpoint_claim, bind_current, trace_export_prepare, trace_export_publish_decision,
              trace_export_delivered, commit_trace_export_abort, Working
<1>2. Unclosed(k) /\ ~is_terminal(k)
  BY <1>1 DEF TaskSound, Unclosed, is_terminal
<1>3. CASE bind_current(t)
  <2>1. PICK s : SetJob(j, [k EXCEPT !.step = s, !.result = "effect"])
    BY <1>3 DEF bind_current
  <2>2. [k EXCEPT !.step = s, !.result = "effect"].result = "effect"
    BY <1>1 DEF JobRow
  <2> QED BY <1>1, <1>2, <2>1, <2>2, OpenRowGrows, OneRowGrows
<1>4. CASE ~bind_current(t)
  <2>1. operation[j] # "current"
    BY <1>1, <1>4 DEF TaskSound, StepsOf, checkpoint_claim, trace_export_prepare, trace_export_publish_decision,
                      trace_export_delivered, commit_trace_export_abort, Working
  <2>2. k.result # "effect"
    BY <1>1, <1>2, <2>1, OthersArePlain DEF Plain
  <2>3. UNCHANGED job \/ \E l : SetJob(j, l)
    BY <1>4 DEF checkpoint_claim, trace_export_prepare, trace_export_publish_decision,
                trace_export_delivered, commit_trace_export_abort
  <2> QED BY <1>1, <1>2, <2>2, <2>3, OpenRowGrows, OneRowGrows, SameRowsGrow
<1> QED BY <1>3, <1>4

LEMMA ClosersGrow ==
    ASSUME JobInv, NEW t \in Tasks, finish_claim(t) \/ settle_observed(t) PROVE RowsGrow
<1> DEFINE j == t[1]
           k == job[j]
           seen == task[t].seen
           found == task[t].found
<1>1. TypeOK /\ j \in Jobs /\ k \in JobRow /\ RowSound(j, k) /\ TaskSound(j, k, task[t]) /\ seen \in Reports /\ found \in Reports
  BY Rely DEF TaskRow
<1>2. CASE finish_claim(t)
  <2>1. CASE ~is_terminal(k) /\ seen.kind = "outcome" /\ SetJob(j, apply_completed_outcome(k, seen))
    <3>1. task[t].pc = "observed"
      BY <1>2 DEF finish_claim, Supervising
    <3>2. Unclosed(k) /\ ToldSound(j, k, seen)
      BY <1>1, <2>1, <3>1 DEF TaskSound, SeenSound
    <3> QED BY <1>1, <2>1, <3>2, OutcomeGrows, OneRowGrows
  <2> QED BY <1>2, <2>1, SameRowsGrow DEF finish_claim
<1>3. CASE settle_observed(t)
  <2>1. task[t].pc = "settle"
    BY <1>3 DEF settle_observed, Supervising
  <2>2. Unclosed(k) /\ ~is_terminal(k) /\ SeenSound(j, k, seen) /\ (seen.kind = "lost" => FoundSound(j, k, found))
    BY <1>1, <2>1 DEF TaskSound, Unclosed, is_terminal
  <2>3. SetJob(j, Settled(k, seen, found))
    BY <1>3, <2>2 DEF settle_observed
  <2>4. RowGrows(k, Settled(k, seen, found))
    BY <1>1, <2>2, SettledGrows
  <2> QED BY <1>1, <2>3, <2>4, OneRowGrows
<1> QED BY <1>2, <1>3

LEMMA StepGrows == JobInv /\ [Next]_vars => RowsGrow
<1> SUFFICES ASSUME JobInv, [Next]_vars PROVE RowsGrow
  OBVIOUS
<1>1. ASSUME UNCHANGED job PROVE RowsGrow
  BY <1>1, SameRowsGrow
<1>2. ASSUME NEW j \in Jobs, submit(j) \/ cancel(j) \/ lease_expires(j) \/ cleanup_input(j) \/ other_commits(j)
      PROVE  RowsGrow
  BY <1>1, <1>2, RequestsGrow DEF cleanup_input, other_commits
<1>3. ASSUME NEW t \in Tasks, TaskStep(t) \/ renew_claim_fails(t) PROVE RowsGrow
  <2>1. CASE claim_none(t) \/ retry_claim_later(t) \/ supervisor_ends(t) \/ load_private_request(t)
             \/ effect_commits(t) \/ effect_commits_unseen(t) \/ status_read(t) \/ worker_fails(t)
             \/ publish_staged_trace_export(t) \/ observe_progress(t) \/ verify_trace_export_tree(t)
             \/ reconcile_publication(t) \/ renew_claim_fails(t)
    <3>1. UNCHANGED job
      BY <2>1 DEF claim_none, retry_claim_later, supervisor_ends, load_private_request, effect_commits,
                  effect_commits_unseen, status_read, worker_fails, publish_staged_trace_export, observe_progress,
                  verify_trace_export_tree, reconcile_publication, renew_claim_fails
    <3> QED BY <3>1, <1>1
  <2> QED BY <1>3, <2>1, ClaimsGrow, WorkersGrow, ClosersGrow DEF TaskStep
<1>4. CASE revoke \/ cleanup_export \/ crash \/ recover_pending
  BY <1>1, <1>4 DEF revoke, cleanup_export, crash, recover_pending
<1>5. CASE UNCHANGED vars
  BY <1>1, <1>5 DEF vars
<1> QED BY <1>2, <1>3, <1>4, <1>5 DEF Next

\* No writer takes back what a row says (finish_claim, finish_observed_worker,
\* cancel_job_atomic, record_background_error): a closed job does not change, and
\* the reference to committed work is never dropped.
THEOREM RecordsOnlyGrow == Spec => RecordOnlyGrows
<1>1. JobInv /\ [Next]_vars =>
        [\A j \in Jobs :
           /\ is_terminal(job[j]) => job'[j] = job[j]
           /\ job[j].result = "effect" /\ job[j].step # "already" => job'[j].result = "effect"]_vars
  BY StepGrows DEF RowsGrow, RowGrows
<1> QED BY <1>1, JobInvHolds, PTL DEF Spec, RecordOnlyGrows

=============================================================================
