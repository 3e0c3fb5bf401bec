------------------------ MODULE NormalizationSoleWorker ------------------------
(***************************************************************************)
(* What holds while no two workers are on the same run, for any number of  *)
(* workers, runs, sources, plans and bounds: verdicts are final, a closed  *)
(* run is accounted for, retried finalizers rebuild the same manifest, and *)
(* the control plane implements NormalizationPromise.  Runs have no lease, *)
(* so it is the operator who sees to the hypothesis.                       *)
(***************************************************************************)
EXTENDS NormalizationRunProofs, NormalizationRefinement

OneWorkerPerRun ==
  \A w, u \in Workers :
    worker[w].pc # "idle" /\ worker[u].pc # "idle" /\ MyRun(w) = MyRun(u) => w = u

-----------------------------------------------------------------------------
(* The inductive invariant.  An executor works on a running run, a finalizer *)
(* on one that is not: what the finalizer has read cannot change under it.  *)
ExecutorSteps == ItemSteps \cup {"checkpoint", "fail_run", "mark_reconciling"}
Gated == {"finalize_summary", "reserve", "publish", "persist",
          "close_summary", "close"}
AfterRead == Gated \cup {"reconcile", "fail_reconciliation"}
FinalizerSteps == AfterRead \cup {"read_state"}

ViewOf(r) == [items |-> item[r], quality |-> quality[r]]
Decided(r) == \A s \in Planned : item[r][s].status \in TerminalItem

(* The items before the worker's position have a row.                       *)
Visited(w) ==
  \A i \in 1 .. Len(Plan) :
    i < worker[w].pos /\ Plan[i] \in Sources =>
      item[MyRun(w)][Plan[i]].status # "absent"

ExecutorOK(w) ==
  /\ worker[w].pc \in ExecutorSteps => run[MyRun(w)].status = "running"
  /\ worker[w].pos # 0
  /\ worker[w].pc \in ItemSteps =>
       worker[w].pos <= Len(Plan) /\ MyItem(w).status \notin TerminalItem
  /\ worker[w].pc \in ItemSteps \cup {"checkpoint"} => Visited(w)
  /\ worker[w].pc = "mark_reconciling" => Decided(MyRun(w))

FinalizerOK(w) ==
  /\ worker[w].pc \in FinalizerSteps =>
       run[MyRun(w)].status \in {"reconciling", "failed"}
  /\ worker[w].pc \in AfterRead => worker[w].view = ViewOf(MyRun(w))
  /\ worker[w].pc \in Gated => RunItems(ViewOf(MyRun(w))) = Planned
  /\ worker[w].pc \in {"reserve", "publish", "persist", "close"} =>
       worker[w].tally = TallyOf(item[MyRun(w)])
  /\ worker[w].pc \in {"publish", "persist"} =>
       worker[w].stamp = run[MyRun(w)].stamp

SoleWorker(w) == worker[w].pc # "idle" => ExecutorOK(w) /\ FinalizerOK(w)

(* A run's manifest is that of its rows, which stay as they are.            *)
SoleRun(r) ==
  /\ run[r].status \in Closed \cup {"reconciling"} => Decided(r)
  /\ run[r].status \in {"absent", "running"} => published[r] = {}
  /\ \A m \in published[r] : m = [view |-> ViewOf(r), publishedAt |-> run[r].stamp]
  /\ manifestRow[r] # None =>
       /\ manifestRow[r].tally = TallyOf(item[r])
       /\ RunItems(ViewOf(r)) = Planned
  /\ run[r].status \in Closed => run[r].tally = TallyOf(item[r])

SoleInv == (\A w \in Workers : SoleWorker(w)) /\ (\A r \in Runs : SoleRun(r))

-----------------------------------------------------------------------------
(* The plan and the tallies.                                                *)
LEMMA PlannedSources ==
  /\ Planned \subseteq Sources
  /\ \A s \in Planned : \E i \in 1 .. Len(Plan) : Plan[i] = s
  /\ \A i \in 1 .. Len(Plan) : Plan[i] \in Sources => Plan[i] \in Planned
<1>1. Plan \in Seq(Sources \cup {Unavailable}) /\ Unavailable \notin Sources
  BY ConstantsOK DEF ConstantsAssumption
<1>2. \A i \in 1 .. Len(Plan) : Plan[i] \in Sources \cup {Unavailable}
  BY <1>1
<1> QED
  BY <1>1, <1>2 DEF Planned

LEMMA FinishedItems ==
  ASSUME NEW items \in [Sources -> Item], ~Unfinished(TallyOf(items)), NEW s \in Sources
  PROVE  items[s].status \notin {"pending", "running"}
<1>1. ASSUME NEW st \in {"pending", "running"}, items[s].status = st PROVE FALSE
  <2> DEFINE S == {q \in Sources : items[q].status = st}
  <2>1. IsFiniteSet(S)
    BY ConstantsOK, FS_Subset DEF ConstantsAssumption
  <2>2. Cardinality(S) \in Nat /\ Cardinality(S) # 0
    BY <1>1, <2>1, FS_CardinalityType, FS_EmptySet
  <2>3. TallyOf(items)[st] = Cardinality(S)
    BY DEF TallyOf, ItemStatus
  <2> HIDE DEF S
  <2> QED
    BY <2>2, <2>3 DEF Unfinished
<1> QED
  BY <1>1

LEMMA TransitionEffect ==
  ASSUME item \in [Runs -> [Sources -> Item]], NEW r \in Runs, NEW s \in Sources,
         NEW status, NEW artifact, Transition(r, s, status, artifact)
  PROVE  /\ item'[r][s].status = status
         /\ \A q \in Sources \ {s} : item'[r][q] = item[r][q]
  BY DEF Transition

-----------------------------------------------------------------------------
(* What a step of the executor does to the item it is on.                   *)
StaysOnItem(w) ==
  /\ worker'[w].pc \in ItemSteps /\ worker'[w].pos = worker[w].pos
  /\ item'[MyRun(w)][Current(w)].status \in {MyItem(w).status, "pending", "running"}
LeavesItem(w) ==
  /\ worker'[w].pc \in {"checkpoint", "fail_run"}
  /\ worker'[w].pos = worker[w].pos + 1
  /\ item'[MyRun(w)][Current(w)].status # "absent"
ItemStep(w) ==
  /\ UNCHANGED <<run, manifestRow, published>> /\ worker'[w].run = worker[w].run
  /\ \A s \in Sources \ {Current(w)} : item'[MyRun(w)][s] = item[MyRun(w)][s]
  /\ MyItem(w).status # "absent" =>
       item'[MyRun(w)][Current(w)].status # "absent"
  /\ StaysOnItem(w) \/ LeavesItem(w)

LEMMA ItemStepEffect ==
  ASSUME TypeInv, NEW w \in Workers, Step(w), worker[w].pc \in ItemSteps
  PROVE  ItemStep(w)
<1> DEFINE r == MyRun(w)
           s == Current(w)
<1>1. /\ item \in [Runs -> [Sources -> Item]] /\ r \in Runs /\ s \in Sources
      /\ worker \in [Workers -> WorkerState] /\ worker[w] \in WorkerState
      /\ worker[w].pos \in Nat
  BY WorkerFields DEF TypeInv, TypeOK, ItemSteps, Try, WorkerState
<1> USE DEF At, Goto, NextItem, ItemSteps, Try, objects
<1>2. ASSUME UNCHANGED <<run, item, manifestRow, published>>,
             worker'[w].pc \in ItemSteps, worker'[w].pos = worker[w].pos,
             worker'[w].run = worker[w].run
      PROVE  ItemStep(w)
  BY <1>2 DEF ItemStep, StaysOnItem, MyItem
<1>3. CASE FindReusable(w) \/ RecordReuse(w) \/ Convert(w) \/ RegisterStructural(w)
           \/ RecordQa(w) \/ StoreText(w) \/ RegisterText(w)
  <2>1. /\ UNCHANGED <<run, item, manifestRow, published>>
        /\ worker'[w].pc \in ItemSteps
        /\ worker'[w].pos = worker[w].pos /\ worker'[w].run = worker[w].run
    BY <1>1, <1>3 DEF FindReusable, RecordReuse, Convert, RegisterStructural,
       RecordQa, StoreText, RegisterText, ledgerRows, WorkerState
  <2> QED
    BY <1>2, <2>1
<1>4. CASE EnsureItem(w) \/ MarkRunning(w)
  <2>1. /\ UNCHANGED <<run, manifestRow, published>>
        /\ worker'[w].pc \in ItemSteps
        /\ worker'[w].pos = worker[w].pos /\ worker'[w].run = worker[w].run
    BY <1>1, <1>4 DEF EnsureItem, MarkRunning, WorkerState
  <2>2. CASE UNCHANGED item
    BY <1>2, <2>1, <2>2
  <2>3. CASE \E st \in {"pending", "running"} : Transition(r, s, st, None)
    BY <1>1, <2>1, <2>3, TransitionEffect DEF ItemStep, StaysOnItem
  <2> QED
    BY <1>4, <2>2, <2>3 DEF EnsureItem, MarkRunning
<1>5. ASSUME NEW st \in ItemStatus \ {"absent"}, NEW a, Transition(r, s, st, a),
             UNCHANGED <<run, manifestRow, published>>,
             worker'[w].pc \in {"checkpoint", "fail_run"},
             worker'[w].pos = worker[w].pos + 1, worker'[w].run = worker[w].run
      PROVE  ItemStep(w)
  BY <1>1, <1>5, TransitionEffect DEF ItemStep, LeavesItem
<1>6. CASE MarkReused(w) \/ MarkReview(w) \/ MarkNormalized(w)
  <2>1. /\ UNCHANGED <<run, manifestRow, published>>
        /\ worker'[w].pc = "checkpoint"
        /\ worker'[w].pos = worker[w].pos + 1 /\ worker'[w].run = worker[w].run
    BY <1>1, <1>6 DEF MarkReused, MarkReview, MarkNormalized, WorkerState
  <2>2. \E st \in {"normalized", "quality_review_required"} :
          Transition(r, s, st, worker[w].held)
    BY <1>6 DEF MarkReused, MarkReview, MarkNormalized
  <2> QED
    BY <1>5, <2>1, <2>2 DEF ItemStatus
<1>7. CASE ItemFails(w) \/ RecordFidelity(w)
  <2>1. PICK class : HandleRetryable(w) \/ HandleFailure(w, class)
    BY <1>7 DEF ItemFails, RecordFidelity, HandleError
  <2>2. UNCHANGED <<run, manifestRow, published>>
    BY <1>7 DEF ItemFails, RecordFidelity, HandleError
  <2>3. /\ worker'[w].pc \in {"checkpoint", "fail_run"}
        /\ worker'[w].pos = worker[w].pos + 1 /\ worker'[w].run = worker[w].run
    <3>1. CASE HandleRetryable(w)
      BY <1>1, <3>1 DEF HandleRetryable, WorkerState
    <3>2. CASE HandleFailure(w, class)
      BY <1>1, <3>2 DEF HandleFailure, WorkerState
    <3> QED
      BY <2>1, <3>1, <3>2
  <2>4. \E st \in {"pending", "failed"} : Transition(r, s, st, None)
    BY <2>1 DEF HandleRetryable, HandleFailure
  <2> QED
    BY <1>5, <2>2, <2>3, <2>4 DEF ItemStatus
<1> QED
  <2>1. /\ ~(SkipUnavailable(w) \/ UnknownSource(w) \/ Checkpoint(w))
        /\ ~(FailRun(w) \/ LeaveForRetry(w) \/ Summarize(w) \/ MarkReconciling(w))
        /\ ~FinalizerStep(w)
    BY DEF SkipUnavailable, UnknownSource, Checkpoint, FailRun, LeaveForRetry,
       Summarize, PassEnded, MarkReconciling, FinalizerStep, ReadState,
       Reconcile, FailReconciliation, FinalizeSummary, ReservePublishedAt,
       PublishManifest, PersistManifest, CloseSummary, CloseRun
  <2> QED
    BY <2>1, <1>3, <1>4, <1>6, <1>7 DEF Step, ExecutorStep

(* Steps off the items leave items and quality rows alone, and no step      *)
(* writes the quality rows of another run.                                  *)
LEMMA ItemsAndQuality ==
  ASSUME TypeInv, NEW w \in Workers, Step(w)
  PROVE  /\ worker[w].pc \notin ItemSteps => UNCHANGED <<item, quality>>
         /\ \A r \in Runs : r # MyRun(w) => quality'[r] = quality[r]
<1>1. quality \in [Runs -> SUBSET Sources]
  BY DEF TypeInv, TypeOK
<1>2. CASE RecordReuse(w) \/ RecordQa(w)
  BY <1>1, <1>2 DEF RecordReuse, RecordQa, At, ItemSteps, Try
<1>3. CASE EnsureItem(w) \/ MarkReused(w) \/ MarkRunning(w) \/ MarkReview(w)
           \/ MarkNormalized(w) \/ ItemFails(w) \/ RecordFidelity(w)
  <2>1. UNCHANGED quality
    BY <1>3 DEF EnsureItem, MarkReused, MarkRunning, MarkReview, MarkNormalized,
       ItemFails, RecordFidelity, HandleError
  <2>2. worker[w].pc \in ItemSteps
    BY <1>3 DEF EnsureItem, MarkReused, MarkRunning, MarkReview, MarkNormalized,
       ItemFails, RecordFidelity, At, ItemSteps, Try
  <2> QED
    BY <2>1, <2>2
<1>4. CASE UNCHANGED <<item, quality>>
  BY <1>4
<1> QED
  <2>1. \/ RecordReuse(w) \/ RecordQa(w) \/ UNCHANGED <<item, quality>>
        \/ EnsureItem(w) \/ MarkReused(w) \/ MarkRunning(w) \/ MarkReview(w)
        \/ MarkNormalized(w) \/ ItemFails(w) \/ RecordFidelity(w)
    BY DEF Step, ExecutorStep, FinalizerStep, SkipUnavailable, UnknownSource,
       Checkpoint, FindReusable, Convert, RegisterStructural, StoreText,
       RegisterText, FailRun, LeaveForRetry, Summarize, MarkReconciling,
       ReadState, Reconcile, Compare, FailReconciliation, FinalizeSummary,
       ReservePublishedAt, PublishManifest, PersistManifest, CloseSummary,
       CloseRun, ledgerRows
  <2> QED
    BY <2>1, <1>2, <1>3, <1>4

-----------------------------------------------------------------------------
(* A step leaves the other workers and the other runs as they are.          *)
RowsStay(r) ==
  /\ run'[r] = run[r] /\ item'[r] = item[r] /\ quality'[r] = quality[r]
  /\ published'[r] = published[r] /\ manifestRow'[r] = manifestRow[r]

LEMMA SoleRunStays ==
  ASSUME NEW r \in Runs, SoleRun(r), RowsStay(r) PROVE SoleRun(r)'
  BY DEF SoleRun, RowsStay, Decided, ViewOf, TallyOf, RunItems

LEMMA SoleWorkerStays ==
  ASSUME NEW w \in Workers, SoleWorker(w), worker'[w] = worker[w],
         worker[w].pc # "idle" => RowsStay(MyRun(w))
  PROVE  SoleWorker(w)'
<1>1. CASE worker[w].pc = "idle"
  BY <1>1 DEF SoleWorker
<1>2. CASE worker[w].pc # "idle"
  <2>1. PICK q : q = MyRun(w)
    OBVIOUS
  <2>2. /\ MyRun(w)' = q /\ Current(w)' = Current(w)
        /\ run'[q] = run[q] /\ item'[q] = item[q] /\ quality'[q] = quality[q]
    BY <1>2, <2>1 DEF MyRun, Current, RowsStay
  <2>3. ExecutorOK(w)'
    BY <1>2, <2>1, <2>2 DEF SoleWorker, ExecutorOK, Visited, Decided, MyItem
  <2>4. ViewOf(q)' = ViewOf(q) /\ ViewOf(MyRun(w))' = ViewOf(q)
    BY <2>2 DEF ViewOf
  <2>5. TallyOf(item[MyRun(w)])' = TallyOf(item[q])
    BY <2>2 DEF TallyOf
  <2>6. RunItems(ViewOf(MyRun(w)))' = RunItems(ViewOf(q))
    BY <2>4 DEF RunItems
  <2>7. FinalizerOK(w)'
    BY <1>2, <2>1, <2>2, <2>4, <2>5, <2>6 DEF SoleWorker, FinalizerOK
  <2> QED
    BY <2>3, <2>7 DEF SoleWorker
<1> QED
  BY <1>1, <1>2

LEMMA OthersStay ==
  ASSUME RunInv, SoleInv, OneWorkerPerRun, NEW w \in Workers, Step(w)
  PROVE  /\ \A u \in Workers \ {w} : SoleWorker(u)'
         /\ \A r \in Runs \ {MyRun(w)} : SoleRun(r)'
<1>1. OnlyWorkerMoves(w) /\ OwnRowsChange(w)
  BY StepMovesWorker, StepChangesOwnRows DEF RunInv
<1>2. \A r \in Runs \ {MyRun(w)} : RowsStay(r)
  BY <1>1, ItemsAndQuality DEF RunInv, OwnRowsChange, RowsStay
<1>3. ASSUME NEW u \in Workers \ {w} PROVE SoleWorker(u)'
  <2>1. worker'[u] = worker[u]
    BY <1>1 DEF OnlyWorkerMoves
  <2>2. worker[u].pc # "idle" => MyRun(u) \in Runs \ {MyRun(w)}
    BY <1>1, <1>3, WorkerFields DEF RunInv, OnlyWorkerMoves, OneWorkerPerRun
  <2> QED
    BY <1>2, <2>1, <2>2, SoleWorkerStays DEF SoleInv
<1> QED
  BY <1>2, <1>3, SoleRunStays DEF SoleInv

-----------------------------------------------------------------------------
(* The executor.                                                            *)
LEMMA RunningIsBlank ==
  ASSUME ManifestInv, NEW r \in Runs, SoleRun(r),
         run[r].status \in {"absent", "running"}
  PROVE  published[r] = {} /\ manifestRow[r] = None
  BY DEF ManifestInv, SoleRun

LEMMA RunningRunOK ==
  ASSUME ManifestInv, NEW r \in Runs, SoleRun(r), run[r].status = "running",
         run'[r].status \in {"running", "failed"}, published'[r] = published[r],
         manifestRow'[r] = manifestRow[r]
  PROVE  SoleRun(r)'
<1>1. published[r] = {} /\ manifestRow[r] = None
  BY RunningIsBlank
<1> QED
  BY <1>1 DEF SoleRun, Closed

LEMMA ItemStepSole ==
  ASSUME RunInv, ManifestInv, SoleInv, NEW w \in Workers, Step(w),
         NEW r \in Runs, r = MyRun(w), worker[w].pc \in ItemSteps
  PROVE  SoleWorker(w)' /\ SoleRun(r)'
<1>1. /\ ItemStep(w) /\ ExecutorOK(w) /\ r \in Runs /\ Current(w) \in Sources
      /\ worker[w] \in WorkerState /\ worker[w].pos \in Nat
  BY ItemStepEffect, WorkerFields
     DEF RunInv, SoleInv, SoleWorker, ItemSteps, Try, WorkerState
<1>2. run[r].status = "running" /\ run'[r] = run[r] /\ MyRun(w)' = r
  BY <1>1 DEF ExecutorOK, ExecutorSteps, ItemStep, MyRun
<1>3. SoleRun(r)'
  BY <1>1, <1>2, RunningRunOK DEF SoleInv, ItemStep
<1>4. /\ worker'[w].pc \in ItemSteps \cup {"checkpoint", "fail_run"}
      /\ worker'[w].pc \notin FinalizerSteps \cup {"mark_reconciling"}
  BY <1>1 DEF ItemStep, StaysOnItem, LeavesItem, ItemSteps, Try, FinalizerSteps,
     AfterRead, Gated
<1>5. FinalizerOK(w)'
  BY <1>4 DEF FinalizerOK, FinalizerSteps, AfterRead, Gated
<1>6. worker'[w].pos # 0 /\ Visited(w)'
  <2>1. /\ Visited(w) /\ worker[w].pos # 0 /\ worker[w].pos \in Nat
        /\ worker'[w].pos \in {worker[w].pos, worker[w].pos + 1}
    BY <1>1 DEF ExecutorOK, ItemStep, StaysOnItem, LeavesItem
  <2>2. worker'[w].pos # 0
    BY <2>1
  <2>3. ASSUME NEW i \in 1 .. Len(Plan), i < worker'[w].pos, Plan[i] \in Sources
        PROVE  item'[r][Plan[i]].status # "absent"
    <3>1. CASE i < worker[w].pos
      <4>1. item[r][Plan[i]].status # "absent"
        BY <2>1, <2>3, <3>1 DEF Visited
      <4> QED
        BY <1>1, <2>3, <4>1 DEF ItemStep, MyItem
    <3>2. CASE ~(i < worker[w].pos)
      <4>1. i = worker[w].pos /\ worker'[w].pos # worker[w].pos
        BY <2>1, <2>3, <3>2
      <4>2. LeavesItem(w) /\ Current(w) = Plan[i]
        BY <1>1, <4>1 DEF ItemStep, StaysOnItem, Current
      <4> QED
        BY <4>2 DEF LeavesItem
    <3> QED
      BY <3>1, <3>2
  <2> QED
    BY <1>2, <2>2, <2>3 DEF Visited
<1>7. worker'[w].pc \in ItemSteps =>
        /\ worker'[w].pos <= Len(Plan)
        /\ item'[r][Plan[worker'[w].pos]].status \notin TerminalItem
  <2> SUFFICES ASSUME worker'[w].pc \in ItemSteps
               PROVE  /\ worker'[w].pos <= Len(Plan)
                      /\ item'[r][Plan[worker'[w].pos]].status \notin TerminalItem
    OBVIOUS
  <2>1. StaysOnItem(w)
    BY <1>1 DEF ItemStep, LeavesItem, ItemSteps, Try
  <2> QED
    BY <1>1, <2>1 DEF StaysOnItem, ExecutorOK, Current, TerminalItem
<1>8. ExecutorOK(w)'
  BY <1>2, <1>4, <1>6, <1>7 DEF ExecutorOK, MyItem, Current
<1> QED
  BY <1>2, <1>3, <1>5, <1>8 DEF SoleWorker

LEMMA CheckpointSole ==
  ASSUME RunInv, ManifestInv, SoleInv, NEW w \in Workers,
         NEW r \in Runs, r = MyRun(w),
         SkipUnavailable(w) \/ UnknownSource(w) \/ Checkpoint(w)
           \/ LeaveForRetry(w) \/ Summarize(w)
  PROVE  SoleWorker(w)' /\ SoleRun(r)'
<1>0. worker[w].pc = "checkpoint"
  BY DEF SkipUnavailable, UnknownSource, Checkpoint, LeaveForRetry, Summarize,
     PassEnded, At
<1>1. /\ ExecutorOK(w) /\ r \in Runs /\ run[r].status = "running"
      /\ worker \in [Workers -> WorkerState]
      /\ worker[w] \in WorkerState /\ worker[w].pos \in Nat /\ Visited(w)
      /\ worker[w].pos # 0 /\ item[r] \in [Sources -> Item]
  BY <1>0, WorkerFields
     DEF RunInv, TypeInv, TypeOK, SoleInv, SoleWorker, WorkerState, ExecutorOK,
         ExecutorSteps
<1>2. UNCHANGED <<run, item, quality, published, manifestRow>>
  BY DEF SkipUnavailable, UnknownSource, Checkpoint, LeaveForRetry, Summarize,
     ledgerRows, objects
<1>3. SoleRun(r)'
  BY <1>1, <1>2, RunningRunOK DEF SoleInv
<1> SUFFICES SoleWorker(w)'
  BY <1>3
<1>4. ASSUME worker'[w].pc = "idle" PROVE SoleWorker(w)'
  BY <1>4 DEF SoleWorker
<1>5. ASSUME Visited(w)', MyRun(w)' = r, worker'[w].pos # 0, worker'[w].pc = "checkpoint"
      PROVE  SoleWorker(w)'
  BY <1>1, <1>2, <1>5 DEF SoleWorker, ExecutorOK, FinalizerOK, ItemSteps, Try,
     FinalizerSteps, AfterRead, Gated
<1>6. CASE NextItem(w) /\ worker[w].pos <= Len(Plan)
           /\ (Current(w) \in Sources => MyItem(w).status # "absent")
  <2>1. /\ worker'[w].pos = worker[w].pos + 1 /\ MyRun(w)' = r
        /\ worker'[w].pc = "checkpoint"
    BY <1>1, <1>6 DEF NextItem, WorkerState, MyRun
  <2>2. ASSUME NEW i \in 1 .. Len(Plan), i < worker'[w].pos, Plan[i] \in Sources
        PROVE  item'[r][Plan[i]].status # "absent"
    <3>1. i < worker[w].pos \/ i = worker[w].pos
      BY <1>1, <2>1, <2>2
    <3> QED
      BY <1>1, <1>2, <1>6, <2>2, <3>1 DEF Visited, MyItem, Current
  <2>3. worker'[w].pos # 0
    BY <1>1, <2>1
  <2> QED
    BY <1>5, <2>1, <2>2, <2>3 DEF Visited
<1>7. CASE Goto(w, "ensure_item") /\ worker[w].pos <= Len(Plan)
           /\ ~AlreadyDone(MyItem(w).status)
  <2>1. /\ worker'[w].pos = worker[w].pos /\ MyRun(w)' = r
        /\ worker'[w].pc = "ensure_item"
    BY <1>1, <1>7 DEF Goto, WorkerState, MyRun
  <2>2. /\ Visited(w)' /\ MyItem(w)' = MyItem(w)
    BY <1>1, <1>2, <2>1 DEF Visited, MyItem, Current
  <2>3. ExecutorOK(w)'
    BY <1>1, <1>2, <1>7, <2>1, <2>2 DEF ExecutorOK, AlreadyDone
  <2>4. FinalizerOK(w)'
    BY <2>1 DEF FinalizerOK, FinalizerSteps, AfterRead, Gated
  <2> QED
    BY <2>3, <2>4 DEF SoleWorker
<1>8. CASE Stop(w)
  BY <1>1, <1>4, <1>8 DEF Stop, IdleWorker, WorkerState
<1>9. CASE Summarize(w) /\ ~Stop(w)
  <2>1. /\ ~Unfinished(TallyOf(item[r])) /\ worker[w].pos > Len(Plan)
        /\ worker'[w].pc = "mark_reconciling" /\ MyRun(w)' = r
        /\ worker'[w].pos = worker[w].pos
    BY <1>1, <1>9 DEF Summarize, ReadSummary, PassEnded, WorkerState, MyRun
  <2>2. ASSUME NEW s \in Planned PROVE item[r][s].status \in TerminalItem
    <3>1. PICK i \in 1 .. Len(Plan) : Plan[i] = s
      BY PlannedSources
    <3>2. i < worker[w].pos
      BY <1>1, <2>1, ConstantsOK DEF ConstantsAssumption
    <3>3. s \in Sources /\ item[r][s].status # "absent"
      BY <1>1, <3>1, <3>2, PlannedSources DEF Visited
    <3>4. item[r][s].status \notin {"pending", "running"}
      BY <1>1, <2>1, <3>3, FinishedItems
    <3> QED
      BY <1>1, <3>3, <3>4 DEF Item, ItemStatus, TerminalItem
  <2>3. Decided(r)'
    BY <1>2, <2>1, <2>2 DEF Decided
  <2>4. ExecutorOK(w)'
    BY <1>1, <1>2, <2>1, <2>3 DEF ExecutorOK, ItemSteps, Try
  <2>5. FinalizerOK(w)'
    BY <2>1 DEF FinalizerOK, FinalizerSteps, AfterRead, Gated
  <2> QED
    BY <2>4, <2>5 DEF SoleWorker
<1>10. CASE SkipUnavailable(w)
  <2>1. Current(w) \notin Sources
    BY <1>10, ConstantsOK DEF SkipUnavailable, ConstantsAssumption
  <2> QED
    BY <1>6, <1>10, <2>1 DEF SkipUnavailable
<1>11. CASE Checkpoint(w)
  <2>1. AlreadyDone(MyItem(w).status) => MyItem(w).status # "absent"
    BY DEF AlreadyDone, TerminalItem
  <2> QED
    BY <1>6, <1>7, <1>11, <2>1 DEF Checkpoint
<1> QED
  BY <1>8, <1>9, <1>10, <1>11 DEF UnknownSource, LeaveForRetry
-----------------------------------------------------------------------------
(* The hand-over and the finalizer.                                         *)
LEMMA FinalizerGoesOn ==
  ASSUME NEW w \in Workers, NEW r \in Runs, MyRun(w)' = r,
         worker'[w].pc \in FinalizerSteps, worker'[w].pos # 0,
         run'[r].status \in {"reconciling", "failed"},
         worker'[w].pc \in AfterRead =>
           worker'[w].view = [items |-> item'[r], quality |-> quality'[r]],
         worker'[w].pc \in Gated => RunItems(worker'[w].view) = Planned,
         worker'[w].pc \in {"reserve", "publish", "persist", "close"} =>
           worker'[w].tally = TallyOf(item'[r]),
         worker'[w].pc \in {"publish", "persist"} =>
           worker'[w].stamp = run'[r].stamp
  PROVE  SoleWorker(w)'
<1>1. worker'[w].pc \notin ExecutorSteps
  BY DEF FinalizerSteps, AfterRead, Gated, ExecutorSteps, ItemSteps, Try
<1>2. ExecutorOK(w)'
  BY <1>1 DEF ExecutorOK, ExecutorSteps
<1>3. ViewOf(MyRun(w))' = [items |-> item'[r], quality |-> quality'[r]]
  BY DEF ViewOf
<1>4. TallyOf(item[MyRun(w)])' = TallyOf(item'[r])
  BY DEF TallyOf
<1>5. worker'[w].pc \in Gated => RunItems(ViewOf(MyRun(w)))' = Planned
  BY <1>3 DEF RunItems, AfterRead
<1>6. FinalizerOK(w)'
  BY <1>3, <1>4, <1>5 DEF FinalizerOK
<1> QED
  BY <1>2, <1>6 DEF SoleWorker

LEMMA StoppedWorker ==
  ASSUME TypeInv, NEW w \in Workers, Stop(w) PROVE SoleWorker(w)'
  BY DEF Stop, IdleWorker, SoleWorker, TypeInv, TypeOK

LEMMA HandOverSole ==
  ASSUME RunInv, ManifestInv, SoleInv, NEW w \in Workers,
         NEW r \in Runs, r = MyRun(w), FailRun(w) \/ MarkReconciling(w)
  PROVE  SoleWorker(w)' /\ SoleRun(r)'
<1>1. /\ worker[w].pc \in {"fail_run", "mark_reconciling"} /\ TypeInv
      /\ worker \in [Workers -> WorkerState] /\ worker[w] \in WorkerState
      /\ run \in [Runs -> [status : RunStatus, config : Configs \cup {None},
                           tally : Tally, stamp : Stamps \cup {None}]]
  BY DEF FailRun, MarkReconciling, At, RunInv, TypeInv, TypeOK
<1>2. ExecutorOK(w) /\ run[r].status = "running" /\ worker[w].pos # 0
  BY <1>1 DEF SoleInv, SoleWorker, ExecutorOK, ExecutorSteps
<1>3. UNCHANGED <<item, quality, published, manifestRow>>
  BY DEF FailRun, MarkReconciling, objects
<1>4. ASSUME Goto(w, "read_state"),
             run'[r].status \in {"reconciling", "failed"}
      PROVE  SoleWorker(w)'
  <2>1. /\ worker'[w].pc = "read_state" /\ worker'[w].pos # 0
        /\ MyRun(w)' = r
    BY <1>1, <1>2, <1>4 DEF Goto, WorkerState, MyRun
  <2> QED
    BY <1>4, <2>1, FinalizerGoesOn DEF FinalizerSteps, AfterRead, Gated
<1>5. CASE FailRun(w)
  <2>1. run'[r].status = "failed"
    BY <1>1, <1>2, <1>5 DEF FailRun, CanFail, Closed
  <2>2. SoleRun(r)'
    BY <1>2, <1>3, <2>1, RunningRunOK DEF SoleInv
  <2> QED
    BY <1>1, <1>2, <1>4, <1>5, <2>1, <2>2, StoppedWorker
       DEF FailRun, CanFail, Closed
<1>6. CASE MarkReconciling(w)
  <2>1. run'[r].status = "reconciling" /\ Goto(w, "read_state")
    BY <1>1, <1>2, <1>6 DEF MarkReconciling
  <2>2. published[r] = {} /\ manifestRow[r] = None
    BY <1>2, RunningIsBlank DEF SoleInv
  <2>3. Decided(r)'
    BY <1>2, <1>3, <1>6 DEF ExecutorOK, MarkReconciling, At, Decided
  <2>4. SoleRun(r)'
    BY <1>3, <2>1, <2>2, <2>3 DEF SoleRun, Closed
  <2> QED
    BY <1>4, <2>1, <2>4
<1> QED
  BY <1>5, <1>6

(* What a finalizer knows.                                                  *)
LEMMA FinalizerKnows ==
  ASSUME RunInv, SoleInv, NEW w \in Workers, worker[w].pc \in FinalizerSteps,
         NEW r \in Runs, r = MyRun(w)
  PROVE  /\ TypeInv /\ worker \in [Workers -> WorkerState]
         /\ worker[w] \in WorkerState /\ worker[w].pos # 0
         /\ run \in [Runs -> [status : RunStatus, config : Configs \cup {None},
                              tally : Tally, stamp : Stamps \cup {None}]]
         /\ SoleRun(r) /\ run[r].status \in {"reconciling", "failed"}
         /\ worker[w].pc \in AfterRead => worker[w].view = ViewOf(r)
         /\ worker[w].pc \in Gated => RunItems(worker[w].view) = Planned
         /\ worker[w].pc \in {"reserve", "publish", "persist", "close"} =>
              worker[w].tally = TallyOf(item[r])
         /\ worker[w].pc \in {"publish", "persist"} =>
              worker[w].stamp = run[r].stamp
<1>1. TypeInv /\ worker \in [Workers -> WorkerState]
      /\ worker[w].pc # "idle"
  BY DEF RunInv, TypeInv, TypeOK, FinalizerSteps, AfterRead, Gated
<1>2. ExecutorOK(w) /\ FinalizerOK(w)
  BY <1>1 DEF SoleInv, SoleWorker
<1>3. worker[w].pc \in Gated => worker[w].pc \in AfterRead
  BY DEF AfterRead
<1>4. worker[w].pos # 0
  BY <1>2 DEF ExecutorOK
<1>5. /\ run \in [Runs -> [status : RunStatus, config : Configs \cup {None},
                           tally : Tally, stamp : Stamps \cup {None}]]
  BY <1>1 DEF TypeInv, TypeOK
<1> QED
  BY <1>1, <1>2, <1>3, <1>4, <1>5 DEF FinalizerOK, SoleInv

(* The steps that only read.                                                *)
LEMMA ReadingSole ==
  ASSUME RunInv, SoleInv, NEW w \in Workers, NEW r \in Runs, r = MyRun(w),
         ReadState(w) \/ Reconcile(w) \/ FinalizeSummary(w) \/ CloseSummary(w)
  PROVE  SoleWorker(w)' /\ SoleRun(r)'
<1>1. worker[w].pc \in {"read_state", "reconcile", "finalize_summary",
                        "close_summary"}
  BY DEF ReadState, Reconcile, FinalizeSummary, CloseSummary, At
<1>2. worker[w].pc \in FinalizerSteps
  BY <1>1 DEF FinalizerSteps, AfterRead, Gated
<1>3. /\ TypeInv /\ worker \in [Workers -> WorkerState]
      /\ worker[w] \in WorkerState /\ worker[w].pos # 0 /\ SoleRun(r)
      /\ run[r].status \in {"reconciling", "failed"}
      /\ worker[w].pc \in AfterRead => worker[w].view = ViewOf(r)
      /\ worker[w].pc \in Gated => RunItems(worker[w].view) = Planned
  BY <1>2, FinalizerKnows
<1>4. UNCHANGED <<run, item, quality, published, manifestRow>>
  BY DEF ReadState, Reconcile, Compare, FinalizeSummary, CloseSummary,
     ledgerRows, objects
<1>5. SoleRun(r)'
  BY <1>3, <1>4, SoleRunStays DEF RowsStay
<1> SUFFICES SoleWorker(w)'
  BY <1>5
<1>6. ASSUME worker'[w].pc \in FinalizerSteps, MyRun(w)' = r,
             worker'[w].pos = worker[w].pos,
             worker'[w].pc \in AfterRead => worker'[w].view = ViewOf(r),
             worker'[w].pc \in Gated => RunItems(worker'[w].view) = Planned,
             worker'[w].pc \in {"reserve", "close"} =>
               worker'[w].tally = TallyOf(item[r]),
             worker'[w].pc \notin {"publish", "persist"}
      PROVE  SoleWorker(w)'
  <2>1. ViewOf(r) = [items |-> item'[r], quality |-> quality'[r]]
    BY <1>4 DEF ViewOf
  <2>2. run'[r].status \in {"reconciling", "failed"} /\ worker'[w].pos # 0
    BY <1>3, <1>4, <1>6
  <2>3. TallyOf(item[r]) = TallyOf(item'[r])
    BY <1>4
  <2> QED
    BY <1>6, <2>1, <2>2, <2>3, FinalizerGoesOn
<1>7. CASE ReadState(w)
  <2>1. /\ worker'[w].pc = "reconcile" /\ MyRun(w)' = r
        /\ worker'[w].pos = worker[w].pos /\ worker'[w].view = ViewOf(r)
    BY <1>3, <1>7 DEF ReadState, WorkerState, MyRun, ViewOf
  <2> QED
    BY <1>6, <2>1 DEF FinalizerSteps, AfterRead, Gated
<1>8. CASE Reconcile(w)
  <2>1. worker[w].pc = "reconcile" /\ worker[w].view = ViewOf(r)
    BY <1>3, <1>8 DEF Reconcile, At, AfterRead
  <2>2. CASE Stop(w)
    BY <1>3, <2>2, StoppedWorker
  <2>3. CASE Compare(w, Planned)
    <3>1. /\ worker'[w].pc \in {"finalize_summary", "fail_reconciliation"}
          /\ MyRun(w)' = r /\ worker'[w].pos = worker[w].pos
          /\ worker'[w].view = worker[w].view
          /\ worker'[w].pc = "finalize_summary" =>
               CanClose(Planned, worker[w].view)
      BY <1>3, <2>3 DEF Compare, Goto, WorkerState, MyRun
    <3>2. CanClose(Planned, worker[w].view) =>
            RunItems(worker[w].view) = Planned
      BY DEF CanClose
    <3> QED
      BY <1>6, <2>1, <3>1, <3>2 DEF FinalizerSteps, AfterRead, Gated
  <2> QED
    BY <1>8, <2>2, <2>3 DEF Reconcile
<1>9. CASE FinalizeSummary(w)
  <2>1. worker[w].pc \in Gated /\ worker[w].pc \in AfterRead
    BY <1>9 DEF FinalizeSummary, At, AfterRead, Gated
  <2>2. /\ worker'[w].pc = "reserve" /\ MyRun(w)' = r
        /\ worker'[w].pos = worker[w].pos
        /\ worker'[w].view = worker[w].view
        /\ worker'[w].tally = TallyOf(item[r])
    BY <1>3, <1>9 DEF FinalizeSummary, WorkerState, MyRun
  <2> QED
    BY <1>3, <1>6, <2>1, <2>2 DEF FinalizerSteps, AfterRead, Gated
<1>10. CASE CloseSummary(w)
  <2>1. worker[w].pc \in Gated /\ worker[w].pc \in AfterRead
    BY <1>10 DEF CloseSummary, At, AfterRead, Gated
  <2>2. CASE Stop(w)
    BY <1>3, <2>2, StoppedWorker
  <2>3. CASE ~Stop(w)
    <3>1. /\ worker'[w].pc = "close" /\ MyRun(w)' = r
          /\ worker'[w].pos = worker[w].pos
          /\ worker'[w].view = worker[w].view
          /\ worker'[w].tally = TallyOf(item[r])
      BY <1>3, <1>10, <2>3 DEF CloseSummary, ReadSummary, WorkerState, MyRun
    <3> QED
      BY <1>3, <1>6, <2>1, <3>1 DEF FinalizerSteps, AfterRead, Gated
  <2> QED
    BY <2>2, <2>3
<1> QED
  BY <1>7, <1>8, <1>9, <1>10

(* The steps that write.                                                    *)
LEMMA EndSole ==
  ASSUME RunInv, SoleInv, NEW w \in Workers, NEW r \in Runs, r = MyRun(w),
         FailReconciliation(w) \/ CloseRun(w)
  PROVE  SoleWorker(w)' /\ SoleRun(r)'
<1>1. worker[w].pc \in {"fail_reconciliation", "close"}
  BY DEF FailReconciliation, CloseRun, At
<1>2. worker[w].pc \in FinalizerSteps
  BY <1>1 DEF FinalizerSteps, AfterRead, Gated
<1>3. /\ TypeInv /\ SoleRun(r)
      /\ run \in [Runs -> [status : RunStatus, config : Configs \cup {None},
                           tally : Tally, stamp : Stamps \cup {None}]]
      /\ run[r].status \in {"reconciling", "failed"}
      /\ worker[w].pc = "close" => worker[w].tally = TallyOf(item[r])
  BY <1>2, FinalizerKnows
<1>4. UNCHANGED <<item, quality, published, manifestRow>> /\ Stop(w)
  BY DEF FailReconciliation, CloseRun, objects
<1>5. ASSUME run'[r].stamp = run[r].stamp,
             \/ run'[r].status = "failed"
             \/ run'[r].status \in Closed /\ Decided(r)
                /\ run'[r].tally = TallyOf(item[r])
      PROVE  SoleRun(r)'
  <2>1. ViewOf(r)' = ViewOf(r) /\ item'[r] = item[r]
    BY <1>4 DEF ViewOf
  <2>2. Decided(r)' = Decided(r)
    BY <1>4 DEF Decided
  <2>3. TallyOf(item[r])' = TallyOf(item[r])
    BY <1>4 DEF TallyOf
  <2>4. RunItems(ViewOf(r))' = RunItems(ViewOf(r))
    BY <2>1 DEF RunItems
  <2> QED
    BY <1>3, <1>4, <1>5, <2>1, <2>2, <2>3, <2>4 DEF SoleRun, Closed
<1>6. CASE run' = run
  BY <1>3, <1>4, <1>6, SoleRunStays, StoppedWorker DEF RowsStay
<1>7. CASE FailReconciliation(w) /\ run' # run
  <2>1. run'[r].status = "failed" /\ run'[r].stamp = run[r].stamp
    BY <1>3, <1>7 DEF FailReconciliation
  <2> QED
    BY <1>3, <1>4, <1>5, <2>1, StoppedWorker
<1>8. CASE CloseRun(w) /\ run' # run
  <2>1. run[r].status = "reconciling" /\ worker[w].pc = "close"
    BY <1>8 DEF CloseRun, At
  <2>2. run' = [run EXCEPT ![r].status = Verdict(worker[w].tally),
                           ![r].tally = worker[w].tally]
    BY <1>8, <2>1 DEF CloseRun
  <2>3. Verdict(worker[w].tally) \in Closed
    BY DEF Verdict, Closed
  <2>4. /\ run'[r].status \in Closed /\ run'[r].stamp = run[r].stamp
        /\ run'[r].tally = TallyOf(item[r])
    BY <1>3, <2>1, <2>2, <2>3
  <2>5. Decided(r)
    BY <1>3, <2>1 DEF SoleRun
  <2> QED
    BY <1>3, <1>4, <1>5, <2>4, <2>5, StoppedWorker
<1> QED
  BY <1>6, <1>7, <1>8
LEMMA ReserveSole ==
  ASSUME RunInv, SoleInv, NEW w \in Workers, NEW r \in Runs, r = MyRun(w),
         ReservePublishedAt(w)
  PROVE  SoleWorker(w)' /\ SoleRun(r)'
<1>1. worker[w].pc = "reserve"
  BY DEF ReservePublishedAt, At
<1>2. worker[w].pc \in FinalizerSteps /\ worker[w].pc \in AfterRead
      /\ worker[w].pc \in Gated
  BY <1>1 DEF FinalizerSteps, AfterRead, Gated
<1>3. /\ TypeInv /\ worker \in [Workers -> WorkerState] /\ SoleRun(r)
      /\ worker[w] \in WorkerState /\ worker[w].pos # 0
      /\ run \in [Runs -> [status : RunStatus, config : Configs \cup {None},
                           tally : Tally, stamp : Stamps \cup {None}]]
      /\ run[r].status \in {"reconciling", "failed"}
      /\ worker[w].view = ViewOf(r) /\ RunItems(worker[w].view) = Planned
      /\ worker[w].tally = TallyOf(item[r])
  BY <1>1, <1>2, FinalizerKnows
<1>4. UNCHANGED <<item, quality, published, manifestRow>>
  BY DEF ReservePublishedAt, objects
<1>5. PICK now \in Stamps :
        /\ run' = [run EXCEPT ![r].stamp = ReservedStamp(r, now)]
        /\ worker' = [worker EXCEPT ![w].pc = "publish",
                                    ![w].stamp = ReservedStamp(r, now)]
  BY DEF ReservePublishedAt
<1>6. /\ run'[r].status = run[r].status /\ run'[r].tally = run[r].tally
      /\ run'[r].stamp = ReservedStamp(r, now)
  BY <1>3, <1>5
<1>7. /\ worker'[w].pc = "publish" /\ MyRun(w)' = r
      /\ worker'[w].pos = worker[w].pos /\ worker'[w].view = worker[w].view
      /\ worker'[w].tally = worker[w].tally
      /\ worker'[w].stamp = ReservedStamp(r, now)
  BY <1>3, <1>5 DEF WorkerState, MyRun
<1>8. SoleWorker(w)'
  <2>1. ViewOf(r) = [items |-> item'[r], quality |-> quality'[r]]
    BY <1>4 DEF ViewOf
  <2>2. worker'[w].tally = TallyOf(item'[r])
    BY <1>3, <1>4, <1>7
  <2> QED
    BY <1>3, <1>6, <1>7, <2>1, <2>2, FinalizerGoesOn
       DEF FinalizerSteps, AfterRead, Gated
<1>9. SoleRun(r)'
  <2>1. ViewOf(r)' = ViewOf(r)
    BY <1>4 DEF ViewOf
  <2>2. Decided(r)' = Decided(r)
    BY <1>4 DEF Decided
  <2>3. TallyOf(item[r])' = TallyOf(item[r])
    BY <1>4 DEF TallyOf
  <2>4. RunItems(ViewOf(r))' = RunItems(ViewOf(r))
    BY <2>1 DEF RunItems
  <2>5. ASSUME NEW m \in published[r]
        PROVE  m = [view |-> ViewOf(r), publishedAt |-> run'[r].stamp]
    <3>1. m \in Manifest /\ m.publishedAt = run[r].stamp
          /\ m = [view |-> ViewOf(r), publishedAt |-> run[r].stamp]
      BY <1>3, <2>5 DEF SoleRun, TypeInv, TypeOK
    <3>2. run[r].stamp # None
      BY <3>1, ConstantsOK DEF Manifest, ConstantsAssumption
    <3> QED
      BY <1>6, <3>1, <3>2 DEF ReservedStamp
  <2> QED
    BY <1>3, <1>4, <1>6, <2>1, <2>2, <2>3, <2>4, <2>5 DEF SoleRun, Closed
<1> QED
  BY <1>8, <1>9

LEMMA PublishSole ==
  ASSUME RunInv, SoleInv, NEW w \in Workers, NEW r \in Runs, r = MyRun(w),
         PublishManifest(w)
  PROVE  SoleWorker(w)' /\ SoleRun(r)'
<1>1. worker[w].pc = "publish"
  BY DEF PublishManifest, At
<1>2. worker[w].pc \in FinalizerSteps /\ worker[w].pc \in AfterRead
      /\ worker[w].pc \in Gated
  BY <1>1 DEF FinalizerSteps, AfterRead, Gated
<1>3. /\ TypeInv /\ worker \in [Workers -> WorkerState] /\ SoleRun(r)
      /\ worker[w] \in WorkerState /\ worker[w].pos # 0
      /\ run[r].status \in {"reconciling", "failed"}
      /\ worker[w].view = ViewOf(r) /\ RunItems(worker[w].view) = Planned
      /\ worker[w].tally = TallyOf(item[r])
      /\ worker[w].stamp = run[r].stamp
  BY <1>1, <1>2, FinalizerKnows
<1>4. UNCHANGED <<run, item, quality, manifestRow>>
  BY DEF PublishManifest, ledgerRows
<1>5. published'[r] = published[r] \cup {MyManifest(w)}
  BY <1>3 DEF PublishManifest, TypeInv, TypeOK
<1>6. MyManifest(w) = [view |-> ViewOf(r), publishedAt |-> run[r].stamp]
  BY <1>3 DEF MyManifest
<1>7. /\ worker'[w].pc = "persist" /\ MyRun(w)' = r
      /\ worker'[w].pos = worker[w].pos /\ worker'[w].view = worker[w].view
      /\ worker'[w].tally = worker[w].tally
      /\ worker'[w].stamp = worker[w].stamp
  BY <1>3 DEF PublishManifest, Goto, WorkerState, MyRun
<1>8. ViewOf(r) = [items |-> item'[r], quality |-> quality'[r]]
  BY <1>4 DEF ViewOf
<1>9. SoleWorker(w)'
  <2>1. worker'[w].tally = TallyOf(item'[r])
    BY <1>3, <1>4, <1>7
  <2> QED
    BY <1>3, <1>4, <1>7, <1>8, <2>1, FinalizerGoesOn
       DEF FinalizerSteps, AfterRead, Gated
<1>10. SoleRun(r)'
  <2>1. ViewOf(r)' = ViewOf(r)
    BY <1>4 DEF ViewOf
  <2>2. Decided(r)' = Decided(r)
    BY <1>4 DEF Decided
  <2>3. TallyOf(item[r])' = TallyOf(item[r])
    BY <1>4 DEF TallyOf
  <2>4. RunItems(ViewOf(r))' = RunItems(ViewOf(r))
    BY <2>1 DEF RunItems
  <2> QED
    BY <1>3, <1>4, <1>5, <1>6, <2>1, <2>2, <2>3, <2>4 DEF SoleRun, Closed
<1> QED
  BY <1>9, <1>10

LEMMA PersistSole ==
  ASSUME RunInv, SoleInv, NEW w \in Workers, NEW r \in Runs, r = MyRun(w),
         PersistManifest(w)
  PROVE  SoleWorker(w)' /\ SoleRun(r)'
<1>1. worker[w].pc = "persist"
  BY DEF PersistManifest, At
<1>2. worker[w].pc \in FinalizerSteps /\ worker[w].pc \in AfterRead
      /\ worker[w].pc \in Gated
  BY <1>1 DEF FinalizerSteps, AfterRead, Gated
<1>3. /\ TypeInv /\ worker \in [Workers -> WorkerState] /\ SoleRun(r)
      /\ worker[w] \in WorkerState /\ worker[w].pos # 0
      /\ run[r].status \in {"reconciling", "failed"}
      /\ worker[w].view = ViewOf(r) /\ RunItems(worker[w].view) = Planned
      /\ worker[w].tally = TallyOf(item[r])
  BY <1>1, <1>2, FinalizerKnows
<1>4. UNCHANGED <<run, item, quality, published>>
  BY DEF PersistManifest, objects
<1>5. manifestRow'[r] =
        IF manifestRow[r] = None
        THEN [manifest |-> MyManifest(w), tally |-> worker[w].tally]
        ELSE manifestRow[r]
  BY <1>3 DEF PersistManifest, TypeInv, TypeOK
<1>6. SoleWorker(w)'
  <2>1. CASE Stop(w)
    BY <1>3, <2>1, StoppedWorker
  <2>2. CASE Goto(w, "close_summary")
    <3>1. /\ worker'[w].pc = "close_summary" /\ MyRun(w)' = r
          /\ worker'[w].pos = worker[w].pos
          /\ worker'[w].view = worker[w].view
      BY <1>3, <2>2 DEF Goto, WorkerState, MyRun
    <3>2. ViewOf(r) = [items |-> item'[r], quality |-> quality'[r]]
      BY <1>4 DEF ViewOf
    <3> QED
      BY <1>3, <1>4, <3>1, <3>2, FinalizerGoesOn
         DEF FinalizerSteps, AfterRead, Gated
  <2> QED
    BY <2>1, <2>2 DEF PersistManifest
<1>7. SoleRun(r)'
  <2>1. ViewOf(r)' = ViewOf(r)
    BY <1>4 DEF ViewOf
  <2>2. Decided(r)' = Decided(r)
    BY <1>4 DEF Decided
  <2>3. TallyOf(item[r])' = TallyOf(item[r])
    BY <1>4 DEF TallyOf
  <2>4. RunItems(ViewOf(r))' = RunItems(ViewOf(r))
    BY <2>1 DEF RunItems
  <2>5. manifestRow'[r] # None =>
          /\ manifestRow'[r].tally = TallyOf(item[r])
          /\ RunItems(ViewOf(r)) = Planned
    <3>1. CASE manifestRow[r] = None
      BY <1>3, <1>5, <3>1
    <3>2. CASE manifestRow[r] # None
      BY <1>3, <1>5, <3>2 DEF SoleRun
    <3> QED
      BY <3>1, <3>2
  <2> QED
    BY <1>3, <1>4, <2>1, <2>2, <2>3, <2>4, <2>5 DEF SoleRun, Closed
<1> QED
  BY <1>6, <1>7

-----------------------------------------------------------------------------
(* Every step of a sole worker keeps the invariant.                         *)
LEMMA StepSole ==
  ASSUME RunInv, ManifestInv, SoleInv, OneWorkerPerRun, NEW w \in Workers,
         Step(w)
  PROVE  SoleInv'
<1>1. worker[w].pc # "idle" /\ MyRun(w) \in Runs
  BY StepMovesWorker, WorkerFields DEF RunInv, OnlyWorkerMoves
<1>2. ASSUME NEW r \in Runs, r = MyRun(w) PROVE SoleWorker(w)' /\ SoleRun(r)'
  <2>1. CASE worker[w].pc \in ItemSteps
    BY <1>2, <2>1, ItemStepSole
  <2>2. CASE worker[w].pc \notin ItemSteps
    <3>1. ~( \/ EnsureItem(w) \/ FindReusable(w) \/ RecordReuse(w)
             \/ MarkReused(w) \/ MarkRunning(w) \/ Convert(w)
             \/ RegisterStructural(w) \/ RecordQa(w) \/ RecordFidelity(w)
             \/ MarkReview(w) \/ StoreText(w) \/ RegisterText(w)
             \/ MarkNormalized(w) \/ ItemFails(w))
      BY <2>2 DEF EnsureItem, FindReusable, RecordReuse, MarkReused,
         MarkRunning, Convert, RegisterStructural, RecordQa, RecordFidelity,
         MarkReview, StoreText, RegisterText, MarkNormalized, ItemFails, At,
         ItemSteps, Try
    <3> QED
      BY <1>2, <3>1, CheckpointSole, HandOverSole, ReadingSole, EndSole,
         ReserveSole, PublishSole, PersistSole
         DEF Step, ExecutorStep, FinalizerStep
  <2> QED
    BY <2>1, <2>2
<1>3. SoleWorker(w)' /\ \A r \in Runs : r = MyRun(w) => SoleRun(r)'
  BY <1>1, <1>2
<1> QED
  BY <1>3, OthersStay DEF SoleInv

LEMMA BeginSole ==
  ASSUME RunInv, ManifestInv, SoleInv, NEW w \in Workers,
         Begin(w) \/ Crash(w)
  PROVE  SoleInv'
<1>1. /\ worker \in [Workers -> WorkerState]
      /\ run \in [Runs -> [status : RunStatus, config : Configs \cup {None},
                           tally : Tally, stamp : Stamps \cup {None}]]
  BY DEF RunInv, TypeInv, TypeOK
<1>2. UNCHANGED <<item, quality, published, manifestRow>>
  BY DEF Begin, CreateRun, ResumeRun, RetryFinalizer, Crash, ledgerRows,
     objects
<1>3. /\ \A u \in Workers \ {w} : worker'[u] = worker[u]
      /\ \A r \in Runs :
           \/ run'[r] = run[r]
           \/ run[r].status = "absent" /\ run'[r].status = "running"
  BY BeginOrCrash DEF RunInv
<1>4. ASSUME NEW r \in Runs PROVE SoleRun(r)'
  <2>1. CASE run'[r] = run[r]
    BY <1>2, <2>1, SoleRunStays DEF SoleInv, RowsStay
  <2>2. CASE run[r].status = "absent" /\ run'[r].status = "running"
    <3>1. published[r] = {} /\ manifestRow[r] = None
      BY <2>2, RunningIsBlank DEF SoleInv
    <3> QED
      BY <1>2, <2>2, <3>1 DEF SoleRun, Closed
  <2> QED
    BY <1>3, <2>1, <2>2
<1>5. ASSUME NEW u \in Workers \ {w} PROVE SoleWorker(u)'
  <2>1. worker[u].pc # "idle" => RowsStay(MyRun(u))
    BY <1>2, <1>3, WorkerFields DEF RowsStay, RunInv, BusyRunsExist
  <2> QED
    BY <1>3, <2>1, SoleWorkerStays DEF SoleInv
<1>6. ASSUME NEW r \in Runs, NEW c \in Configs, run'[r].status = "running",
             worker' = [worker EXCEPT ![w] =
               [IdleWorker EXCEPT !.pc = "checkpoint", !.run = r,
                                  !.config = c]]
      PROVE  SoleWorker(w)'
  <2>1. /\ worker'[w].pc = "checkpoint" /\ MyRun(w)' = r
        /\ worker'[w].pos = 1
    BY <1>1, <1>6 DEF IdleWorker, MyRun
  <2>2. Visited(w)'
    BY <2>1 DEF Visited
  <2>3. ExecutorOK(w)'
    BY <1>6, <2>1, <2>2 DEF ExecutorOK, ItemSteps, Try
  <2>4. FinalizerOK(w)'
    BY <2>1 DEF FinalizerOK, FinalizerSteps, AfterRead, Gated
  <2> QED
    BY <2>3, <2>4 DEF SoleWorker
<1>7. SoleWorker(w)'
  <2>1. CASE Crash(w)
    BY <2>1, StoppedWorker DEF Crash, RunInv
  <2>2. ASSUME NEW r \in Runs, NEW c \in Configs,
               CreateRun(w, r, c) \/ ResumeRun(w, r, c)
        PROVE  SoleWorker(w)'
    <3>1. run'[r].status = "running"
      BY <1>1, <2>2 DEF CreateRun, ResumeRun, ledgerRows
    <3> QED
      BY <1>6, <2>2, <3>1 DEF CreateRun, ResumeRun
  <2>3. ASSUME NEW r \in Runs, RetryFinalizer(w, r) PROVE SoleWorker(w)'
    <3>1. /\ worker'[w].pc = "read_state" /\ MyRun(w)' = r
          /\ worker'[w].pos # 0 /\ run'[r].status = "reconciling"
      BY <1>1, <2>3 DEF RetryFinalizer, IdleWorker, MyRun, ledgerRows
    <3> QED
      BY <3>1, FinalizerGoesOn DEF FinalizerSteps, AfterRead, Gated
  <2> QED
    BY <2>1, <2>2, <2>3 DEF Begin
<1> QED
  BY <1>4, <1>5, <1>7 DEF SoleInv

LEMMA SoleInvStep ==
  ASSUME RunInv, ManifestInv, SoleInv, OneWorkerPerRun, [Next]_vars
  PROVE  SoleInv'
<1>1. ASSUME UNCHANGED <<run, item, quality, published, manifestRow, worker>>
      PROVE  SoleInv'
  BY <1>1, SoleRunStays, SoleWorkerStays DEF SoleInv, RowsStay
<1> QED
  BY <1>1, StepSole, BeginSole
     DEF Next, vars, RegisterSource, ledgerRows, objects

LEMMA InitSole == Init => SoleInv
<1> SUFFICES ASSUME Init PROVE SoleInv
  OBVIOUS
<1>1. \A w \in Workers : SoleWorker(w)
  BY DEF Init, SoleWorker, IdleWorker
<1>2. \A r \in Runs : SoleRun(r)
  BY DEF Init, SoleRun, Closed
<1> QED
  BY <1>1, <1>2 DEF SoleInv

(* The invariants every theorem below rests on.                             *)
LEMMA SoleInvAlways ==
  Spec /\ []OneWorkerPerRun => [](RunInv /\ ManifestInv /\ SoleInv)
<1>1. Init => ManifestInv
  BY DEF Init, ManifestInv, IdleWorker, At, Closed
<1>2. RunInv /\ ManifestInv /\ [Next]_vars => ManifestInv'
  BY ManifestInvStep
<1>3. RunInv /\ ManifestInv /\ SoleInv /\ OneWorkerPerRun /\ [Next]_vars
        => SoleInv'
  BY SoleInvStep
<1> QED
  BY <1>1, <1>2, <1>3, InitSole, RunInvInvariant, PTL DEF Spec

-----------------------------------------------------------------------------
(* A closed run is fully accounted for: manifest, row counts and ledger     *)
(* agree, although they were read by separate statements                    *)
(* (reconciliation_state, summarize_run twice).                             *)
THEOREM ClosedRunsAreAccounted ==
  Spec /\ []OneWorkerPerRun => []ClosedRunIsAccounted
<1>1. RunInv /\ ManifestInv /\ SoleInv => ClosedRunIsAccounted
  <2> SUFFICES ASSUME RunInv, ManifestInv, SoleInv, NEW r \in Runs,
                      run[r].status \in Closed
               PROVE  /\ manifestRow[r].manifest.view.items = item[r]
                      /\ RunItems(manifestRow[r].manifest.view) = Planned
                      /\ \A s \in Planned : item[r][s].status \in TerminalItem
                      /\ manifestRow[r].tally = TallyOf(item[r])
                      /\ run[r].tally = manifestRow[r].tally
    BY DEF ClosedRunIsAccounted
  <2>1. /\ manifestRow[r] # None /\ SoleRun(r)
        /\ manifestRow[r].manifest \in published[r]
    BY DEF ManifestInv, SoleInv
  <2>2. manifestRow[r].manifest.view = ViewOf(r)
    BY <2>1 DEF SoleRun
  <2> QED
    BY <2>1, <2>2 DEF SoleRun, ViewOf, Decided
<1> QED
  BY <1>1, SoleInvAlways, PTL

(* However often a finalizer dies and is run again, it rebuilds the same    *)
(* bytes: a run never gets a second manifest object                         *)
(* (reserve_manifest_published_at, the sorted items, the content key).      *)
THEOREM RetriesRebuildTheManifest ==
  Spec /\ []OneWorkerPerRun => []OneManifestObject
<1>1. SoleInv => OneManifestObject
  BY DEF SoleInv, SoleRun, OneManifestObject
<1> QED
  BY <1>1, SoleInvAlways, PTL

(* Durable checkpoints: no step touches an item that has its verdict,       *)
(* through any number of deaths, resumes, duplicates in the plan and        *)
(* retried finalizers (execute's checkpoint test; _transition has none).    *)
THEOREM VerdictsAreFinal ==
  Spec /\ []OneWorkerPerRun => TerminalItemsStay
<1>1. ASSUME RunInv, SoleInv, [Next]_vars, NEW r \in Runs, NEW s \in Sources,
             item[r][s].status \in TerminalItem
      PROVE  item'[r][s] = item[r][s]
  <2>1. CASE item' = item
    BY <2>1
  <2>2. ASSUME NEW w \in Workers, Step(w), worker[w].pc \in ItemSteps
        PROVE  item'[r][s] = item[r][s]
    <3>1. CASE r # MyRun(w)
      BY <1>1, <2>2, <3>1, StepChangesOwnRows DEF RunInv, OwnRowsChange
    <3>2. CASE r = MyRun(w)
      <4>1. ExecutorOK(w) /\ ItemStep(w)
        BY <1>1, <2>2, ItemStepEffect
           DEF RunInv, SoleInv, SoleWorker, ItemSteps, Try
      <4>2. s # Current(w)
        BY <1>1, <2>2, <3>2, <4>1 DEF ExecutorOK, MyItem
      <4> QED
        BY <3>2, <4>1, <4>2 DEF ItemStep
    <3> QED
      BY <3>1, <3>2
  <2>3. \/ item' = item
        \/ \E w \in Workers : Step(w) /\ worker[w].pc \in ItemSteps
    BY <1>1, ItemsAndQuality, BeginOrCrash
       DEF RunInv, Next, vars, RegisterSource, ledgerRows
  <2> QED
    BY <2>1, <2>2, <2>3
<1>2. RunInv /\ SoleInv /\ [Next]_vars =>
        [\A r \in Runs, s \in Sources :
           item[r][s].status \in TerminalItem =>
             item'[r][s] = item[r][s]]_item
  BY <1>1
<1> QED
  BY <1>2, SoleInvAlways, PTL DEF Spec, TerminalItemsStay

-----------------------------------------------------------------------------
(* The control plane implements the promise.  Each step of the worker opens, *)
(* seals, records, closes or fails its run, decides the source it is on, or *)
(* does nothing the reader of a run could see.                              *)
LEMMA DecisionTypes ==
  /\ None \notin [status : TerminalItem, artifact : Artifacts \cup {None}]
  /\ \A items \in [Sources -> Item] : VerdictOf(items) # None
  /\ \A items \in [Sources -> Item], s \in Sources :
       VerdictOf(items)[s] =
         IF items[s].status \in TerminalItem THEN items[s] ELSE None
<1>1. \A items \in [Sources -> Item] :
        VerdictOf(items) \in [Sources -> Item \cup {None}]
  BY DEF VerdictOf
<1>2. [status : TerminalItem, artifact : Artifacts \cup {None}] \subseteq Item
  BY DEF Item, TerminalItem, ItemStatus
<1> QED
  BY <1>1, <1>2, NoneIsNoDecision DEF VerdictOf

LEMMA Phases ==
  /\ PhaseOf("absent") = "absent" /\ PhaseOf("running") = "open"
  /\ PhaseOf("reconciling") = "sealed" /\ PhaseOf("failed") = "failed"
  /\ \A st \in Closed : PhaseOf(st) = "closed"
  BY DEF PhaseOf, Closed

(* A step on the run's row alone, and one that changes nothing visible.     *)
LEMMA PhaseStep ==
  ASSUME NEW r \in Runs, UNCHANGED <<item, manifestRow>>,
         \A q \in Runs \ {r} : run'[q] = run[q]
  PROVE  /\ phase' = [phase EXCEPT ![r] = PhaseOf(run'[r].status)]
         /\ phase[r] = PhaseOf(run[r].status)
         /\ UNCHANGED <<verdict, record>>
         /\ run'[r].status = run[r].status => phase' = phase
  BY DEF phase, verdict, record

LEMMA OpenOrEnd ==
  ASSUME NEW r \in Runs, UNCHANGED <<item, manifestRow>>,
         \A q \in Runs \ {r} : run'[q] = run[q],
         \/ run'[r].status = run[r].status
         \/ run[r].status = "absent" /\ run'[r].status = "running"
         \/ run[r].status \in {"running", "reconciling"}
            /\ run'[r].status = "failed"
         \/ run[r].status = "running" /\ run'[r].status = "reconciling"
            /\ \A s \in Planned : verdict[r][s] # None
         \/ run[r].status = "reconciling" /\ run'[r].status \in Closed
            /\ record[r] # None
  PROVE  Promise!Next \/ UNCHANGED <<phase, verdict, record>>
<1>1. /\ phase' = [phase EXCEPT ![r] = PhaseOf(run'[r].status)]
      /\ phase[r] = PhaseOf(run[r].status)
      /\ UNCHANGED <<verdict, record>>
      /\ run'[r].status = run[r].status => phase' = phase
  BY PhaseStep
<1>2. CASE run'[r].status = run[r].status
  BY <1>1, <1>2
<1>3. CASE run[r].status = "absent" /\ run'[r].status = "running"
  BY <1>1, <1>3, Phases DEF Promise!Open, Promise!Next
<1>4. CASE run[r].status \in {"running", "reconciling"}
           /\ run'[r].status = "failed"
  BY <1>1, <1>4, Phases DEF Promise!Fail, Promise!Next
<1>5. CASE run[r].status = "running" /\ run'[r].status = "reconciling"
           /\ \A s \in Planned : verdict[r][s] # None
  BY <1>1, <1>5, Phases DEF Promise!Seal, Promise!AllDecided, Promise!Next
<1>6. CASE run[r].status = "reconciling" /\ run'[r].status \in Closed
           /\ record[r] # None
  BY <1>1, <1>6, Phases DEF Promise!Close, Promise!Next
<1> QED
  BY <1>2, <1>3, <1>4, <1>5, <1>6

LEMMA ItemStepKeepsPromise ==
  ASSUME RunInv, TypeInv', SoleInv, NEW w \in Workers, Step(w),
         worker[w].pc \in ItemSteps
  PROVE  Promise!Next \/ UNCHANGED <<phase, verdict, record>>
<1> DEFINE r == MyRun(w)
           s == Current(w)
<1>1. /\ ItemStep(w) /\ ExecutorOK(w) /\ r \in Runs /\ s \in Sources
      /\ worker[w].pos \in Nat
  BY ItemStepEffect, WorkerFields
     DEF RunInv, SoleInv, SoleWorker, ItemSteps, Try, WorkerState
<1>2. /\ run[r].status = "running" /\ item[r][s].status \notin TerminalItem
      /\ worker[w].pos # 0 /\ worker[w].pos <= Len(Plan)
  BY <1>1 DEF ExecutorOK, ExecutorSteps, MyItem
<1>3. s \in Planned
  <2>1. worker[w].pos \in 1 .. Len(Plan)
    BY <1>1, <1>2, ConstantsOK DEF ConstantsAssumption
  <2> QED
    BY <1>1, <2>1, PlannedSources DEF Current
<1>4. /\ UNCHANGED <<run, manifestRow>>
      /\ \A q \in Sources \ {s} : item'[r][q] = item[r][q]
      /\ \A q \in Runs \ {r} : item'[q] = item[q]
  BY <1>1, StepChangesOwnRows DEF ItemStep, RunInv, OwnRowsChange
<1>5. UNCHANGED <<phase, record>>
  BY <1>4 DEF phase, record
<1> HIDE DEF r, s
<1>6. CASE item'[r][s].status \notin TerminalItem
  <2>1. \A q \in Runs : VerdictOf(item'[q]) = VerdictOf(item[q])
    BY <1>2, <1>4, <1>6 DEF VerdictOf
  <2> QED
    BY <1>5, <2>1 DEF verdict
<1>7. CASE item'[r][s].status \in TerminalItem
  <2>1. item'[r][s] \in [status : TerminalItem, artifact : Artifacts \cup {None}]
    BY <1>1, <1>7 DEF TypeInv, TypeOK, Item
  <2>2. phase[r] = "open" /\ verdict[r][s] = None
    BY <1>1, <1>2, Phases DEF phase, verdict, VerdictOf
  <2>3. VerdictOf(item'[r]) = [VerdictOf(item[r]) EXCEPT ![s] = item'[r][s]]
    BY <1>1, <1>4, <1>7 DEF VerdictOf
  <2>4. verdict' = [verdict EXCEPT ![r][s] = item'[r][s]]
    BY <1>1, <1>4, <2>3 DEF verdict
  <2>5. Promise!Decide(r, s, item'[r][s])
    BY <1>5, <2>2, <2>4 DEF Promise!Decide
  <2> QED
    BY <1>1, <1>3, <2>1, <2>5 DEF Promise!Next
<1> QED
  BY <1>6, <1>7

LEMMA PersistKeepsPromise ==
  ASSUME RunInv, SoleInv, NEW w \in Workers, PersistManifest(w)
  PROVE  Promise!Next \/ UNCHANGED <<phase, verdict, record>>
<1> DEFINE r == MyRun(w)
<1>1. worker[w].pc = "persist" /\ TypeInv
  BY DEF PersistManifest, At, RunInv
<1>2. r \in Runs /\ MyManifest(w) \in Manifest /\ worker[w].tally \in Tally
  BY <1>1, WorkerFields, MyManifestType
<1>3. /\ run[r].status \in {"reconciling", "failed"}
      /\ worker[w].view = ViewOf(r)
  BY <1>1, <1>2, FinalizerKnows DEF FinalizerSteps, AfterRead, Gated
<1> DEFINE row == [manifest |-> MyManifest(w), tally |-> worker[w].tally]
<1>4. row # None
  BY <1>2, ConstantsOK DEF ManifestRow
<1>5. RecordOf(row) = verdict[r]
  BY <1>2, <1>3, <1>4 DEF RecordOf, verdict, MyManifest, ViewOf
<1>6. /\ UNCHANGED <<run, item>>
      /\ manifestRow' = [manifestRow EXCEPT
           ![r] = IF manifestRow[r] = None THEN row ELSE manifestRow[r]]
      /\ manifestRow \in [Runs -> ManifestRow \cup {None}]
  BY <1>1 DEF PersistManifest, TypeInv, TypeOK
<1>7. UNCHANGED <<phase, verdict>>
  BY <1>6 DEF phase, verdict
<1> HIDE DEF row, r
<1>8. CASE manifestRow[r] # None
  BY <1>2, <1>6, <1>7, <1>8 DEF record
<1>9. CASE manifestRow[r] = None
  <2>1. record[r] = None /\ record' = [record EXCEPT ![r] = verdict[r]]
    BY <1>2, <1>5, <1>6, <1>9 DEF record, RecordOf
  <2>2. phase[r] \in {"sealed", "failed"}
    BY <1>2, <1>3, Phases DEF phase
  <2> QED
    BY <1>2, <1>7, <2>1, <2>2 DEF Promise!Record, Promise!Next
<1> QED
  BY <1>8, <1>9

(* Only mark_reconciling seals a run.                                       *)
LEMMA StepSeals ==
  ASSUME TypeInv, NEW w \in Workers, Step(w), NEW r \in Runs, r = MyRun(w),
         run[r].status = "running", run'[r].status = "reconciling"
  PROVE  MarkReconciling(w)
<1>1. run \in [Runs -> [status : RunStatus, config : Configs \cup {None},
                        tally : Tally, stamp : Stamps \cup {None}]]
  BY DEF TypeInv, TypeOK
<1>2. run' # run
  OBVIOUS
<1>3. ~(FailRun(w) \/ FailReconciliation(w))
  BY <1>1 DEF FailRun, FailReconciliation
<1>4. ~CloseRun(w)
  BY DEF CloseRun
<1>5. ~ReservePublishedAt(w)
  <2> SUFFICES ASSUME ReservePublishedAt(w) PROVE FALSE
    OBVIOUS
  <2>1. PICK at : run' = [run EXCEPT ![r].stamp = at]
    BY DEF ReservePublishedAt
  <2> QED
    BY <1>1, <2>1
<1> QED
  BY <1>2, <1>3, <1>4, <1>5
     DEF Step, ExecutorStep, FinalizerStep, ledgerRows, SkipUnavailable,
         UnknownSource, Checkpoint, EnsureItem, FindReusable, RecordReuse,
         MarkReused, MarkRunning, Convert, RegisterStructural, RecordQa,
         MarkReview, StoreText, RegisterText, MarkNormalized, ItemFails,
         RecordFidelity, HandleError, LeaveForRetry, Summarize, ReadState,
         Reconcile, Compare, FinalizeSummary, PublishManifest,
         PersistManifest, CloseSummary

LEMMA RunRowKeepsPromise ==
  ASSUME RunInv, ManifestInv, SoleInv, NEW w \in Workers, Step(w),
         worker[w].pc \notin ItemSteps, UNCHANGED manifestRow
  PROVE  Promise!Next \/ UNCHANGED <<phase, verdict, record>>
<1>1. PICK r \in Runs : r = MyRun(w) /\ worker[w].pc # "idle"
  BY StepMovesWorker, WorkerFields DEF RunInv, OnlyWorkerMoves
<1>2. /\ UNCHANGED <<item, manifestRow>>
      /\ \A q \in Runs \ {r} : run'[q] = run[q]
      /\ item \in [Runs -> [Sources -> Item]]
      /\ manifestRow \in [Runs -> ManifestRow \cup {None}]
  BY <1>1, ItemsAndQuality, StepChangesOwnRows
     DEF RunInv, OwnRowsChange, TypeInv, TypeOK
<1>3. StatusMoves(run[r].status, run'[r].status)
  BY <1>1, StepMovesRunRow
<1>4. CASE run'[r].status = "reconciling" /\ run[r].status = "running"
  <2>1. MarkReconciling(w)
    BY <1>1, <1>4, StepSeals DEF RunInv
  <2>2. Decided(r) /\ Planned \subseteq Sources
    BY <1>1, <2>1, PlannedSources
       DEF MarkReconciling, At, SoleInv, SoleWorker, ExecutorOK
  <2>3. \A s \in Planned : verdict[r][s] # None
    BY <1>2, <2>2, DecisionTypes, NoneIsNoDecision DEF Decided, verdict
  <2> QED
    BY <1>2, <1>4, <2>3, OpenOrEnd
<1>5. CASE run'[r].status \in Closed /\ run[r].status = "reconciling"
  <2>1. At(w, "close")
    BY <1>1, <1>5, StepMovesRunRow DEF Closed
  <2>2. manifestRow[r] # None
    BY <1>1, <2>1 DEF ManifestInv, At
  <2>3. record[r] # None
    BY <1>2, <2>2, DecisionTypes
       DEF record, RecordOf, ManifestRow, Manifest, View
  <2> QED
    BY <1>2, <1>5, <2>3, OpenOrEnd
<1>6. CASE \/ run'[r].status = run[r].status
           \/ run'[r].status = "failed"
              /\ run[r].status \in {"running", "reconciling"}
  BY <1>2, <1>6, OpenOrEnd
<1> QED
  BY <1>3, <1>4, <1>5, <1>6 DEF StatusMoves
LEMMA NextKeepsPromise ==
  ASSUME RunInv, RunInv', ManifestInv, SoleInv, [Next]_vars
  PROVE  Promise!Next \/ UNCHANGED <<phase, verdict, record>>
<1>1. CASE UNCHANGED <<run, item, manifestRow>>
  BY <1>1 DEF phase, verdict, record
<1>2. ASSUME NEW w \in Workers, Step(w)
      PROVE  Promise!Next \/ UNCHANGED <<phase, verdict, record>>
  BY <1>2, ItemStepKeepsPromise, PersistKeepsPromise, RunRowKeepsPromise,
     ManifestRowStep DEF RunInv, ItemSteps, Try, PersistManifest, At
<1>3. ASSUME NEW w \in Workers, NEW r \in Runs, NEW c \in Configs,
             CreateRun(w, r, c)
      PROVE  Promise!Next \/ UNCHANGED <<phase, verdict, record>>
  <2>1. /\ run[r].status = "absent" /\ run'[r].status = "running"
        /\ \A q \in Runs \ {r} : run'[q] = run[q]
        /\ UNCHANGED <<item, manifestRow>>
    BY <1>3 DEF CreateRun, RunInv, TypeInv, TypeOK
  <2> QED
    BY <2>1, OpenOrEnd
<1> QED
  BY <1>1, <1>2, <1>3
     DEF Next, Begin, ResumeRun, RetryFinalizer, Crash, RegisterSource, vars,
         ledgerRows

(* What a run promises its readers holds of the executor and the finalizer, *)
(* through any number of deaths, resumes and retries, while no two workers  *)
(* are on the same run (the whole of execute and finalize against           *)
(* NormalizationPromise).                                                   *)
THEOREM PromiseIsKept ==
  Spec /\ []OneWorkerPerRun => PromiseKept
<1>1. Init => Promise!Init
  <2> SUFFICES ASSUME Init PROVE Promise!Init
    OBVIOUS
  <2>1. phase = [r \in Runs |-> "absent"]
    BY Phases DEF Init, phase
  <2>2. verdict = [r \in Runs |-> [s \in Sources |-> None]]
    BY DEF Init, verdict, VerdictOf, NoView, TerminalItem
  <2>3. record = [r \in Runs |-> None]
    BY DEF Init, record, RecordOf
  <2> QED
    BY <2>1, <2>2, <2>3 DEF Promise!Init
<1>2. /\ RunInv /\ ManifestInv /\ SoleInv
      /\ (RunInv /\ ManifestInv /\ SoleInv)'
      /\ [Next]_vars
      => [Promise!Next]_(Promise!vars)
  BY NextKeepsPromise DEF Promise!vars
<1> QED
  BY <1>1, <1>2, SoleInvAlways, PTL DEF Spec, PromiseKept, Promise!Spec

(* With one worker process there is nothing to assume: deaths, resumes and  *)
(* retried finalizers never put a second worker on a run.                   *)
THEOREM OneWorkerKeepsEverything ==
  ASSUME \A w, u \in Workers : w = u
  PROVE  /\ Spec => []ClosedRunIsAccounted
         /\ Spec => []OneManifestObject
         /\ Spec => TerminalItemsStay
         /\ Spec => PromiseKept
<1>1. OneWorkerPerRun
  BY DEF OneWorkerPerRun
<1>2. []OneWorkerPerRun
  BY <1>1, PTL
<1> QED
  BY <1>2, ClosedRunsAreAccounted, RetriesRebuildTheManifest,
     VerdictsAreFinal, PromiseIsKept, PTL
-----------------------------------------------------------------------------
(* What the promise itself says, and so the control plane.                  *)
LEMMA PromiseConstants == Promise!PromiseAssumption
<1>1. [status : TerminalItem, artifact : Artifacts \cup {None}] \subseteq Item
  BY DEF Item, TerminalItem, ItemStatus
<1> QED
  BY <1>1, PlannedSources, NoneIsNoDecision DEF Promise!PromiseAssumption

(* Nothing is decided once the run has left the open phase: a run with a    *)
(* record is sealed, closed or failed, and unless it failed it left that    *)
(* phase with every source decided.                                         *)
RecordedRunIsOver ==
  \A r \in Runs :
    record[r] # None => phase[r] \in {"sealed", "closed", "failed"}
SealedIsDecided ==
  \A r \in Runs : phase[r] \in {"sealed", "closed"} => Promise!AllDecided(r)

PromiseInv ==
  /\ Promise!TypeOK /\ RecordedRunIsOver /\ SealedIsDecided
  /\ Promise!RecordIsFinal /\ Promise!ClosedHasRecord

LEMMA PromiseInvInductive ==
  /\ Promise!Init => PromiseInv
  /\ PromiseInv /\ [Promise!Next]_(Promise!vars) => PromiseInv'
<1> USE PromiseConstants
    DEF Promise!PromiseAssumption, Promise!TypeOK, Promise!Phases,
        Promise!Decisions, RecordedRunIsOver, SealedIsDecided,
        Promise!RecordIsFinal, Promise!ClosedHasRecord, Promise!AllDecided
<1>1. Promise!Init => PromiseInv
  BY DEF Promise!Init, PromiseInv
<1>2. ASSUME PromiseInv, [Promise!Next]_(Promise!vars) PROVE PromiseInv'
  <2> USE <1>2 DEF PromiseInv
  <2>1. ASSUME NEW r \in Runs, Promise!Open(r) PROVE PromiseInv'
    BY <2>1 DEF Promise!Open
  <2>2. ASSUME NEW r \in Runs, NEW s \in Planned,
               NEW v \in [status : TerminalItem,
                          artifact : Artifacts \cup {None}],
               Promise!Decide(r, s, v)
        PROVE  PromiseInv'
    BY <2>2 DEF Promise!Decide
  <2>3. ASSUME NEW r \in Runs, Promise!Seal(r) PROVE PromiseInv'
    BY <2>3 DEF Promise!Seal
  <2>4. ASSUME NEW r \in Runs, Promise!Record(r) PROVE PromiseInv'
    BY <2>4 DEF Promise!Record
  <2>5. ASSUME NEW r \in Runs, Promise!Close(r) PROVE PromiseInv'
    BY <2>5 DEF Promise!Close
  <2>6. ASSUME NEW r \in Runs, Promise!Fail(r) PROVE PromiseInv'
    BY <2>6 DEF Promise!Fail
  <2>7. CASE UNCHANGED Promise!vars
    BY <2>7 DEF Promise!vars
  <2> QED
    BY <2>1, <2>2, <2>3, <2>4, <2>5, <2>6, <2>7 DEF Promise!Next
<1> QED
  BY <1>1, <1>2

(* Once a run is recorded its record is what was decided, for good, and     *)
(* complete unless the run failed (manifest row against items).             *)
THEOREM RecordStaysFinal == Promise!Spec => []Promise!RecordIsFinal
<1>1. PromiseInv => Promise!RecordIsFinal
  BY DEF PromiseInv
<1> QED
  BY <1>1, PromiseInvInductive, PTL DEF Promise!Spec

(* No run is closed without its record (close_run after persist_manifest).  *)
THEOREM ClosedRunsAreRecorded == Promise!Spec => []Promise!ClosedHasRecord
<1>1. PromiseInv => Promise!ClosedHasRecord
  BY DEF PromiseInv
<1> QED
  BY <1>1, PromiseInvInductive, PTL DEF Promise!Spec

(* So the manifest row of a run, whatever happened to its workers, is what  *)
(* its items say and stays so, although _transition writes items without    *)
(* looking at the run (persist_manifest, _transition).                      *)
THEOREM ManifestsMatchTheLedger ==
  Spec /\ []OneWorkerPerRun => []Promise!RecordIsFinal
  BY PromiseIsKept, RecordStaysFinal, PTL DEF PromiseKept
=============================================================================
