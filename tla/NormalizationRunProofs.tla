------------------------- MODULE NormalizationRunProofs -------------------------
(***************************************************************************)
(* The normalization control plane, for any number of workers, runs,       *)
(* sources, plans and bounds: types; what a step may change; the manifest  *)
(* gate; and the lineage, cleanliness and completeness of evidence.        *)
(***************************************************************************)
EXTENDS NormalizationRun, FiniteSetTheorems, TLAPS

-----------------------------------------------------------------------------
(* Types, and what a worker holds at each step.                            *)

(* The steps execute takes for one plan item, and what a worker holds in   *)
(* them.                                                                   *)
ItemSteps == Try \cup {"ensure_item", "find_reusable", "record_reuse",
                       "mark_reused", "mark_running"}
HoldingCandidate == {"register_structural", "record_qa", "record_fidelity",
                     "mark_review", "store_text", "register_text"}
HoldingEvidence == {"record_reuse", "mark_reused", "mark_normalized"}

WorkerOK(v) ==
  /\ v.pc # "idle" => v.run \in Runs /\ v.config \in Configs
  /\ v.pc \in ItemSteps => Plan[v.pos] \in Sources
  /\ v.pc \in HoldingCandidate => v.held \in StructuralArtifacts
  /\ v.pc \in HoldingEvidence => v.held \in ResolvedArtifacts
  /\ v.pc \in {"publish", "persist"} => v.stamp \in Stamps

WorkersOK == \A w \in Workers : WorkerOK(worker[w])

(* An open run has a pipeline identity.                                    *)
OpenRunHasConfig ==
  \A r \in Runs : run[r].status \in {"running", "reconciling"} =>
                    run[r].config \in Configs

TypeInv == TypeOK /\ WorkersOK /\ OpenRunHasConfig

-----------------------------------------------------------------------------
LEMMA TallyType ==
  ASSUME NEW items \in [Sources -> Item]
  PROVE  TallyOf(items) \in Tally
<1>1. ASSUME NEW st \in ItemStatus
      PROVE  Cardinality({s \in Sources : items[s].status = st}) \in Nat
  <2>1. IsFiniteSet({s \in Sources : items[s].status = st})
    BY ConstantsOK, FS_Subset DEF ConstantsAssumption
  <2> QED
    BY <2>1, FS_CardinalityType
<1> QED
  BY <1>1 DEF TallyOf, Tally

LEMMA NoViewType == NoView \in View /\ NoTally \in Tally
  BY DEF NoView, NoTally, View, Tally, Item, ItemStatus

LEMMA IdleWorkerType == IdleWorker \in WorkerState /\ WorkerOK(IdleWorker)
  BY NoViewType
     DEF IdleWorker, WorkerState, WorkerOK, Steps, Try, ItemSteps,
         HoldingCandidate, HoldingEvidence

LEMMA InitType == Init => TypeInv
<1> SUFFICES ASSUME Init PROVE TypeInv
  OBVIOUS
<1>1. worker \in [Workers -> WorkerState] /\ WorkersOK
  BY IdleWorkerType DEF Init, WorkersOK
<1>2. run \in [Runs -> [status : RunStatus, config : Configs \cup {None},
                        tally : Tally, stamp : Stamps \cup {None}]]
  BY NoViewType DEF Init, RunStatus
<1>3. item \in [Runs -> [Sources -> Item]]
  BY NoViewType DEF Init, View
<1>4. OpenRunHasConfig
  BY DEF Init, OpenRunHasConfig
<1> QED
  BY <1>1, <1>2, <1>3, <1>4, ConstantsOK
     DEF Init, TypeInv, TypeOK, ConstantsAssumption

LEMMA TransitionType ==
  ASSUME item \in [Runs -> [Sources -> Item]],
         NEW r \in Runs, NEW s \in Sources, NEW status \in ItemStatus,
         NEW artifact \in Artifacts \cup {None},
         Transition(r, s, status, artifact)
  PROVE  item' \in [Runs -> [Sources -> Item]]
<1> DEFINE new == [status |-> status,
                   artifact |-> IF artifact = None THEN item[r][s].artifact
                                ELSE artifact]
<1>1. new \in Item
  BY DEF Item
<1>2. item' = [item EXCEPT ![r] = [item[r] EXCEPT ![s] = new]]
  BY DEF Transition
<1> HIDE DEF new
<1> QED
  BY <1>1, <1>2

LEMMA GotoType ==
  ASSUME worker \in [Workers -> WorkerState], WorkersOK,
         NEW w \in Workers, NEW pc \in Steps, Goto(w, pc),
         WorkerOK([worker[w] EXCEPT !.pc = pc])
  PROVE  worker' \in [Workers -> WorkerState] /\ WorkersOK'
<1>1. worker' = [worker EXCEPT ![w] = [worker[w] EXCEPT !.pc = pc]]
  BY DEF Goto
<1>2. [worker[w] EXCEPT !.pc = pc] \in WorkerState
  BY DEF WorkerState
<1> QED
  BY <1>1, <1>2 DEF WorkersOK

LEMMA StopType ==
  ASSUME worker \in [Workers -> WorkerState], WorkersOK,
         NEW w \in Workers, Stop(w)
  PROVE  worker' \in [Workers -> WorkerState] /\ WorkersOK'
  BY IdleWorkerType DEF Stop, WorkersOK

(* A worker whose state becomes a good one.                                *)
LEMMA WorkerType ==
  ASSUME worker \in [Workers -> WorkerState], WorkersOK,
         NEW w \in Workers, NEW v \in WorkerState, WorkerOK(v),
         worker' = [worker EXCEPT ![w] = v]
  PROVE  worker' \in [Workers -> WorkerState] /\ WorkersOK'
  BY DEF WorkersOK

LEMMA NextItemType ==
  ASSUME worker \in [Workers -> WorkerState], WorkersOK,
         NEW w \in Workers, worker[w].pc # "idle", NextItem(w)
  PROVE  worker' \in [Workers -> WorkerState] /\ WorkersOK'
<1> DEFINE v == [worker[w] EXCEPT !.pc = "checkpoint", !.pos = @ + 1,
                                  !.held = None]
<1>1. v \in WorkerState
  <2>1. worker[w] \in WorkerState /\ "checkpoint" \in Steps
    BY DEF Steps
  <2>2. worker[w].pos + 1 \in Nat
    BY <2>1 DEF WorkerState
  <2> QED
    BY <2>1, <2>2 DEF WorkerState
<1>2. WorkerOK(v)
  <2>1. v.pc = "checkpoint" /\ v.run = worker[w].run
        /\ v.config = worker[w].config
    BY DEF WorkerState
  <2>2. worker[w].run \in Runs /\ worker[w].config \in Configs
    BY DEF WorkersOK, WorkerOK
  <2> HIDE DEF v
  <2> QED
    BY <2>1, <2>2 DEF WorkerOK, ItemSteps, Try, HoldingCandidate,
                      HoldingEvidence
<1>3. worker' = [worker EXCEPT ![w] = v]
  BY DEF NextItem
<1> HIDE DEF v
<1> QED
  BY <1>1, <1>2, <1>3, WorkerType

(* The fields of a busy worker's state, in one place.                      *)
LEMMA WorkerFields ==
  ASSUME TypeInv, NEW w \in Workers
  PROVE  /\ worker[w] \in WorkerState /\ WorkerOK(worker[w])
         /\ worker[w].pc # "idle" => MyRun(w) \in Runs
                                     /\ worker[w].config \in Configs
         /\ worker[w].pc \in ItemSteps => Current(w) \in Sources
         /\ worker[w].pc \in HoldingCandidate =>
              worker[w].held \in StructuralArtifacts
         /\ worker[w].pc \in HoldingEvidence =>
              worker[w].held \in ResolvedArtifacts
  BY DEF TypeInv, TypeOK, WorkersOK, WorkerOK, MyRun, Current

LEMMA BeginType ==
  ASSUME TypeInv, NEW w \in Workers, Begin(w)
  PROVE  TypeInv'
<1> USE DEF TypeInv
<1>1. ASSUME NEW r \in Runs, NEW c \in Configs, At(w, "idle"),
             worker' = [worker EXCEPT ![w] =
               [IdleWorker EXCEPT !.pc = "checkpoint", !.run = r,
                                  !.config = c]]
      PROVE  worker' \in [Workers -> WorkerState] /\ WorkersOK'
  <2> DEFINE v == [IdleWorker EXCEPT !.pc = "checkpoint", !.run = r,
                                     !.config = c]
  <2>1. v \in WorkerState /\ WorkerOK(v)
    BY NoViewType DEF IdleWorker, WorkerState, WorkerOK, Steps, Try, ItemSteps,
                      HoldingCandidate, HoldingEvidence
  <2> HIDE DEF v
  <2> QED
    BY <1>1, <2>1, WorkerType DEF TypeOK, v
<1>2. ASSUME NEW r \in Runs, NEW c \in Configs, CreateRun(w, r, c)
      PROVE  TypeInv'
  <2>1. worker' \in [Workers -> WorkerState] /\ WorkersOK'
    BY <1>1, <1>2 DEF CreateRun
  <2>2. run' \in [Runs -> [status : RunStatus, config : Configs \cup {None},
                           tally : Tally, stamp : Stamps \cup {None}]]
    BY <1>2, NoViewType DEF CreateRun, TypeOK, RunStatus
  <2>3. OpenRunHasConfig'
    BY <1>2 DEF CreateRun, OpenRunHasConfig, TypeOK
  <2> QED
    BY <1>2, <2>1, <2>2, <2>3 DEF CreateRun, TypeOK, objects, environment
<1>3. ASSUME NEW r \in Runs, NEW c \in Configs, ResumeRun(w, r, c)
      PROVE  TypeInv'
  <2>1. worker' \in [Workers -> WorkerState] /\ WorkersOK'
    BY <1>1, <1>3 DEF ResumeRun
  <2> QED
    BY <1>3, <2>1 DEF ResumeRun, TypeOK, OpenRunHasConfig, ledgerRows,
                      objects, environment
<1>4. ASSUME NEW r \in Runs, RetryFinalizer(w, r)
      PROVE  TypeInv'
  <2> DEFINE v == [IdleWorker EXCEPT !.pc = "read_state", !.run = r,
                                     !.config = run[r].config]
  <2>1. run[r].config \in Configs
    BY <1>4 DEF RetryFinalizer, OpenRunHasConfig
  <2>2. v \in WorkerState /\ WorkerOK(v)
    BY <2>1, NoViewType
       DEF IdleWorker, WorkerState, WorkerOK, Steps, Try, ItemSteps,
           HoldingCandidate, HoldingEvidence
  <2>3. worker' = [worker EXCEPT ![w] = v]
    BY <1>4 DEF RetryFinalizer
  <2> HIDE DEF v
  <2>4. worker' \in [Workers -> WorkerState] /\ WorkersOK'
    BY <2>2, <2>3, WorkerType DEF TypeOK
  <2> QED
    BY <1>4, <2>4 DEF RetryFinalizer, TypeOK, OpenRunHasConfig, ledgerRows,
                      objects, environment
<1> QED
  BY <1>2, <1>3, <1>4 DEF Begin

(* Steps that only move the worker: its new state is of the right type.    *)
LEMMA MoveType ==
  ASSUME TypeInv, UNCHANGED <<ledgerRows, objects, environment>>,
         worker' \in [Workers -> WorkerState], WorkersOK'
  PROVE  TypeInv'
  BY DEF TypeInv, TypeOK, OpenRunHasConfig, ledgerRows, objects, environment

(* Steps that set one item of the worker's run besides.                    *)
LEMMA ItemStepType ==
  ASSUME TypeInv,
         UNCHANGED <<run, quality, locator, derivation, manifestRow, objects,
                     registered, crashes>>,
         retries' \in 0..MaxRetries,
         item' \in [Runs -> [Sources -> Item]],
         worker' \in [Workers -> WorkerState], WorkersOK'
  PROVE  TypeInv'
  BY DEF TypeInv, TypeOK, OpenRunHasConfig, objects

(* Going to a step that asks nothing more of the worker.                   *)
LEMMA GotoAnywhere ==
  ASSUME TypeInv, NEW w \in Workers, worker[w].pc # "idle",
         NEW pc \in Steps, Goto(w, pc),
         pc \in ItemSteps => Current(w) \in Sources,
         pc \in HoldingCandidate => worker[w].held \in StructuralArtifacts,
         pc \in HoldingEvidence => worker[w].held \in ResolvedArtifacts,
         pc \in {"publish", "persist"} => worker[w].stamp \in Stamps
  PROVE  worker' \in [Workers -> WorkerState] /\ WorkersOK'
<1> DEFINE v == [worker[w] EXCEPT !.pc = pc]
<1>1. worker[w] \in WorkerState /\ MyRun(w) \in Runs
      /\ worker[w].config \in Configs
  BY WorkerFields
<1>2. /\ v.pc = pc /\ v.run = MyRun(w) /\ v.config = worker[w].config
      /\ Plan[v.pos] = Current(w) /\ v.held = worker[w].held
      /\ v.stamp = worker[w].stamp
  BY <1>1 DEF WorkerState, MyRun, Current
<1> HIDE DEF v
<1>3. WorkerOK(v)
  BY <1>1, <1>2 DEF WorkerOK
<1> QED
  BY <1>3, GotoType DEF TypeInv, TypeOK, v

LEMMA SkipOrStopType ==
  ASSUME TypeInv, NEW w \in Workers,
         SkipUnavailable(w) \/ UnknownSource(w) \/ LeaveForRetry(w)
  PROVE  TypeInv'
<1>1. worker' \in [Workers -> WorkerState] /\ WorkersOK'
  BY NextItemType, StopType
     DEF SkipUnavailable, UnknownSource, LeaveForRetry, At, TypeInv, TypeOK
<1> QED
  BY <1>1, MoveType DEF SkipUnavailable, UnknownSource, LeaveForRetry

LEMMA CheckpointType ==
  ASSUME TypeInv, NEW w \in Workers, Checkpoint(w)
  PROVE  TypeInv'
<1>1. worker[w].pc # "idle" /\ Current(w) \in Sources
  BY DEF Checkpoint, At, TypeInv, TypeOK
<1>2. CASE NextItem(w)
  BY <1>1, <1>2, NextItemType, MoveType DEF Checkpoint, TypeInv, TypeOK
<1>3. CASE Goto(w, "ensure_item")
  <2>1. worker' \in [Workers -> WorkerState] /\ WorkersOK'
    BY <1>1, <1>3, GotoAnywhere
       DEF Steps, HoldingCandidate, HoldingEvidence
  <2> QED
    BY <2>1, MoveType DEF Checkpoint
<1> QED
  BY <1>2, <1>3 DEF Checkpoint

LEMMA EnsureItemType ==
  ASSUME TypeInv, NEW w \in Workers, EnsureItem(w)
  PROVE  TypeInv'
<1>1. /\ worker[w].pc = "ensure_item" /\ Current(w) \in Sources
      /\ MyRun(w) \in Runs
  BY WorkerFields DEF EnsureItem, At, ItemSteps
<1>2. worker' \in [Workers -> WorkerState] /\ WorkersOK'
  BY <1>1, GotoAnywhere DEF EnsureItem, Steps, HoldingCandidate,
                            HoldingEvidence
<1>3. item' \in [Runs -> [Sources -> Item]]
  BY <1>1, TransitionType DEF EnsureItem, TypeInv, TypeOK, ItemStatus
<1> QED
  BY <1>2, <1>3, ItemStepType
     DEF EnsureItem, objects, environment, TypeInv, TypeOK

LEMMA FindReusableType ==
  ASSUME TypeInv, NEW w \in Workers, FindReusable(w)
  PROVE  TypeInv'
<1>1. /\ worker[w].pc = "find_reusable" /\ Current(w) \in Sources
      /\ MyRun(w) \in Runs
      /\ worker[w] \in WorkerState /\ WorkerOK(worker[w])
  BY WorkerFields DEF FindReusable, At, ItemSteps
<1>2. CASE Goto(w, "mark_running")
  <2>1. worker' \in [Workers -> WorkerState] /\ WorkersOK'
    BY <1>1, <1>2, GotoAnywhere DEF Steps, HoldingCandidate, HoldingEvidence
  <2> QED
    BY <2>1, MoveType DEF FindReusable
<1>3. ASSUME NEW a \in ResolvedArtifacts,
             worker' = [worker EXCEPT ![w].pc = "record_reuse", ![w].held = a]
      PROVE  TypeInv'
  <2> DEFINE v == [worker[w] EXCEPT !.pc = "record_reuse", !.held = a]
  <2>1. v \in WorkerState
    BY <1>1 DEF WorkerState, Steps, Artifacts
  <2>2. WorkerOK(v)
    BY <1>1 DEF WorkerOK, WorkerState, MyRun, Current, HoldingCandidate
  <2>3. worker' = [worker EXCEPT ![w] = v]
    BY <1>3
  <2> HIDE DEF v
  <2> QED
    BY <2>1, <2>2, <2>3, WorkerType, MoveType
       DEF FindReusable, TypeInv, TypeOK
<1> QED
  BY <1>2, <1>3 DEF FindReusable, Reusable

(* Going to a step outside the plan's items, with anything else changed.   *)
LEMMA LeaveItemType ==
  ASSUME TypeInv, NEW w \in Workers, worker[w].pc # "idle",
         NEW v \in WorkerState, worker' = [worker EXCEPT ![w] = v],
         v.run = worker[w].run, v.config = worker[w].config,
         v.pc \notin ItemSteps,
         v.pc \in {"publish", "persist"} => v.stamp \in Stamps
  PROVE  worker' \in [Workers -> WorkerState] /\ WorkersOK'
<1>1. v.run \in Runs /\ v.config \in Configs
  BY WorkerFields DEF MyRun
<1>2. WorkerOK(v)
  BY <1>1 DEF WorkerOK, ItemSteps, Try, HoldingCandidate, HoldingEvidence
<1> QED
  BY <1>2, WorkerType DEF TypeInv, TypeOK

(* The worker leaves an item it has decided or given up.                   *)
LEMMA ItemDoneType ==
  ASSUME TypeInv, NEW w \in Workers, worker[w].pc # "idle",
         NEW pc \in {"checkpoint", "fail_run"}, NEW streak \in Nat,
         NEW deferred \in BOOLEAN,
         worker' = [worker EXCEPT
           ![w] = [worker[w] EXCEPT !.pc = pc, !.pos = worker[w].pos + 1,
                                    !.held = None, !.streak = streak,
                                    !.deferred = deferred]]
  PROVE  worker' \in [Workers -> WorkerState] /\ WorkersOK'
<1> DEFINE v == [worker[w] EXCEPT !.pc = pc, !.pos = worker[w].pos + 1,
                                  !.held = None, !.streak = streak,
                                  !.deferred = deferred]
<1>1. worker[w] \in WorkerState /\ pc \in Steps /\ pc \notin ItemSteps
      /\ pc \notin {"publish", "persist"}
  BY WorkerFields DEF Steps, ItemSteps, Try
<1>2. worker[w].pos + 1 \in Nat
  BY <1>1 DEF WorkerState
<1>3. v \in WorkerState
  BY <1>1, <1>2 DEF WorkerState
<1>4. /\ v.pc = pc /\ v.run = worker[w].run /\ v.config = worker[w].config
  BY <1>1 DEF WorkerState
<1> HIDE DEF v
<1> QED
  BY <1>1, <1>3, <1>4, LeaveItemType DEF v

LEMMA RecordReuseType ==
  ASSUME TypeInv, NEW w \in Workers, RecordReuse(w)
  PROVE  TypeInv'
<1>1. /\ worker[w].pc = "record_reuse" /\ Current(w) \in Sources
      /\ MyRun(w) \in Runs /\ worker[w].held \in ResolvedArtifacts
  BY WorkerFields DEF RecordReuse, At, ItemSteps, HoldingEvidence
<1>2. worker' \in [Workers -> WorkerState] /\ WorkersOK'
  BY <1>1, GotoAnywhere DEF RecordReuse, Steps, HoldingCandidate
<1>3. quality' \in [Runs -> SUBSET Sources]
  BY <1>1 DEF RecordReuse, TypeInv, TypeOK
<1> QED
  BY <1>2, <1>3 DEF RecordReuse, TypeInv, TypeOK, OpenRunHasConfig,
                    objects, environment

LEMMA MarkRunningType ==
  ASSUME TypeInv, NEW w \in Workers, MarkRunning(w)
  PROVE  TypeInv'
<1>1. /\ worker[w].pc = "mark_running" /\ Current(w) \in Sources
      /\ MyRun(w) \in Runs
  BY WorkerFields DEF MarkRunning, At, ItemSteps
<1>2. worker' \in [Workers -> WorkerState] /\ WorkersOK'
  BY <1>1, GotoAnywhere DEF MarkRunning, Steps, Try, HoldingCandidate,
                            HoldingEvidence
<1>3. item' \in [Runs -> [Sources -> Item]]
  BY <1>1, TransitionType DEF MarkRunning, TypeInv, TypeOK, ItemStatus
<1> QED
  BY <1>2, <1>3, ItemStepType
     DEF MarkRunning, objects, environment, TypeInv, TypeOK

(* The three ways an item gets its verdict in the happy path.              *)
LEMMA MarkType ==
  ASSUME TypeInv, NEW w \in Workers,
         MarkReused(w) \/ MarkReview(w) \/ MarkNormalized(w)
  PROVE  TypeInv'
<1>1. /\ worker[w].pc \in {"mark_reused", "mark_review", "mark_normalized"}
      /\ Current(w) \in Sources /\ MyRun(w) \in Runs
      /\ worker[w].held \in Artifacts /\ worker[w] \in WorkerState
  BY WorkerFields DEF MarkReused, MarkReview, MarkNormalized, At, ItemSteps,
                      Try, HoldingCandidate, HoldingEvidence, Artifacts
<1>2. item' \in [Runs -> [Sources -> Item]]
  BY <1>1, TransitionType
     DEF MarkReused, MarkReview, MarkNormalized, TypeInv, TypeOK, ItemStatus
<1>3. worker' \in [Workers -> WorkerState] /\ WorkersOK'
  <2>1. CASE MarkReused(w)
    BY <2>1, <1>1, NextItemType DEF MarkReused, TypeInv, TypeOK
  <2>2. CASE MarkReview(w) \/ MarkNormalized(w)
    <3>1. worker[w].deferred \in BOOLEAN /\ 0 \in Nat
      BY <1>1 DEF WorkerState
    <3>2. worker' = [worker EXCEPT
            ![w] = [worker[w] EXCEPT
                      !.pc = "checkpoint", !.pos = worker[w].pos + 1,
                      !.held = None, !.streak = 0,
                      !.deferred = worker[w].deferred]]
      BY <1>1, <2>2 DEF MarkReview, MarkNormalized, WorkerState, TypeInv,
                        TypeOK
    <3> QED
      BY <1>1, <3>1, <3>2, ItemDoneType
  <2> QED
    BY <2>1, <2>2
<1> QED
  BY <1>2, <1>3, ItemStepType
     DEF MarkReused, MarkReview, MarkNormalized, objects, environment, TypeInv,
         TypeOK

LEMMA ConvertType ==
  ASSUME TypeInv, NEW w \in Workers, Convert(w)
  PROVE  TypeInv'
<1>1. /\ worker[w].pc = "convert" /\ Current(w) \in Sources
      /\ MyRun(w) \in Runs /\ worker[w].config \in Configs
      /\ worker[w] \in WorkerState
  BY WorkerFields DEF Convert, At, ItemSteps, Try
<1>2. PICK t \in Conversions[Current(w)] :
        LET a == Structural(Current(w), t) IN
          /\ stored' = stored \cup {<<a, worker[w].config>>}
          /\ worker' = [worker EXCEPT ![w].pc = "register_structural",
                                      ![w].held = a]
  BY DEF Convert
<1> DEFINE a == Structural(Current(w), t)
           v == [worker[w] EXCEPT !.pc = "register_structural", !.held = a]
<1>3. a \in StructuralArtifacts /\ a \in Artifacts
  <2>1. t \in Texts
    BY <1>1, ConstantsOK DEF ConstantsAssumption
  <2> QED
    BY <1>1, <2>1 DEF Structural, StructuralArtifacts, Artifacts
<1> HIDE DEF a
<1>4. v \in WorkerState
  BY <1>1, <1>3 DEF WorkerState, Steps, Try
<1>5. WorkerOK(v)
  <2>1. /\ v.pc = "register_structural" /\ v.held = a
        /\ v.run = MyRun(w) /\ v.config = worker[w].config
        /\ Plan[v.pos] = Current(w)
    BY <1>1, <1>3 DEF WorkerState, MyRun, Current
  <2> HIDE DEF v
  <2> QED
    BY <1>1, <1>3, <2>1 DEF WorkerOK, HoldingEvidence
<1>6. worker' = [worker EXCEPT ![w] = v]
  BY <1>2 DEF a
<1> HIDE DEF v
<1>7. worker' \in [Workers -> WorkerState] /\ WorkersOK'
  BY <1>4, <1>5, <1>6, WorkerType DEF TypeInv, TypeOK
<1>8. stored' \subseteq Artifacts \X Configs
  BY <1>1, <1>2, <1>3 DEF a, TypeInv, TypeOK
<1> QED
  BY <1>7, <1>8 DEF Convert, TypeInv, TypeOK, OpenRunHasConfig,
                    ledgerRows, environment

LEMMA RegisterType ==
  ASSUME TypeInv, NEW parent \in Sources \cup Artifacts,
         NEW a \in Artifacts, NEW c \in Configs, Register(parent, a, c)
  PROVE  /\ locator' \in [Artifacts -> Configs \cup {None}]
         /\ derivation' \subseteq
              (Sources \cup Artifacts) \X Artifacts \X Configs
  BY DEF Register, TypeInv, TypeOK

LEMMA RegisterStructuralType ==
  ASSUME TypeInv, NEW w \in Workers, RegisterStructural(w)
  PROVE  TypeInv'
<1>1. /\ worker[w].pc = "register_structural" /\ Current(w) \in Sources
      /\ worker[w].config \in Configs
      /\ worker[w].held \in StructuralArtifacts
  BY WorkerFields DEF RegisterStructural, At, ItemSteps, Try, HoldingCandidate
<1>2. /\ locator' \in [Artifacts -> Configs \cup {None}]
      /\ derivation' \subseteq (Sources \cup Artifacts) \X Artifacts \X Configs
  BY <1>1, RegisterType DEF RegisterStructural, Artifacts
<1>3. worker' \in [Workers -> WorkerState] /\ WorkersOK'
  BY <1>1, GotoAnywhere DEF RegisterStructural, Steps, Try, HoldingEvidence
<1> QED
  BY <1>2, <1>3 DEF RegisterStructural, TypeInv, TypeOK, OpenRunHasConfig,
                    objects, environment

LEMMA RecordQaType ==
  ASSUME TypeInv, NEW w \in Workers, RecordQa(w)
  PROVE  TypeInv'
<1>1. /\ worker[w].pc = "record_qa" /\ Current(w) \in Sources
      /\ MyRun(w) \in Runs /\ worker[w].held \in StructuralArtifacts
  BY WorkerFields DEF RecordQa, At, ItemSteps, Try, HoldingCandidate
<1>2. PICK pc \in {"record_fidelity", "mark_review", "store_text"} :
        Goto(w, pc)
  BY DEF RecordQa
<1>3. worker' \in [Workers -> WorkerState] /\ WorkersOK'
  BY <1>1, <1>2, GotoAnywhere DEF Steps, Try, HoldingEvidence
<1>4. quality' \in [Runs -> SUBSET Sources]
  BY <1>1 DEF RecordQa, TypeInv, TypeOK
<1> QED
  BY <1>3, <1>4 DEF RecordQa, TypeInv, TypeOK, OpenRunHasConfig,
                    objects, environment

LEMMA StoreTextType ==
  ASSUME TypeInv, NEW w \in Workers, StoreText(w)
  PROVE  TypeInv'
<1>1. /\ worker[w].pc = "store_text" /\ Current(w) \in Sources
      /\ worker[w].config \in Configs
      /\ worker[w].held \in StructuralArtifacts
  BY WorkerFields DEF StoreText, At, ItemSteps, Try, HoldingCandidate
<1>2. Resolved(worker[w].held.text) \in Artifacts
  BY <1>1 DEF Resolved, StructuralArtifacts, ResolvedArtifacts, Artifacts
<1>3. stored' \subseteq Artifacts \X Configs
  BY <1>1, <1>2 DEF StoreText, TypeInv, TypeOK
<1>4. worker' \in [Workers -> WorkerState] /\ WorkersOK'
  BY <1>1, GotoAnywhere DEF StoreText, Steps, Try, HoldingEvidence
<1> QED
  BY <1>3, <1>4 DEF StoreText, TypeInv, TypeOK, OpenRunHasConfig,
                    ledgerRows, environment

LEMMA RegisterTextType ==
  ASSUME TypeInv, NEW w \in Workers, RegisterText(w)
  PROVE  TypeInv'
<1> DEFINE a == Resolved(worker[w].held.text)
           v == [worker[w] EXCEPT !.pc = "mark_normalized", !.held = a]
<1>1. /\ worker[w].pc = "register_text" /\ Current(w) \in Sources
      /\ MyRun(w) \in Runs /\ worker[w].config \in Configs
      /\ worker[w].held \in StructuralArtifacts /\ worker[w] \in WorkerState
  BY WorkerFields DEF RegisterText, At, ItemSteps, Try, HoldingCandidate
<1>2. a \in ResolvedArtifacts /\ a \in Artifacts
  BY <1>1 DEF Resolved, StructuralArtifacts, ResolvedArtifacts, Artifacts
<1>3. Register(worker[w].held, a, worker[w].config)
      /\ worker' = [worker EXCEPT ![w] = v]
  BY DEF RegisterText
<1> HIDE DEF a
<1>4. /\ locator' \in [Artifacts -> Configs \cup {None}]
      /\ derivation' \subseteq (Sources \cup Artifacts) \X Artifacts \X Configs
  BY <1>1, <1>2, <1>3, RegisterType DEF Artifacts
<1>5. v \in WorkerState
  BY <1>1, <1>2 DEF WorkerState, Steps, Try
<1>6. WorkerOK(v)
  <2>1. /\ v.pc = "mark_normalized" /\ v.held = a
        /\ v.run = MyRun(w) /\ v.config = worker[w].config
        /\ Plan[v.pos] = Current(w)
    BY <1>1, <1>2 DEF WorkerState, MyRun, Current
  <2> HIDE DEF v
  <2> QED
    BY <1>1, <1>2, <2>1 DEF WorkerOK, HoldingCandidate
<1> HIDE DEF v
<1>7. worker' \in [Workers -> WorkerState] /\ WorkersOK'
  BY <1>3, <1>5, <1>6, WorkerType DEF TypeInv, TypeOK
<1> QED
  BY <1>4, <1>7 DEF RegisterText, TypeInv, TypeOK, OpenRunHasConfig,
                    objects, environment

LEMMA HandleErrorType ==
  ASSUME TypeInv, NEW w \in Workers, worker[w].pc \in Try,
         NEW class, HandleError(w, class)
  PROVE  TypeInv'
<1>1. /\ Current(w) \in Sources /\ MyRun(w) \in Runs
      /\ worker[w] \in WorkerState /\ worker[w].pc # "idle"
  BY WorkerFields DEF ItemSteps, Try
<1>2. /\ worker[w].deferred \in BOOLEAN /\ worker[w].streak \in Nat
  BY <1>1 DEF WorkerState
<1>3. CASE HandleRetryable(w)
  <2>1. item' \in [Runs -> [Sources -> Item]]
    BY <1>1, <1>3, TransitionType DEF HandleRetryable, TypeInv, TypeOK,
                                      ItemStatus
  <2>2. worker' = [worker EXCEPT
          ![w] = [worker[w] EXCEPT
                    !.pc = "checkpoint", !.pos = worker[w].pos + 1,
                    !.held = None, !.streak = worker[w].streak,
                    !.deferred = TRUE]]
    BY <1>1, <1>3 DEF HandleRetryable, WorkerState, TypeInv, TypeOK
  <2>3. worker' \in [Workers -> WorkerState] /\ WorkersOK'
    BY <1>1, <1>2, <2>2, ItemDoneType
  <2>4. retries' \in 0..MaxRetries
    BY <1>3, ConstantsOK DEF HandleRetryable, TypeInv, TypeOK,
                             ConstantsAssumption
  <2> QED
    BY <2>1, <2>3, <2>4, ItemStepType DEF HandleError
<1>4. CASE HandleFailure(w, class)
  <2> DEFINE streak == worker[w].streak
                         + (IF class = "systemic" THEN 1 ELSE 0)
             pc == IF class = "systemic" /\ streak >= Threshold
                   THEN "fail_run" ELSE "checkpoint"
  <2>1. item' \in [Runs -> [Sources -> Item]]
    BY <1>1, <1>4, TransitionType DEF HandleFailure, TypeInv, TypeOK,
                                      ItemStatus
  <2>2. streak \in Nat /\ pc \in {"checkpoint", "fail_run"}
    BY <1>2
  <2>3. worker' = [worker EXCEPT
          ![w].pc = pc, ![w].pos = @ + 1, ![w].held = None,
          ![w].streak = streak]
    BY <1>4 DEF HandleFailure
  <2> HIDE DEF pc, streak
  <2>4. worker' = [worker EXCEPT
          ![w] = [worker[w] EXCEPT
                    !.pc = pc, !.pos = worker[w].pos + 1,
                    !.held = None, !.streak = streak,
                    !.deferred = worker[w].deferred]]
    BY <1>1, <2>3 DEF WorkerState, TypeInv, TypeOK
  <2>5. worker' \in [Workers -> WorkerState] /\ WorkersOK'
    BY <1>1, <1>2, <2>2, <2>4, ItemDoneType
  <2>6. retries' \in 0..MaxRetries
    BY <1>4 DEF HandleFailure, TypeInv, TypeOK
  <2> QED
    BY <2>1, <2>5, <2>6, ItemStepType DEF HandleError
<1> QED
  BY <1>3, <1>4 DEF HandleError

LEMMA ItemErrorType ==
  ASSUME TypeInv, NEW w \in Workers, ItemFails(w) \/ RecordFidelity(w)
  PROVE  TypeInv'
<1>1. worker[w].pc \in Try /\ \E class : HandleError(w, class)
  BY DEF ItemFails, RecordFidelity, At, Try
<1> QED
  BY <1>1, HandleErrorType

(* Steps that change only the run row and the worker.                      *)
LEMMA RunStepType ==
  ASSUME TypeInv, NEW r \in Runs, NEW new,
         new \in [status : RunStatus, config : {run[r].config},
                  tally : Tally, stamp : Stamps \cup {None}],
         new.status \in {"running", "reconciling"} =>
           run[r].status \in {"running", "reconciling"},
         run' = [run EXCEPT ![r] = new],
         UNCHANGED <<item, quality, locator, derivation, manifestRow,
                     objects, environment>>,
         worker' \in [Workers -> WorkerState], WorkersOK'
  PROVE  TypeInv'
<1>1. new \in [status : RunStatus, config : Configs \cup {None},
               tally : Tally, stamp : Stamps \cup {None}]
  BY DEF TypeInv, TypeOK
<1>2. run' \in [Runs -> [status : RunStatus, config : Configs \cup {None},
                         tally : Tally, stamp : Stamps \cup {None}]]
  BY <1>1 DEF TypeInv, TypeOK
<1>3. OpenRunHasConfig'
  BY DEF TypeInv, TypeOK, OpenRunHasConfig
<1> QED
  BY <1>2, <1>3 DEF TypeInv, TypeOK, objects, environment

LEMMA FailType ==
  ASSUME TypeInv, NEW w \in Workers, FailRun(w) \/ FailReconciliation(w)
  PROVE  TypeInv'
<1>1. /\ worker[w].pc # "idle" /\ MyRun(w) \in Runs
      /\ worker[w].pc \in {"fail_run", "fail_reconciliation"}
  BY WorkerFields DEF FailRun, FailReconciliation, At
<1>2. worker' \in [Workers -> WorkerState] /\ WorkersOK'
  <2>1. Stop(w) \/ Goto(w, "read_state")
    BY DEF FailRun, FailReconciliation
  <2>2. CASE Stop(w)
    BY <2>2, StopType DEF TypeInv, TypeOK
  <2>3. CASE Goto(w, "read_state")
    BY <1>1, <2>3, GotoAnywhere
       DEF Steps, ItemSteps, Try, HoldingCandidate, HoldingEvidence
  <2> QED
    BY <2>1, <2>2, <2>3
<1>3. CASE UNCHANGED run
  BY <1>2, <1>3 DEF FailRun, FailReconciliation, TypeInv, TypeOK,
                    OpenRunHasConfig, objects, environment
<1>4. CASE run' = [run EXCEPT ![MyRun(w)].status = "failed"]
  <2> DEFINE new == [run[MyRun(w)] EXCEPT !.status = "failed"]
  <2>1. new \in [status : RunStatus, config : {run[MyRun(w)].config},
                 tally : Tally, stamp : Stamps \cup {None}]
        /\ new.status = "failed"
    BY <1>1 DEF TypeInv, TypeOK, RunStatus
  <2>2. run' = [run EXCEPT ![MyRun(w)] = new]
    BY <1>4
  <2> HIDE DEF new
  <2> QED
    BY <1>1, <1>2, <2>1, <2>2, RunStepType DEF FailRun, FailReconciliation
<1> QED
  BY <1>3, <1>4 DEF FailRun, FailReconciliation

(* The steps that read a summary into the worker.                          *)
LEMMA SummaryType ==
  ASSUME TypeInv, NEW w \in Workers,
         Summarize(w) \/ FinalizeSummary(w) \/ CloseSummary(w)
  PROVE  TypeInv'
<1> DEFINE tally == TallyOf(item[MyRun(w)])
<1>1. /\ worker[w].pc # "idle" /\ worker[w] \in WorkerState
      /\ MyRun(w) \in Runs
  BY WorkerFields DEF Summarize, PassEnded, FinalizeSummary, CloseSummary, At
<1>2. tally \in Tally
  BY <1>1, TallyType DEF TypeInv, TypeOK
<1>3. ASSUME NEW pc \in {"mark_reconciling", "reserve", "close"},
             worker' = [worker EXCEPT ![w].pc = pc, ![w].tally = tally]
      PROVE  worker' \in [Workers -> WorkerState] /\ WorkersOK'
  <2> DEFINE v == [worker[w] EXCEPT !.pc = pc, !.tally = tally]
  <2> HIDE DEF tally
  <2>1. /\ v.pc = pc /\ v.run = worker[w].run /\ v.config = worker[w].config
        /\ v \in WorkerState
    BY <1>1, <1>2 DEF WorkerState, Steps
  <2>2. worker' = [worker EXCEPT ![w] = v]
    BY <1>3
  <2> HIDE DEF v
  <2> QED
    BY <1>1, <2>1, <2>2, LeaveItemType DEF ItemSteps, Try
<1>4. worker' \in [Workers -> WorkerState] /\ WorkersOK'
  BY <1>3, StopType
     DEF Summarize, FinalizeSummary, CloseSummary, ReadSummary, TypeInv,
         TypeOK
<1> QED
  BY <1>4, MoveType DEF Summarize, FinalizeSummary, CloseSummary

LEMMA MarkReconcilingType ==
  ASSUME TypeInv, NEW w \in Workers, MarkReconciling(w)
  PROVE  TypeInv'
<1>1. /\ worker[w].pc = "mark_reconciling" /\ worker[w] \in WorkerState
      /\ MyRun(w) \in Runs
  BY WorkerFields DEF MarkReconciling, At
<1>2. CASE run[MyRun(w)].status = "running"
  <2> DEFINE new == [run[MyRun(w)] EXCEPT !.status = "reconciling",
                                          !.tally = worker[w].tally]
  <2>1. worker[w].tally \in Tally
    BY <1>1 DEF WorkerState
  <2>2. new \in [status : RunStatus, config : {run[MyRun(w)].config},
                 tally : Tally, stamp : Stamps \cup {None}]
    BY <1>1, <2>1 DEF TypeInv, TypeOK, RunStatus
  <2>3. run' = [run EXCEPT ![MyRun(w)] = new]
    BY <1>2 DEF MarkReconciling
  <2>4. worker' \in [Workers -> WorkerState] /\ WorkersOK'
    BY <1>1, <1>2, GotoAnywhere
       DEF MarkReconciling, Steps, ItemSteps, Try, HoldingCandidate,
           HoldingEvidence
  <2> HIDE DEF new
  <2> QED
    BY <1>1, <1>2, <2>2, <2>3, <2>4, RunStepType DEF MarkReconciling
<1>3. CASE run[MyRun(w)].status # "running"
  <2>1. worker' \in [Workers -> WorkerState] /\ WorkersOK'
    BY <1>3, StopType DEF MarkReconciling, TypeInv, TypeOK
  <2> QED
    BY <1>3, <2>1 DEF MarkReconciling, TypeInv, TypeOK, OpenRunHasConfig,
                      objects, environment
<1> QED
  BY <1>2, <1>3

LEMMA ReadStateType ==
  ASSUME TypeInv, NEW w \in Workers, ReadState(w)
  PROVE  TypeInv'
<1> DEFINE view == [items |-> item[MyRun(w)], quality |-> quality[MyRun(w)]]
           v == [worker[w] EXCEPT !.pc = "reconcile", !.view = view]
<1>1. /\ worker[w].pc = "read_state" /\ worker[w] \in WorkerState
      /\ MyRun(w) \in Runs
  BY WorkerFields DEF ReadState, At
<1>2. view \in View
  BY <1>1 DEF View, TypeInv, TypeOK
<1>3. worker' = [worker EXCEPT ![w] = v]
  BY DEF ReadState
<1> HIDE DEF view
<1>4. /\ v.pc = "reconcile" /\ v.run = worker[w].run
      /\ v.config = worker[w].config /\ v \in WorkerState
  BY <1>1, <1>2 DEF WorkerState, Steps
<1> HIDE DEF v
<1>5. worker' \in [Workers -> WorkerState] /\ WorkersOK'
  BY <1>1, <1>3, <1>4, LeaveItemType DEF ItemSteps, Try
<1> QED
  BY <1>5, MoveType DEF ReadState

LEMMA ReconcileType ==
  ASSUME TypeInv, NEW w \in Workers, Reconcile(w)
  PROVE  TypeInv'
<1>1. worker[w].pc = "reconcile"
  BY DEF Reconcile, At
<1>2. PICK pc \in {"finalize_summary", "fail_reconciliation"} :
        Goto(w, pc) \/ Stop(w)
  BY DEF Reconcile, Compare
<1>3. worker' \in [Workers -> WorkerState] /\ WorkersOK'
  <2>1. CASE Stop(w)
    BY <2>1, StopType DEF TypeInv, TypeOK
  <2>2. CASE Goto(w, pc)
    BY <1>1, <1>2, <2>2, GotoAnywhere
       DEF Steps, ItemSteps, Try, HoldingCandidate, HoldingEvidence
  <2> QED
    BY <1>2, <2>1, <2>2
<1> QED
  BY <1>3, MoveType DEF Reconcile

LEMMA ReserveType ==
  ASSUME TypeInv, NEW w \in Workers, ReservePublishedAt(w)
  PROVE  TypeInv'
<1>1. /\ worker[w].pc = "reserve" /\ worker[w] \in WorkerState
      /\ MyRun(w) \in Runs
  BY WorkerFields DEF ReservePublishedAt, At
<1>2. PICK at \in Stamps :
        /\ run' = [run EXCEPT ![MyRun(w)].stamp = at]
        /\ worker' = [worker EXCEPT ![w].pc = "publish", ![w].stamp = at]
  BY <1>1 DEF ReservePublishedAt, ReservedStamp, TypeInv, TypeOK
<1> DEFINE v == [worker[w] EXCEPT !.pc = "publish", !.stamp = at]
           new == [run[MyRun(w)] EXCEPT !.stamp = at]
<1>3. /\ v.pc = "publish" /\ v.run = worker[w].run
      /\ v.config = worker[w].config /\ v.stamp = at /\ v \in WorkerState
  BY <1>1, <1>2 DEF WorkerState, Steps
<1>4. worker' = [worker EXCEPT ![w] = v]
  BY <1>2
<1>5. /\ new \in [status : RunStatus, config : {run[MyRun(w)].config},
                  tally : Tally, stamp : Stamps \cup {None}]
      /\ new.status = run[MyRun(w)].status
  BY <1>1, <1>2 DEF TypeInv, TypeOK
<1>6. run' = [run EXCEPT ![MyRun(w)] = new]
  BY <1>2
<1> HIDE DEF v, new
<1>7. worker' \in [Workers -> WorkerState] /\ WorkersOK'
  BY <1>1, <1>3, <1>4, LeaveItemType DEF ItemSteps, Try
<1> QED
  BY <1>1, <1>5, <1>6, <1>7, RunStepType DEF ReservePublishedAt

(* The manifest a worker publishes and persists.                           *)
LEMMA MyManifestType ==
  ASSUME TypeInv, NEW w \in Workers, worker[w].pc \in {"publish", "persist"}
  PROVE  MyManifest(w) \in Manifest /\ worker[w].tally \in Tally
<1>1. worker[w] \in WorkerState /\ worker[w].stamp \in Stamps
  BY WorkerFields DEF WorkerOK
<1> QED
  BY <1>1 DEF MyManifest, Manifest, WorkerState

LEMMA PublishType ==
  ASSUME TypeInv, NEW w \in Workers, PublishManifest(w)
  PROVE  TypeInv'
<1>1. /\ worker[w].pc = "publish" /\ WorkerOK(worker[w])
      /\ MyRun(w) \in Runs
  BY WorkerFields DEF PublishManifest, At
<1>2. published' \in [Runs -> SUBSET Manifest]
  BY <1>1, MyManifestType DEF PublishManifest, TypeInv, TypeOK
<1>3. worker' \in [Workers -> WorkerState] /\ WorkersOK'
  BY <1>1, GotoAnywhere
     DEF PublishManifest, Steps, ItemSteps, Try, HoldingCandidate,
         HoldingEvidence, WorkerOK
<1> QED
  BY <1>2, <1>3 DEF PublishManifest, TypeInv, TypeOK, OpenRunHasConfig,
                    ledgerRows, environment

LEMMA PersistType ==
  ASSUME TypeInv, NEW w \in Workers, PersistManifest(w)
  PROVE  TypeInv'
<1> DEFINE row == [manifest |-> MyManifest(w), tally |-> worker[w].tally]
<1>1. worker[w].pc = "persist" /\ MyRun(w) \in Runs
  BY WorkerFields DEF PersistManifest, At
<1>2. row \in ManifestRow
  BY <1>1, MyManifestType DEF ManifestRow
<1>3. manifestRow' = [manifestRow EXCEPT
        ![MyRun(w)] = IF manifestRow[MyRun(w)] = None THEN row
                      ELSE manifestRow[MyRun(w)]]
  BY DEF PersistManifest
<1> HIDE DEF row
<1>4. manifestRow' \in [Runs -> ManifestRow \cup {None}]
  BY <1>1, <1>2, <1>3 DEF TypeInv, TypeOK
<1>5. Goto(w, "close_summary") \/ Stop(w)
  BY DEF PersistManifest
<1>6. worker' \in [Workers -> WorkerState] /\ WorkersOK'
  BY <1>1, <1>5, GotoAnywhere, StopType
     DEF Steps, ItemSteps, Try, HoldingCandidate, HoldingEvidence, TypeInv,
         TypeOK
<1> QED
  BY <1>4, <1>6 DEF PersistManifest, TypeInv, TypeOK, OpenRunHasConfig,
                    objects, environment

LEMMA CloseRunType ==
  ASSUME TypeInv, NEW w \in Workers, CloseRun(w)
  PROVE  TypeInv'
<1>1. worker' \in [Workers -> WorkerState] /\ WorkersOK'
  BY StopType DEF CloseRun, TypeInv, TypeOK
<1>2. worker[w] \in WorkerState /\ MyRun(w) \in Runs
  BY WorkerFields DEF CloseRun, At
<1>3. CASE run[MyRun(w)].status = "reconciling"
  <2> DEFINE new == [run[MyRun(w)] EXCEPT
                       !.status = Verdict(worker[w].tally),
                       !.tally = worker[w].tally]
  <2>1. worker[w].tally \in Tally /\ Verdict(worker[w].tally) \in Closed
    BY <1>2 DEF WorkerState, Verdict, Closed
  <2>2. /\ new \in [status : RunStatus, config : {run[MyRun(w)].config},
                    tally : Tally, stamp : Stamps \cup {None}]
        /\ new.status \in Closed
    BY <1>2, <2>1 DEF TypeInv, TypeOK, RunStatus, Closed
  <2>3. run' = [run EXCEPT ![MyRun(w)] = new]
    BY <1>3 DEF CloseRun
  <2> HIDE DEF new
  <2> QED
    BY <1>1, <1>2, <1>3, <2>2, <2>3, RunStepType DEF CloseRun, Closed
<1>4. CASE run[MyRun(w)].status # "reconciling"
  BY <1>1, <1>4 DEF CloseRun, TypeInv, TypeOK, OpenRunHasConfig, objects,
                    environment
<1> QED
  BY <1>3, <1>4

LEMMA CrashType ==
  ASSUME TypeInv, NEW w \in Workers, Crash(w)
  PROVE  TypeInv'
<1>1. worker' \in [Workers -> WorkerState] /\ WorkersOK'
  BY StopType DEF Crash, TypeInv, TypeOK
<1>2. crashes' \in 0..MaxCrashes
  BY ConstantsOK DEF Crash, TypeInv, TypeOK, ConstantsAssumption
<1> QED
  BY <1>1, <1>2 DEF Crash, TypeInv, TypeOK, OpenRunHasConfig, ledgerRows,
                    objects

LEMMA RegisterSourceType ==
  ASSUME TypeInv, NEW s \in Sources, RegisterSource(s)
  PROVE  TypeInv'
  BY DEF RegisterSource, TypeInv, TypeOK, WorkersOK, OpenRunHasConfig,
         ledgerRows, objects

LEMMA StepType == TypeInv /\ [Next]_vars => TypeInv'
<1> SUFFICES ASSUME TypeInv, [Next]_vars PROVE TypeInv'
  OBVIOUS
<1>1. ASSUME NEW w \in Workers, ExecutorStep(w) PROVE TypeInv'
  BY <1>1, SkipOrStopType, CheckpointType, EnsureItemType, FindReusableType,
     RecordReuseType, MarkType, MarkRunningType, ConvertType,
     RegisterStructuralType, RecordQaType, ItemErrorType, StoreTextType,
     RegisterTextType, FailType, SummaryType, MarkReconcilingType
     DEF ExecutorStep
<1>2. ASSUME NEW w \in Workers, FinalizerStep(w) PROVE TypeInv'
  BY <1>2, ReadStateType, ReconcileType, FailType, SummaryType, ReserveType,
     PublishType, PersistType, CloseRunType
     DEF FinalizerStep
<1>3. CASE UNCHANGED vars
  BY <1>3 DEF vars, TypeInv, TypeOK, WorkersOK, OpenRunHasConfig
<1> QED
  BY <1>1, <1>2, <1>3, BeginType, CrashType, RegisterSourceType DEF Next, Step

(* The ledger, the object store and the workers always have their types:   *)
(* in particular a run row only ever carries a status, and an item a       *)
(* status and an artifact, that the schema knows.                          *)
THEOREM TypeCorrect == Spec => []TypeOK
<1>1. TypeInv => TypeOK
  BY DEF TypeInv
<1> QED
  BY <1>1, InitType, StepType, PTL DEF Spec

-----------------------------------------------------------------------------
(* What a worker's step may change: itself, and the rows and objects of    *)
(* its own run; tables and objects shared between runs only grow.          *)

OnlyWorkerMoves(w) ==
  /\ worker[w].pc # "idle"
  /\ \A u \in Workers \ {w} : worker'[u] = worker[u]
  /\ \/ worker'[w].pc = "idle"
     \/ /\ worker'[w].run = worker[w].run
        /\ worker'[w].config = worker[w].config

OwnRowsChange(w) ==
  \A r \in Runs :
    /\ run'[r].config = run[r].config
    /\ r # MyRun(w) =>
         run'[r] = run[r] /\ item'[r] = item[r] /\ published'[r] = published[r]
           /\ manifestRow'[r] = manifestRow[r]

SharedRowsGrow ==
  /\ derivation \subseteq derivation' /\ stored \subseteq stored'
  /\ \A a \in Artifacts : locator[a] # None => locator'[a] = locator[a]
  /\ \A r \in Runs :
       /\ published[r] \subseteq published'[r]
       /\ manifestRow[r] # None => manifestRow'[r] = manifestRow[r]

LEMMA StepMovesWorker ==
  ASSUME TypeInv, NEW w \in Workers, Step(w)
  PROVE  OnlyWorkerMoves(w)
<1> USE DEF OnlyWorkerMoves, At, Goto, NextItem, Stop, IdleWorker
<1>1. worker \in [Workers -> WorkerState] /\ worker[w] \in WorkerState
  BY DEF TypeInv, TypeOK
<1> USE <1>1 DEF WorkerState
<1>2. ASSUME SkipUnavailable(w) \/ UnknownSource(w) \/ Checkpoint(w)
             \/ EnsureItem(w) \/ FindReusable(w)
      PROVE  OnlyWorkerMoves(w)
  BY <1>2 DEF SkipUnavailable, UnknownSource, Checkpoint, EnsureItem,
              FindReusable
<1>3. ASSUME RecordReuse(w) \/ MarkReused(w) \/ MarkRunning(w) \/ Convert(w)
             \/ RegisterStructural(w) \/ RecordQa(w)
      PROVE  OnlyWorkerMoves(w)
  BY <1>3 DEF RecordReuse, MarkReused, MarkRunning, Convert,
              RegisterStructural, RecordQa
<1>4. ASSUME MarkReview(w) \/ StoreText(w) \/ RegisterText(w)
             \/ MarkNormalized(w)
      PROVE  OnlyWorkerMoves(w)
  BY <1>4 DEF MarkReview, StoreText, RegisterText, MarkNormalized
<1>5. ASSUME ItemFails(w) \/ RecordFidelity(w)
      PROVE  OnlyWorkerMoves(w)
  <2>1. PICK class : HandleRetryable(w) \/ HandleFailure(w, class)
    BY <1>5 DEF ItemFails, RecordFidelity, HandleError
  <2>2. worker[w].pc # "idle"
    BY <1>5 DEF ItemFails, RecordFidelity, Try
  <2>3. CASE HandleRetryable(w)
    BY <2>2, <2>3 DEF HandleRetryable
  <2>4. CASE HandleFailure(w, class)
    BY <2>2, <2>4 DEF HandleFailure
  <2> QED
    BY <2>1, <2>3, <2>4
<1>6. ASSUME FailRun(w) \/ LeaveForRetry(w) \/ Summarize(w)
             \/ MarkReconciling(w)
      PROVE  OnlyWorkerMoves(w)
  BY <1>6 DEF FailRun, LeaveForRetry, Summarize, PassEnded, ReadSummary,
              MarkReconciling
<1>7. ASSUME ReadState(w) \/ Reconcile(w) \/ FailReconciliation(w)
             \/ FinalizeSummary(w)
             \/ ReservePublishedAt(w)
      PROVE  OnlyWorkerMoves(w)
  BY <1>7
     DEF ReadState, Reconcile, Compare, FailReconciliation, FinalizeSummary,
         ReservePublishedAt
<1>8. ASSUME PublishManifest(w) \/ PersistManifest(w) \/ CloseSummary(w)
             \/ CloseRun(w)
      PROVE  OnlyWorkerMoves(w)
  BY <1>8 DEF PublishManifest, PersistManifest, CloseSummary, ReadSummary,
              CloseRun
<1> QED
  BY <1>2, <1>3, <1>4, <1>5, <1>6, <1>7, <1>8
     DEF Step, ExecutorStep, FinalizerStep

LEMMA StepChangesOwnRows ==
  ASSUME TypeInv, NEW w \in Workers, Step(w)
  PROVE  OwnRowsChange(w)
<1> USE DEF OwnRowsChange, ledgerRows, objects, environment, Transition
<1>1. /\ run \in [Runs -> [status : RunStatus, config : Configs \cup {None},
                           tally : Tally, stamp : Stamps \cup {None}]]
      /\ item \in [Runs -> [Sources -> Item]]
      /\ published \in [Runs -> SUBSET Manifest]
      /\ manifestRow \in [Runs -> ManifestRow \cup {None}]
  BY DEF TypeInv, TypeOK
<1> USE <1>1
<1>2. ASSUME SkipUnavailable(w) \/ UnknownSource(w) \/ Checkpoint(w)
             \/ EnsureItem(w) \/ FindReusable(w)
      PROVE  OwnRowsChange(w)
  BY <1>2 DEF SkipUnavailable, UnknownSource, Checkpoint, EnsureItem,
              FindReusable
<1>3. ASSUME RecordReuse(w) \/ MarkReused(w) \/ MarkRunning(w) \/ Convert(w)
             \/ RegisterStructural(w) \/ RecordQa(w)
      PROVE  OwnRowsChange(w)
  BY <1>3 DEF RecordReuse, MarkReused, MarkRunning, Convert,
              RegisterStructural, RecordQa
<1>4. ASSUME MarkReview(w) \/ StoreText(w) \/ RegisterText(w)
             \/ MarkNormalized(w)
      PROVE  OwnRowsChange(w)
  BY <1>4 DEF MarkReview, StoreText, RegisterText, MarkNormalized
<1>5. ASSUME ItemFails(w) \/ RecordFidelity(w)
      PROVE  OwnRowsChange(w)
  <2>1. UNCHANGED <<run, manifestRow, published>>
    BY <1>5 DEF ItemFails, RecordFidelity, HandleError
  <2>2. PICK status \in {"pending", "failed"} :
          Transition(MyRun(w), Current(w), status, None)
    BY <1>5 DEF ItemFails, RecordFidelity, HandleError, HandleRetryable,
                HandleFailure
  <2>3. \A r \in Runs : r # MyRun(w) => item'[r] = item[r]
    BY <2>2
  <2> QED
    BY <2>1, <2>3
<1>6. ASSUME FailRun(w) \/ LeaveForRetry(w) \/ Summarize(w)
             \/ MarkReconciling(w)
      PROVE  OwnRowsChange(w)
  BY <1>6 DEF FailRun, LeaveForRetry, Summarize, MarkReconciling
<1>7. ASSUME ReadState(w) \/ Reconcile(w) \/ FailReconciliation(w)
             \/ FinalizeSummary(w)
             \/ ReservePublishedAt(w)
      PROVE  OwnRowsChange(w)
  <2>1. CASE ReadState(w) \/ Reconcile(w) \/ FinalizeSummary(w)
    BY <2>1 DEF ReadState, Reconcile, Compare, FinalizeSummary
  <2>2. CASE FailReconciliation(w)
    BY <2>2 DEF FailReconciliation
  <2>3. CASE ReservePublishedAt(w)
    <3>1. PICK at : run' = [run EXCEPT ![MyRun(w)].stamp = at]
      BY <2>3 DEF ReservePublishedAt
    <3> QED
      BY <2>3, <3>1 DEF ReservePublishedAt
  <2> QED
    BY <1>7, <2>1, <2>2, <2>3
<1>8. ASSUME PublishManifest(w) \/ PersistManifest(w) \/ CloseSummary(w)
             \/ CloseRun(w)
      PROVE  OwnRowsChange(w)
  BY <1>8 DEF PublishManifest, PersistManifest, CloseSummary, CloseRun
<1> QED
  BY <1>2, <1>3, <1>4, <1>5, <1>6, <1>7, <1>8
     DEF Step, ExecutorStep, FinalizerStep

LEMMA StepGrowsSharedRows ==
  ASSUME TypeInv, [Next]_vars
  PROVE  SharedRowsGrow
<1> USE DEF SharedRowsGrow, ledgerRows, objects, environment
<1>1. /\ locator \in [Artifacts -> Configs \cup {None}]
      /\ published \in [Runs -> SUBSET Manifest]
      /\ manifestRow \in [Runs -> ManifestRow \cup {None}]
  BY DEF TypeInv, TypeOK
<1> USE <1>1
<1>2. ASSUME NEW w \in Workers, Begin(w) \/ Crash(w)
      PROVE  SharedRowsGrow
  BY <1>2 DEF Begin, CreateRun, ResumeRun, RetryFinalizer, Crash
<1>3. ASSUME NEW w \in Workers, ExecutorStep(w)
      PROVE  SharedRowsGrow
  <2>1. CASE RegisterStructural(w) \/ RegisterText(w)
    BY <2>1 DEF RegisterStructural, RegisterText, Register
  <2>2. CASE \/ UNCHANGED <<locator, derivation, manifestRow, objects>>
             \/ UNCHANGED <<locator, derivation, manifestRow, published>>
                /\ stored \subseteq stored'
    BY <2>2
  <2> QED
    BY <1>3, <2>1, <2>2
       DEF ExecutorStep, SkipUnavailable, UnknownSource, Checkpoint,
           EnsureItem, FindReusable, RecordReuse, MarkReused, MarkRunning,
           Convert, RecordQa, MarkReview, StoreText, MarkNormalized,
           ItemFails, RecordFidelity, HandleError, FailRun, LeaveForRetry,
           Summarize, MarkReconciling
<1>4. ASSUME NEW w \in Workers, FinalizerStep(w)
      PROVE  SharedRowsGrow
  BY <1>4
     DEF FinalizerStep, ReadState, Reconcile, Compare, FailReconciliation,
         FinalizeSummary, ReservePublishedAt, PublishManifest,
         PersistManifest, CloseSummary, CloseRun
<1>5. CASE UNCHANGED vars \/ \E s \in Sources : RegisterSource(s)
  BY <1>5 DEF vars, RegisterSource, ledgerRows, objects
<1> QED
  BY <1>2, <1>3, <1>4, <1>5 DEF Next, Step

(* A persisted manifest row is never replaced, whoever finalizes, however  *)
(* often (persist_manifest).                                               *)
THEOREM PersistedManifestStays == Spec => ManifestRowStays
<1>1. TypeInv /\ [Next]_vars =>
        [\A r \in Runs : manifestRow[r] # None =>
                           manifestRow'[r] = manifestRow[r]]_manifestRow
  BY StepGrowsSharedRows DEF SharedRowsGrow
<1> QED
  BY <1>1, InitType, StepType, PTL DEF Spec, ManifestRowStays

-----------------------------------------------------------------------------
(* A run nobody created is blank, and a busy worker's run exists and has   *)
(* the pipeline identity the worker works under.                           *)

AbsentRunsAreBlank ==
  \A r \in Runs : run[r].status = "absent" =>
    /\ run[r].config = None /\ run[r].stamp = None /\ published[r] = {}
    /\ \A s \in Sources : item[r][s].artifact = None

BusyRunsExist ==
  \A w \in Workers : worker[w].pc # "idle" =>
    /\ run[MyRun(w)].status # "absent"
    /\ run[MyRun(w)].config = worker[w].config

RunInv == TypeInv /\ AbsentRunsAreBlank /\ BusyRunsExist

StatusMoves(st1, st2) ==
  \/ st1 = st2
  \/ st1 = "running" /\ st2 \in {"reconciling", "failed"}
  \/ st1 = "reconciling" /\ st2 \in Closed \cup {"failed"}

(* How a step of w changes the row of its run.                             *)
LEMMA StepMovesRunRow ==
  ASSUME RunInv, NEW w \in Workers, Step(w)
  PROVE  /\ StatusMoves(run[MyRun(w)].status, run'[MyRun(w)].status)
         /\ run[MyRun(w)].stamp # None =>
              run'[MyRun(w)].stamp = run[MyRun(w)].stamp
         /\ run'[MyRun(w)].status \in Closed =>
              run[MyRun(w)].status \in Closed \/ At(w, "close")
<1> DEFINE r == MyRun(w)
<1>1. /\ r \in Runs /\ run[r].status # "absent"
      /\ run[r] \in [status : RunStatus, config : Configs \cup {None},
                     tally : Tally, stamp : Stamps \cup {None}]
      /\ run \in [Runs -> [status : RunStatus, config : Configs \cup {None},
                           tally : Tally, stamp : Stamps \cup {None}]]
  <2>1. worker[w].pc # "idle"
    BY StepMovesWorker DEF OnlyWorkerMoves, RunInv
  <2>2. r \in Runs
    BY <2>1, WorkerFields DEF RunInv
  <2> QED
    BY <2>1, <2>2 DEF RunInv, BusyRunsExist, TypeInv, TypeOK
<1> HIDE DEF r
<1>2. CASE run' = run
  BY <1>1, <1>2 DEF StatusMoves
<1>3. CASE FailRun(w) \/ FailReconciliation(w)
  <2>1. CASE CanFail(r) /\ run' = [run EXCEPT ![r].status = "failed"]
    BY <1>1, <2>1 DEF CanFail, StatusMoves, RunStatus, Closed
  <2> QED
    BY <1>2, <1>3, <2>1 DEF FailRun, FailReconciliation, r
<1>4. CASE MarkReconciling(w)
  <2>1. CASE run[r].status = "running"
    <3>1. run' = [run EXCEPT ![r].status = "reconciling",
                             ![r].tally = worker[w].tally]
      BY <1>4, <2>1 DEF MarkReconciling, r
    <3> QED
      BY <1>1, <2>1, <3>1 DEF StatusMoves, Closed, r
  <2> QED
    BY <1>2, <1>4, <2>1 DEF MarkReconciling, r
<1>5. CASE CloseRun(w)
  <2>1. CASE run[r].status = "reconciling"
    <3>1. run' = [run EXCEPT ![r].status = Verdict(worker[w].tally),
                             ![r].tally = worker[w].tally]
      BY <1>5, <2>1 DEF CloseRun, r
    <3>2. Verdict(worker[w].tally) \in Closed
      BY DEF Verdict, Closed
    <3> QED
      BY <1>1, <1>5, <2>1, <3>1, <3>2 DEF StatusMoves, CloseRun, r
  <2> QED
    BY <1>2, <1>5, <2>1 DEF CloseRun, r
<1>6. CASE ReservePublishedAt(w)
  <2>1. PICK now \in Stamps :
          run' = [run EXCEPT ![r].stamp = ReservedStamp(r, now)]
    BY <1>6 DEF ReservePublishedAt, r
  <2> QED
    BY <1>1, <2>1 DEF ReservedStamp, StatusMoves, r
<1> QED
  <2>1. \/ run' = run
        \/ FailRun(w) \/ FailReconciliation(w) \/ MarkReconciling(w)
        \/ CloseRun(w) \/ ReservePublishedAt(w)
    BY DEF Step, ExecutorStep, FinalizerStep, ledgerRows, SkipUnavailable,
           UnknownSource, Checkpoint, EnsureItem, FindReusable, RecordReuse,
           MarkReused, MarkRunning, Convert, RegisterStructural, RecordQa,
           MarkReview, StoreText, RegisterText, MarkNormalized, ItemFails,
           RecordFidelity, HandleError, LeaveForRetry, Summarize, ReadState,
           Reconcile, Compare, FinalizeSummary, PublishManifest,
           PersistManifest, CloseSummary
  <2> QED
    BY <2>1, <1>2, <1>3, <1>4, <1>5, <1>6 DEF r

LEMMA RunInvStep ==
  ASSUME RunInv, [Next]_vars
  PROVE  AbsentRunsAreBlank' /\ BusyRunsExist'
<1> USE DEF RunInv
<1>1. /\ run \in [Runs -> [status : RunStatus, config : Configs \cup {None},
                           tally : Tally, stamp : Stamps \cup {None}]]
      /\ worker \in [Workers -> WorkerState]
  BY DEF TypeInv, TypeOK
<1>2. ASSUME NEW w \in Workers, NEW r \in Runs, NEW c \in Configs,
             CreateRun(w, r, c)
      PROVE  AbsentRunsAreBlank' /\ BusyRunsExist'
  <2>1. /\ run[r].status = "absent" /\ run'[r].status = "running"
        /\ run'[r].config = c /\ worker'[w].run = r
        /\ worker'[w].config = c
        /\ \A q \in Runs \ {r} : run'[q] = run[q]
        /\ \A u \in Workers \ {w} : worker'[u] = worker[u]
        /\ item' = item /\ published' = published
    BY <1>1, <1>2 DEF CreateRun, objects, IdleWorker, WorkerState
  <2>2. AbsentRunsAreBlank'
    BY <2>1 DEF AbsentRunsAreBlank
  <2>3. ASSUME NEW u \in Workers, worker'[u].pc # "idle"
        PROVE  /\ run'[worker'[u].run].status # "absent"
               /\ run'[worker'[u].run].config = worker'[u].config
    <3>1. CASE u = w
      BY <2>1, <3>1
    <3>2. CASE u # w
      BY <2>1, <2>3, <3>2, WorkerFields DEF BusyRunsExist, MyRun
    <3> QED
      BY <3>1, <3>2
  <2> QED
    BY <2>2, <2>3 DEF BusyRunsExist, MyRun
<1>3. ASSUME NEW w \in Workers, NEW r \in Runs,
             RetryFinalizer(w, r) \/ \E c \in Configs : ResumeRun(w, r, c)
      PROVE  AbsentRunsAreBlank' /\ BusyRunsExist'
  <2>1. /\ run' = run /\ item' = item /\ published' = published
        /\ run[r].status # "absent"
        /\ worker'[w].run = r /\ worker'[w].config = run[r].config
        /\ \A u \in Workers \ {w} : worker'[u] = worker[u]
    <3>1. CASE RetryFinalizer(w, r)
      BY <1>1, <3>1 DEF RetryFinalizer, ledgerRows, objects, IdleWorker
    <3>2. ASSUME NEW c \in Configs, ResumeRun(w, r, c)
          PROVE  /\ run' = run /\ item' = item /\ published' = published
                 /\ run[r].status # "absent"
                 /\ worker'[w].run = r /\ worker'[w].config = run[r].config
                 /\ \A u \in Workers \ {w} : worker'[u] = worker[u]
      BY <1>1, <3>2 DEF ResumeRun, ledgerRows, objects, IdleWorker
    <3> QED
      BY <1>3, <3>1, <3>2
  <2> QED
    BY <2>1 DEF AbsentRunsAreBlank, BusyRunsExist, MyRun
<1>4. ASSUME NEW w \in Workers, Crash(w)
      PROVE  AbsentRunsAreBlank' /\ BusyRunsExist'
  BY <1>1, <1>4 DEF Crash, Stop, IdleWorker, ledgerRows, objects,
                    AbsentRunsAreBlank, BusyRunsExist, MyRun
<1>5. ASSUME NEW w \in Workers, Step(w)
      PROVE  AbsentRunsAreBlank' /\ BusyRunsExist'
  <2>1. OnlyWorkerMoves(w) /\ OwnRowsChange(w)
    BY <1>5, StepMovesWorker, StepChangesOwnRows
  <2>2. MyRun(w) \in Runs /\ run[MyRun(w)].status # "absent"
    BY <2>1, WorkerFields DEF OnlyWorkerMoves, BusyRunsExist
  <2>3. \A r \in Runs : run'[r].status = "absent" <=> run[r].status = "absent"
    BY <1>5, <2>1, <2>2, StepMovesRunRow
       DEF OwnRowsChange, StatusMoves, Closed
  <2>4. AbsentRunsAreBlank'
    BY <2>1, <2>2, <2>3 DEF AbsentRunsAreBlank, OwnRowsChange
  <2>5. ASSUME NEW u \in Workers, worker'[u].pc # "idle"
        PROVE  /\ run'[worker'[u].run].status # "absent"
               /\ run'[worker'[u].run].config = worker'[u].config
    <3>1. /\ worker'[u].run = MyRun(u) /\ worker[u].pc # "idle"
          /\ worker'[u].config = worker[u].config
      BY <2>1, <2>5 DEF OnlyWorkerMoves, MyRun
    <3>2. MyRun(u) \in Runs
      BY <3>1, WorkerFields
    <3> QED
      BY <2>1, <2>3, <3>1, <3>2 DEF BusyRunsExist, OwnRowsChange
  <2> QED
    BY <2>4, <2>5 DEF BusyRunsExist, MyRun
<1>6. CASE UNCHANGED vars \/ \E s \in Sources : RegisterSource(s)
  BY <1>6
     DEF vars, RegisterSource, ledgerRows, objects, AbsentRunsAreBlank,
         BusyRunsExist, MyRun
<1> QED
  BY <1>2, <1>3, <1>4, <1>5, <1>6 DEF Next, Begin

LEMMA RunInvInvariant == Spec => []RunInv
<1>1. Init => RunInv
  BY InitType DEF Init, RunInv, AbsentRunsAreBlank, BusyRunsExist, NoView,
                  IdleWorker
<1>2. RunInv /\ [Next]_vars => RunInv'
  BY StepType, RunInvStep DEF RunInv
<1> QED
  BY <1>1, <1>2, PTL DEF Spec

(* A run's row only moves forward: it is never reopened, a failed run is   *)
(* never closed, and its pipeline identity and reserved timestamp never    *)
(* change, whatever several workers do to it at the same time.             *)
THEOREM RunRowsMoveForward == Spec => RunMovesForward
<1> DEFINE Forward(r) ==
      /\ <<run[r].status, run'[r].status>> \in
           {<<st, st>> : st \in RunStatus} \cup
           {<<"absent", "running">>, <<"running", "reconciling">>,
            <<"running", "failed">>, <<"reconciling", "failed">>}
           \cup ({"reconciling"} \X Closed)
      /\ run[r].config # None => run'[r].config = run[r].config
      /\ run[r].stamp # None => run'[r].stamp = run[r].stamp
<1>1. ASSUME RunInv, [Next]_vars PROVE [\A r \in Runs : Forward(r)]_run
  <2>1. \A r \in Runs : run[r].status \in RunStatus
    BY <1>1 DEF RunInv, TypeInv, TypeOK
  <2>2. ASSUME NEW w \in Workers, NEW q \in Runs, NEW c \in Configs,
               CreateRun(w, q, c), NEW r \in Runs
        PROVE  Forward(r)
    <3>1. CASE r = q
      <4>1. /\ run[r].status = "absent" /\ run'[r].status = "running"
            /\ run[r].config = None /\ run[r].stamp = None
        BY <1>1, <2>2, <3>1 DEF CreateRun, RunInv, TypeInv, TypeOK,
                                AbsentRunsAreBlank
      <4> QED
        BY <4>1
    <3>2. CASE r # q
      <4>1. run'[r] = run[r]
        BY <1>1, <2>2, <3>2 DEF CreateRun, RunInv, TypeInv, TypeOK
      <4> QED
        BY <2>1, <4>1
    <3> QED
      BY <3>1, <3>2
  <2>3. ASSUME NEW w \in Workers, Step(w), NEW r \in Runs
        PROVE  Forward(r)
    <3>1. OwnRowsChange(w)
      BY <1>1, <2>3, StepChangesOwnRows DEF RunInv
    <3>2. CASE r = MyRun(w)
      <4>1. StatusMoves(run[r].status, run'[r].status)
            /\ (run[r].stamp # None => run'[r].stamp = run[r].stamp)
        BY <1>1, <2>3, <3>2, StepMovesRunRow
      <4> QED
        BY <2>1, <3>1, <4>1 DEF OwnRowsChange, StatusMoves
    <3>3. CASE r # MyRun(w)
      BY <2>1, <3>1, <3>3 DEF OwnRowsChange
    <3> QED
      BY <3>2, <3>3
  <2>4. ASSUME NEW w \in Workers, Crash(w) \/ (Begin(w) /\ ~ \E q \in Runs,
                 c \in Configs : CreateRun(w, q, c))
        PROVE  run' = run
    BY <2>4 DEF Crash, Begin, RetryFinalizer, ResumeRun, ledgerRows
  <2>5. CASE UNCHANGED vars \/ \E s \in Sources : RegisterSource(s)
    BY <2>5 DEF vars, RegisterSource, ledgerRows, objects
  <2> HIDE DEF Forward
  <2> QED
    BY <1>1, <2>2, <2>3, <2>4, <2>5 DEF Next, Begin
<1> QED
  BY <1>1, RunInvInvariant, PTL DEF Spec, RunMovesForward

-----------------------------------------------------------------------------
(* A worker that starts or dies leaves the artifacts alone. *)
LEMMA BeginOrCrash ==
  ASSUME TypeInv, NEW w \in Workers, Begin(w) \/ Crash(w)
  PROVE  /\ item' = item /\ locator' = locator /\ derivation' = derivation
         /\ manifestRow' = manifestRow /\ stored' = stored
         /\ published' = published
         /\ \A u \in Workers \ {w} : worker'[u] = worker[u]
         /\ worker'[w].pc \in {"idle", "checkpoint", "read_state"}
         /\ \A r \in Runs :
              \/ run'[r] = run[r]
              \/ run[r].status = "absent" /\ run'[r].status = "running"
<1> DEFINE Frame ==
      /\ item' = item /\ locator' = locator /\ derivation' = derivation
      /\ manifestRow' = manifestRow /\ stored' = stored
      /\ published' = published
      /\ \A u \in Workers \ {w} : worker'[u] = worker[u]
      /\ worker'[w].pc \in {"idle", "checkpoint", "read_state"}
      /\ \A r \in Runs :
           \/ run'[r] = run[r]
           \/ run[r].status = "absent" /\ run'[r].status = "running"
<1>1. /\ worker \in [Workers -> WorkerState]
      /\ run \in [Runs -> [status : RunStatus, config : Configs \cup {None},
                           tally : Tally, stamp : Stamps \cup {None}]]
  BY DEF TypeInv, TypeOK
<1> USE <1>1 DEF ledgerRows, objects, IdleWorker
<1>2. ASSUME NEW r \in Runs, NEW c \in Configs, CreateRun(w, r, c)
      PROVE  Frame
  BY <1>2 DEF CreateRun
<1>3. ASSUME NEW r \in Runs, NEW c \in Configs, ResumeRun(w, r, c)
      PROVE  Frame
  BY <1>3 DEF ResumeRun
<1>4. ASSUME NEW r \in Runs, RetryFinalizer(w, r)
      PROVE  Frame
  BY <1>4 DEF RetryFinalizer
<1>5. CASE Crash(w)
  BY <1>5 DEF Crash, Stop
<1> QED
  BY <1>2, <1>3, <1>4, <1>5 DEF Begin

-----------------------------------------------------------------------------
(* The manifest gate. *)

ManifestInv ==
  /\ \A r \in Runs :
       /\ manifestRow[r] # None => manifestRow[r].manifest \in published[r]
       /\ run[r].status \in Closed => manifestRow[r] # None
  /\ \A w \in Workers :
       /\ At(w, "persist") => MyManifest(w) \in published[MyRun(w)]
       /\ worker[w].pc \in {"close_summary", "close"} =>
            manifestRow[MyRun(w)] # None

(* Only three actions lead to the last steps of a finalizer.               *)
LEMMA LateSteps ==
  ASSUME TypeInv, NEW w \in Workers, Step(w),
         worker'[w].pc \in {"persist", "close_summary", "close"}
  PROVE  PublishManifest(w) \/ PersistManifest(w) \/ CloseSummary(w)
<1> DEFINE Late == {"persist", "close_summary", "close"}
<1> USE DEF Goto, NextItem, Stop, IdleWorker
<1>1. worker \in [Workers -> WorkerState] /\ worker[w] \in WorkerState
  BY DEF TypeInv, TypeOK
<1> USE <1>1 DEF WorkerState
<1>2. ASSUME SkipUnavailable(w) \/ UnknownSource(w) \/ Checkpoint(w)
             \/ EnsureItem(w) \/ FindReusable(w)
      PROVE  worker'[w].pc \notin Late
  BY <1>2 DEF SkipUnavailable, UnknownSource, Checkpoint, EnsureItem,
              FindReusable
<1>3. ASSUME RecordReuse(w) \/ MarkReused(w) \/ MarkRunning(w) \/ Convert(w)
             \/ RegisterStructural(w) \/ RecordQa(w)
      PROVE  worker'[w].pc \notin Late
  BY <1>3 DEF RecordReuse, MarkReused, MarkRunning, Convert,
              RegisterStructural, RecordQa
<1>4. ASSUME MarkReview(w) \/ StoreText(w) \/ RegisterText(w)
             \/ MarkNormalized(w)
      PROVE  worker'[w].pc \notin Late
  BY <1>4 DEF MarkReview, StoreText, RegisterText, MarkNormalized
<1>5. ASSUME ItemFails(w) \/ RecordFidelity(w)
      PROVE  worker'[w].pc \notin Late
  <2>1. PICK class : HandleRetryable(w) \/ HandleFailure(w, class)
    BY <1>5 DEF ItemFails, RecordFidelity, HandleError
  <2>2. CASE HandleRetryable(w)
    BY <2>2 DEF HandleRetryable
  <2>3. CASE HandleFailure(w, class)
    BY <2>3 DEF HandleFailure
  <2> QED
    BY <2>1, <2>2, <2>3
<1>6. ASSUME FailRun(w) \/ LeaveForRetry(w) \/ Summarize(w)
             \/ MarkReconciling(w)
      PROVE  worker'[w].pc \notin Late
  BY <1>6 DEF FailRun, LeaveForRetry, Summarize, PassEnded, ReadSummary,
              MarkReconciling
<1>7. ASSUME ReadState(w) \/ Reconcile(w) \/ FailReconciliation(w)
             \/ FinalizeSummary(w)
             \/ ReservePublishedAt(w) \/ CloseRun(w)
      PROVE  worker'[w].pc \notin Late
  BY <1>7
     DEF ReadState, Reconcile, Compare, FailReconciliation, FinalizeSummary,
         ReservePublishedAt, CloseRun
<1> QED
  BY <1>2, <1>3, <1>4, <1>5, <1>6, <1>7 DEF Step, ExecutorStep, FinalizerStep

LEMMA ManifestRowStep ==
  ASSUME TypeInv, NEW w \in Workers, Step(w)
  PROVE  manifestRow' = manifestRow \/ PersistManifest(w)
  BY DEF Step, ExecutorStep, FinalizerStep, ledgerRows, SkipUnavailable,
         UnknownSource, Checkpoint, EnsureItem, FindReusable, RecordReuse,
         MarkReused, MarkRunning, Convert, RegisterStructural, RecordQa,
         MarkReview, StoreText, RegisterText, MarkNormalized, ItemFails,
         RecordFidelity, HandleError, FailRun, LeaveForRetry, Summarize,
         MarkReconciling, ReadState, Reconcile, Compare,
         FailReconciliation, FinalizeSummary,
         ReservePublishedAt, PublishManifest, CloseSummary, CloseRun

LEMMA ManifestInvStep ==
  ASSUME RunInv, ManifestInv, [Next]_vars
  PROVE  ManifestInv'
<1>1. /\ worker \in [Workers -> WorkerState]
      /\ manifestRow \in [Runs -> ManifestRow \cup {None}]
      /\ published \in [Runs -> SUBSET Manifest]
      /\ SharedRowsGrow
  BY StepGrowsSharedRows DEF RunInv, TypeInv, TypeOK
<1>2. ASSUME NEW w \in Workers, Begin(w) \/ Crash(w)
      PROVE  ManifestInv'
  <2>1. /\ manifestRow' = manifestRow /\ published' = published
        /\ \A u \in Workers \ {w} : worker'[u] = worker[u]
        /\ worker'[w].pc \in {"idle", "checkpoint", "read_state"}
    BY <1>2, BeginOrCrash DEF RunInv
  <2>2. \A r \in Runs : run'[r].status \in Closed => run[r].status \in Closed
    BY <1>2, BeginOrCrash DEF RunInv, Closed
  <2> QED
    BY <2>1, <2>2 DEF ManifestInv, At, MyManifest, MyRun
<1>3. ASSUME NEW w \in Workers, Step(w)
      PROVE  ManifestInv'
  <2>1. OnlyWorkerMoves(w) /\ OwnRowsChange(w)
    BY <1>3, StepMovesWorker, StepChangesOwnRows DEF RunInv
  <2>2. MyRun(w) \in Runs
    BY <2>1, WorkerFields DEF OnlyWorkerMoves, RunInv
  <2>3. ASSUME NEW r \in Runs, manifestRow'[r] # None
        PROVE  manifestRow'[r].manifest \in published'[r]
    <3>1. CASE manifestRow' = manifestRow
      BY <1>1, <2>3, <3>1 DEF ManifestInv, SharedRowsGrow
    <3>2. CASE PersistManifest(w)
      <4>1. /\ At(w, "persist") /\ published' = published
            /\ manifestRow'[r] = manifestRow[r]
               \/ /\ r = MyRun(w)
                  /\ manifestRow'[r] = [manifest |-> MyManifest(w),
                                        tally |-> worker[w].tally]
        BY <1>1, <3>2 DEF PersistManifest, objects
      <4> QED
        BY <2>3, <4>1 DEF ManifestInv
    <3> QED
      BY <1>3, <3>1, <3>2, ManifestRowStep DEF RunInv
  <2>4. ASSUME NEW r \in Runs, run'[r].status \in Closed
        PROVE  manifestRow'[r] # None
    <3>1. run[r].status \in Closed \/ (r = MyRun(w) /\ At(w, "close"))
      BY <1>3, <2>1, <2>4, StepMovesRunRow DEF OwnRowsChange
    <3>2. manifestRow[r] # None
      BY <3>1 DEF ManifestInv, At
    <3> QED
      BY <1>1, <3>2 DEF SharedRowsGrow
  <2>5. ASSUME NEW u \in Workers, worker'[u].pc = "persist"
        PROVE  MyManifest(u)' \in published'[worker'[u].run]
    <3>1. CASE u # w
      <4>1. worker'[u] = worker[u] /\ MyRun(u) \in Runs
        BY <2>1, <2>5, <3>1, WorkerFields DEF OnlyWorkerMoves, RunInv
      <4> QED
        BY <1>1, <2>5, <4>1 DEF ManifestInv, At, MyManifest, MyRun,
                                SharedRowsGrow
    <3>2. CASE u = w
      <4>1. PublishManifest(w)
        <5>1. PublishManifest(w) \/ PersistManifest(w) \/ CloseSummary(w)
          BY <1>3, <2>5, <3>2, LateSteps DEF RunInv
        <5>2. ~PersistManifest(w) /\ ~CloseSummary(w)
          BY <1>1, <2>5, <3>2 DEF PersistManifest, CloseSummary, ReadSummary,
                                  Goto, Stop, IdleWorker, WorkerState
        <5> QED
          BY <5>1, <5>2
      <4>2. worker' = [worker EXCEPT ![w].pc = "persist"]
            /\ published'[MyRun(w)] = published[MyRun(w)] \cup {MyManifest(w)}
        BY <1>1, <2>2, <4>1 DEF PublishManifest, Goto
      <4> QED
        BY <1>1, <3>2, <4>2 DEF MyManifest, MyRun, WorkerState
    <3> QED
      BY <3>1, <3>2
  <2>6. ASSUME NEW u \in Workers,
               worker'[u].pc \in {"close_summary", "close"}
        PROVE  manifestRow'[worker'[u].run] # None
    <3>1. CASE u # w
      <4>1. worker'[u] = worker[u] /\ MyRun(u) \in Runs
        BY <2>1, <2>6, <3>1, WorkerFields DEF OnlyWorkerMoves, RunInv
      <4> QED
        BY <1>1, <2>6, <4>1 DEF ManifestInv, MyRun, SharedRowsGrow
    <3>2. CASE u = w
      <4>1. worker'[w].run = MyRun(w)
        BY <2>1, <2>6, <3>2 DEF OnlyWorkerMoves, MyRun
      <4>2. PersistManifest(w) \/ CloseSummary(w)
        <5>1. PublishManifest(w) \/ PersistManifest(w) \/ CloseSummary(w)
          BY <1>3, <2>6, <3>2, LateSteps DEF RunInv
        <5>2. ~PublishManifest(w)
          BY <1>1, <2>6, <3>2 DEF PublishManifest, Goto, WorkerState
        <5> QED
          BY <5>1, <5>2
      <4>3. CASE PersistManifest(w)
        <5> DEFINE row == [manifest |-> MyManifest(w),
                           tally |-> worker[w].tally]
        <5>1. row \in ManifestRow
          BY <4>3, MyManifestType DEF PersistManifest, At, ManifestRow, RunInv
        <5>2. row # None
          BY <5>1, ConstantsOK
        <5>3. manifestRow'[MyRun(w)] =
                IF manifestRow[MyRun(w)] = None THEN row
                ELSE manifestRow[MyRun(w)]
          BY <1>1, <2>2, <4>3 DEF PersistManifest
        <5> HIDE DEF row
        <5> QED
          BY <3>2, <4>1, <5>2, <5>3
      <4>4. CASE CloseSummary(w)
        <5>1. manifestRow[MyRun(w)] # None /\ manifestRow' = manifestRow
          BY <4>4 DEF CloseSummary, At, ManifestInv, ledgerRows
        <5> QED
          BY <3>2, <4>1, <5>1
      <4> QED
        BY <4>2, <4>3, <4>4
    <3> QED
      BY <3>1, <3>2
  <2> QED
    BY <2>3, <2>4, <2>5, <2>6 DEF ManifestInv, At, MyRun
<1>4. CASE UNCHANGED vars \/ \E s \in Sources : RegisterSource(s)
  BY <1>4
     DEF vars, RegisterSource, ledgerRows, objects, ManifestInv, At,
         MyManifest, MyRun
<1> QED
  BY <1>2, <1>3, <1>4 DEF Next

(* Terminal success is gated for any number of workers finalizing the same *)
(* run, dying and retrying: a closed run has its manifest row and the      *)
(* object the row points at (finalize's publish, persist, close order).    *)
THEOREM ClosureIsGatedByManifest == Spec => []ClosedRunHasManifest
<1>1. Init => ManifestInv
  BY DEF Init, ManifestInv, IdleWorker, At, Closed
<1>2. RunInv /\ ManifestInv /\ [Next]_vars => ManifestInv'
  BY ManifestInvStep
<1>3. ManifestInv => ClosedRunHasManifest
  BY DEF ManifestInv, ClosedRunHasManifest
<1> QED
  BY <1>1, <1>2, <1>3, RunInvInvariant, PTL DEF Spec

-----------------------------------------------------------------------------
(* Evidence.  Objects come before rows, rows before lineage, lineage       *)
(* before references; EvidenceInv says how far each worker got.            *)

HasPath(a, s, c) ==
  \/ a \in StructuralArtifacts /\ <<s, a, c>> \in derivation
  \/ \E p \in StructuralArtifacts :
       <<s, p, c>> \in derivation /\ <<p, a, c>> \in derivation

ViewTraceable(v) ==
  \A s \in Sources : v.view.items[s].artifact # None =>
    HasPath(v.view.items[s].artifact, s, v.config)

HeldOK(v) ==
  /\ v.pc = "register_structural" => <<v.held, v.config>> \in stored
  /\ v.pc \in {"record_qa", "record_fidelity", "mark_review", "store_text",
               "register_text"} =>
       <<Plan[v.pos], v.held, v.config>> \in derivation
  /\ v.pc = "register_text" =>
       <<Resolved(v.held.text), v.config>> \in stored
  /\ v.pc \in HoldingEvidence => HasPath(v.held, Plan[v.pos], v.config)
  /\ v.pc \in {"reconcile", "finalize_summary", "reserve", "publish"} =>
       ViewTraceable(v)

RowsAreBacked ==
  /\ \A a \in Artifacts : locator[a] # None => <<a, locator[a]>> \in stored
  /\ \A d \in derivation : locator[d[2]] # None

ReferencesHavePaths ==
  \A r \in Runs, s \in Sources :
    /\ item[r][s].artifact # None =>
         HasPath(item[r][s].artifact, s, run[r].config)
    /\ \A m \in published[r] : m.view.items[s].artifact # None =>
         HasPath(m.view.items[s].artifact, s, run[r].config)

EvidenceInv ==
  RowsAreBacked /\ ReferencesHavePaths /\ \A w \in Workers : HeldOK(worker[w])

LEMMA PathsStay ==
  ASSUME derivation \subseteq derivation',
         NEW a, NEW s, NEW c, HasPath(a, s, c)
  PROVE  HasPath(a, s, c)'
  BY DEF HasPath

(* A worker that did not move still holds what it held.                    *)
LEMMA HeldStays ==
  ASSUME SharedRowsGrow, NEW v, HeldOK(v)
  PROVE  HeldOK(v)'
<1>1. ViewTraceable(v) => ViewTraceable(v)'
  BY PathsStay DEF ViewTraceable, SharedRowsGrow
<1>2. v.pc \in HoldingEvidence /\ HasPath(v.held, Plan[v.pos], v.config)
        => HasPath(v.held, Plan[v.pos], v.config)'
  BY PathsStay DEF SharedRowsGrow
<1> QED
  BY <1>1, <1>2 DEF HeldOK, SharedRowsGrow

(* In the other steps a worker holds nothing.                              *)
Loaded == {"register_structural", "record_qa", "record_fidelity",
           "mark_review", "store_text", "register_text", "record_reuse",
           "mark_reused", "mark_normalized", "reconcile", "finalize_summary",
           "reserve", "publish"}

LEMMA UnloadedIsOK ==
  ASSUME NEW v, v.pc \notin Loaded
  PROVE  HeldOK(v)
  BY DEF Loaded, HeldOK, HoldingEvidence

LEMMA StepUnloads ==
  ASSUME TypeInv, NEW w \in Workers,
         \/ SkipUnavailable(w) \/ UnknownSource(w) \/ Checkpoint(w)
         \/ EnsureItem(w) \/ MarkReused(w) \/ MarkRunning(w) \/ MarkReview(w)
         \/ MarkNormalized(w) \/ ItemFails(w) \/ RecordFidelity(w)
         \/ FailRun(w) \/ LeaveForRetry(w) \/ Summarize(w)
         \/ MarkReconciling(w) \/ FailReconciliation(w)
         \/ PublishManifest(w) \/ PersistManifest(w) \/ CloseSummary(w)
         \/ CloseRun(w)
  PROVE  worker'[w].pc \notin Loaded
<1> USE DEF Goto, NextItem, Stop, IdleWorker, Loaded
<1>1. worker \in [Workers -> WorkerState] /\ worker[w] \in WorkerState
  BY DEF TypeInv, TypeOK
<1> USE <1>1 DEF WorkerState
<1>2. ASSUME SkipUnavailable(w) \/ UnknownSource(w) \/ Checkpoint(w)
             \/ EnsureItem(w) \/ MarkReused(w) \/ MarkRunning(w)
      PROVE  worker'[w].pc \notin Loaded
  BY <1>2 DEF SkipUnavailable, UnknownSource, Checkpoint, EnsureItem,
              MarkReused, MarkRunning
<1>3. ASSUME MarkReview(w) \/ MarkNormalized(w)
      PROVE  worker'[w].pc \notin Loaded
  BY <1>3 DEF MarkReview, MarkNormalized
<1>4. ASSUME ItemFails(w) \/ RecordFidelity(w)
      PROVE  worker'[w].pc \notin Loaded
  <2>1. PICK class : HandleRetryable(w) \/ HandleFailure(w, class)
    BY <1>4 DEF ItemFails, RecordFidelity, HandleError
  <2>2. CASE HandleRetryable(w)
    BY <2>2 DEF HandleRetryable
  <2>3. CASE HandleFailure(w, class)
    BY <2>3 DEF HandleFailure
  <2> QED
    BY <2>1, <2>2, <2>3
<1>5. ASSUME FailRun(w) \/ LeaveForRetry(w) \/ Summarize(w)
             \/ MarkReconciling(w) \/ FailReconciliation(w)
      PROVE  worker'[w].pc \notin Loaded
  BY <1>5 DEF FailRun, LeaveForRetry, Summarize, ReadSummary,
              MarkReconciling, FailReconciliation
<1>6. ASSUME PublishManifest(w) \/ PersistManifest(w) \/ CloseSummary(w)
             \/ CloseRun(w)
      PROVE  worker'[w].pc \notin Loaded
  BY <1>6 DEF PublishManifest, PersistManifest, CloseSummary, ReadSummary,
              CloseRun
<1> QED
  BY <1>2, <1>3, <1>4, <1>5, <1>6

(* What a worker holds after a step is as far along as its place says.     *)
LEMMA HeldStep ==
  ASSUME RunInv, EvidenceInv, NEW w \in Workers, Step(w), SharedRowsGrow
  PROVE  HeldOK(worker[w])'
<1> DEFINE v == worker[w]
<1>1. /\ worker \in [Workers -> WorkerState] /\ v \in WorkerState
      /\ HeldOK(v)
  BY DEF RunInv, TypeInv, TypeOK, EvidenceInv
<1>2. v.pc # "idle" /\ MyRun(w) \in Runs /\ v.run = MyRun(w)
      /\ run[MyRun(w)].config = v.config
  BY StepMovesWorker, WorkerFields
     DEF OnlyWorkerMoves, RunInv, BusyRunsExist, MyRun
<1>3. CASE Convert(w)
  <2>1. PICK t : LET a == Structural(Current(w), t) IN
          /\ stored' = stored \cup {<<a, worker[w].config>>}
          /\ worker' = [worker EXCEPT ![w].pc = "register_structural",
                                      ![w].held = a]
    BY <1>3 DEF Convert
  <2>2. /\ worker'[w].pc = "register_structural"
        /\ <<worker'[w].held, worker'[w].config>> \in stored'
    BY <1>1, <2>1 DEF WorkerState
  <2> QED
    BY <2>2 DEF HeldOK, HoldingEvidence
<1>4. CASE RegisterStructural(w)
  <2>1. /\ worker'[w].pc = "record_qa"
        /\ <<Current(w), v.held, v.config>> \in derivation'
        /\ worker'[w].pos = v.pos /\ worker'[w].held = v.held
        /\ worker'[w].config = v.config
    BY <1>1, <1>4 DEF RegisterStructural, Register, Goto, WorkerState
  <2> QED
    BY <2>1 DEF HeldOK, HoldingEvidence, Current
<1>5. CASE RecordQa(w)
  <2>1. /\ worker'[w].pc \in {"record_fidelity", "mark_review", "store_text"}
        /\ worker'[w].pos = v.pos /\ worker'[w].held = v.held
        /\ worker'[w].config = v.config
        /\ v.pc = "record_qa" /\ derivation' = derivation
    BY <1>1, <1>5 DEF RecordQa, Goto, WorkerState, At
  <2> QED
    BY <1>1, <2>1 DEF HeldOK, HoldingEvidence
<1>6. CASE StoreText(w)
  <2>1. /\ worker'[w].pc = "register_text" /\ v.pc = "store_text"
        /\ worker'[w].pos = v.pos /\ worker'[w].held = v.held
        /\ worker'[w].config = v.config
        /\ <<Resolved(v.held.text), v.config>> \in stored'
        /\ derivation' = derivation
    BY <1>1, <1>6 DEF StoreText, Goto, WorkerState, At, ledgerRows
  <2> QED
    BY <1>1, <2>1 DEF HeldOK, HoldingEvidence
<1>7. CASE RegisterText(w)
  <2> DEFINE a == Resolved(v.held.text)
  <2>1. /\ v.pc = "register_text" /\ v.held \in StructuralArtifacts
        /\ <<Current(w), v.held, v.config>> \in derivation
    BY <1>1, <1>7, WorkerFields
       DEF RegisterText, At, HoldingCandidate, RunInv, HeldOK, Current
  <2>2. <<v.held, a, v.config>> \in derivation'
    BY <1>7 DEF RegisterText, Register
  <2>3. /\ worker'[w].pc = "mark_normalized" /\ worker'[w].held = a
        /\ worker'[w].pos = v.pos /\ worker'[w].config = v.config
    BY <1>1, <1>7 DEF RegisterText, WorkerState
  <2> HIDE DEF a
  <2>4. HasPath(v.held, Current(w), v.config)'
    BY <2>1, <2>2, <2>3 DEF HasPath, SharedRowsGrow, Current
  <2> QED
    BY <2>3, <2>4 DEF HeldOK, HasPath, Current
<1>8. CASE FindReusable(w)
  <2>1. CASE Goto(w, "mark_running")
    BY <1>1, <2>1, UnloadedIsOK DEF Goto, WorkerState, HeldOK, HoldingEvidence
  <2>2. ASSUME NEW a \in Reusable(Current(w), v.config),
               worker' = [worker EXCEPT ![w].pc = "record_reuse",
                                        ![w].held = a]
        PROVE  HeldOK(worker[w])'
    <3>1. HasPath(a, Current(w), v.config)
      BY DEF Reusable, HasPath
    <3>2. /\ worker'[w].pc = "record_reuse" /\ worker'[w].held = a
          /\ worker'[w].pos = v.pos /\ worker'[w].config = v.config
      BY <1>1, <2>2 DEF WorkerState
    <3>3. HasPath(a, Current(w), v.config)'
      BY <1>8, <3>1, <3>2 DEF FindReusable, ledgerRows, HasPath, Current
    <3> QED
      BY <3>2, <3>3 DEF HeldOK, HasPath, Current
  <2> QED
    BY <1>8, <2>1, <2>2 DEF FindReusable
<1>9. CASE RecordReuse(w)
  <2>1. /\ worker'[w].pc = "mark_reused" /\ v.pc = "record_reuse"
        /\ worker'[w].pos = v.pos /\ worker'[w].held = v.held
        /\ worker'[w].config = v.config /\ derivation' = derivation
    BY <1>1, <1>9 DEF RecordReuse, Goto, WorkerState, At
  <2> QED
    BY <1>1, <2>1 DEF HeldOK, HasPath, HoldingEvidence
<1>10. CASE ReadState(w)
  <2>1. /\ worker'[w].pc = "reconcile"
        /\ worker'[w].view.items = item[MyRun(w)]
        /\ worker'[w].config = v.config /\ derivation' = derivation
    BY <1>1, <1>10 DEF ReadState, WorkerState, ledgerRows
  <2>2. ASSUME NEW s \in Sources, item[MyRun(w)][s].artifact # None
        PROVE  HasPath(item[MyRun(w)][s].artifact, s, v.config)
    BY <1>2, <2>2 DEF EvidenceInv, ReferencesHavePaths
  <2> QED
    BY <2>1, <2>2 DEF HeldOK, ViewTraceable, HasPath, HoldingEvidence
<1>11. CASE /\ Reconcile(w) \/ FinalizeSummary(w) \/ ReservePublishedAt(w)
            /\ worker'[w].pc \in Loaded
  <2>1. /\ worker'[w].pc \in {"finalize_summary", "reserve", "publish"}
        /\ v.pc \in {"reconcile", "finalize_summary", "reserve"}
        /\ worker'[w].view = v.view /\ worker'[w].config = v.config
        /\ derivation' = derivation
    BY <1>1, <1>11
       DEF Reconcile, Compare, FinalizeSummary, ReservePublishedAt, Goto,
           Stop, IdleWorker, Loaded, WorkerState, At, ledgerRows
  <2> QED
    BY <1>1, <2>1 DEF HeldOK, ViewTraceable, HasPath, HoldingEvidence
<1>12. CASE worker'[w].pc \notin Loaded
  BY <1>12 DEF Loaded, HeldOK, HoldingEvidence
<1> QED
  BY <1>3, <1>4, <1>5, <1>6, <1>7, <1>8, <1>9, <1>10, <1>11, <1>12,
     StepUnloads
     DEF Step, ExecutorStep, FinalizerStep, RunInv

-----------------------------------------------------------------------------
(* Rows are backed by objects, and lineage by rows. *)

LEMMA RegisterBacks ==
  ASSUME RowsAreBacked, locator \in [Artifacts -> Configs \cup {None}],
         derivation \subseteq (Sources \cup Artifacts) \X Artifacts \X Configs,
         NEW parent \in Sources \cup Artifacts, NEW a \in Artifacts,
         NEW c \in Configs, Register(parent, a, c),
         <<a, c>> \in stored, stored' = stored
  PROVE  RowsAreBacked'
<1>1. c # None
  BY ConstantsOK DEF ConstantsAssumption
<1>2. \A b \in Artifacts : locator'[b] # None => <<b, locator'[b]>> \in stored
  BY DEF Register, RowsAreBacked
<1>3. ASSUME NEW d \in derivation'
      PROVE  locator'[d[2]] # None
  <2>1. CASE d \in derivation
    <3>1. d[2] \in Artifacts /\ locator[d[2]] # None
      BY <2>1 DEF RowsAreBacked
    <3> QED
      BY <3>1, <1>1 DEF Register
  <2>2. CASE d = <<parent, a, c>>
    BY <2>2, <1>1 DEF Register
  <2> QED
    BY <1>3, <2>1, <2>2 DEF Register
<1> QED
  BY <1>2, <1>3 DEF RowsAreBacked

LEMMA RowsStep ==
  ASSUME RunInv, EvidenceInv, NEW w \in Workers, Step(w)
  PROVE  RowsAreBacked'
<1>1. /\ locator \in [Artifacts -> Configs \cup {None}]
      /\ derivation \subseteq (Sources \cup Artifacts) \X Artifacts \X Configs
      /\ HeldOK(worker[w]) /\ RowsAreBacked
  BY DEF RunInv, TypeInv, TypeOK, EvidenceInv
<1>2. CASE RegisterStructural(w)
  <2>1. /\ worker[w].held \in StructuralArtifacts
        /\ Current(w) \in Sources /\ worker[w].config \in Configs
    BY <1>2, WorkerFields
       DEF RegisterStructural, At, RunInv, WorkerOK, HoldingCandidate,
           ItemSteps, Try, Current
  <2>2. <<worker[w].held, worker[w].config>> \in stored
    BY <1>1, <1>2 DEF RegisterStructural, At, HeldOK
  <2> QED
    BY <1>1, <1>2, <2>1, <2>2, RegisterBacks
       DEF RegisterStructural, objects, Artifacts
<1>3. CASE RegisterText(w)
  <2> DEFINE a == Resolved(worker[w].held.text)
  <2>1. /\ worker[w].held \in StructuralArtifacts
        /\ worker[w].config \in Configs
    BY <1>3, WorkerFields
       DEF RegisterText, At, RunInv, WorkerOK, HoldingCandidate
  <2>2. a \in ResolvedArtifacts
    BY <2>1 DEF Resolved, ResolvedArtifacts, StructuralArtifacts
  <2>3. <<a, worker[w].config>> \in stored
    BY <1>1, <1>3 DEF RegisterText, At, HeldOK
  <2> HIDE DEF a
  <2>4. Register(worker[w].held, a, worker[w].config) /\ stored' = stored
    BY <1>3 DEF RegisterText, objects, a
  <2> QED
    BY <1>1, <2>1, <2>2, <2>3, <2>4, RegisterBacks DEF Artifacts
<1>4. CASE /\ locator' = locator /\ derivation' = derivation
           /\ stored \subseteq stored'
  BY <1>1, <1>4 DEF RowsAreBacked
<1> QED
  BY <1>2, <1>3, <1>4
     DEF Step, ExecutorStep, FinalizerStep, ledgerRows, objects,
         SkipUnavailable, UnknownSource, Checkpoint, EnsureItem,
         FindReusable, RecordReuse, MarkReused, MarkRunning, Convert,
         RecordQa, MarkReview, StoreText, MarkNormalized, ItemFails,
         RecordFidelity, HandleError, FailRun, LeaveForRetry, Summarize,
         MarkReconciling, ReadState, Reconcile, Compare,
         FailReconciliation, FinalizeSummary,
         ReservePublishedAt, PublishManifest, PersistManifest, CloseSummary,
         CloseRun

-----------------------------------------------------------------------------
(* References have lineage. *)

(* What a step can do to an item's artifact: nothing, or hand it what the  *)
(* worker holds for that very source.                                      *)
LEMMA ArtifactStep ==
  ASSUME TypeInv, NEW w \in Workers, Step(w), NEW r \in Runs, NEW s \in Sources
  PROVE  \/ item'[r][s].artifact = item[r][s].artifact
         \/ /\ r = MyRun(w) /\ s = Current(w)
            /\ worker[w].pc \in {"mark_reused", "mark_review",
                                 "mark_normalized"}
            /\ item'[r][s].artifact = worker[w].held
<1>1. item \in [Runs -> [Sources -> Item]]
  BY DEF TypeInv, TypeOK
<1>2. ASSUME NEW status, NEW artifact,
             Transition(MyRun(w), Current(w), status, artifact)
      PROVE  \/ item'[r][s].artifact = item[r][s].artifact
             \/ /\ r = MyRun(w) /\ s = Current(w) /\ artifact # None
                /\ item'[r][s].artifact = artifact
  <2>1. CASE r = MyRun(w) /\ s = Current(w)
    BY <1>1, <1>2, <2>1 DEF Transition
  <2>2. CASE ~(r = MyRun(w) /\ s = Current(w))
    BY <1>1, <1>2, <2>2 DEF Transition
  <2> QED
    BY <2>1, <2>2
<1>3. CASE MarkReused(w) \/ MarkReview(w) \/ MarkNormalized(w)
  BY <1>2, <1>3 DEF MarkReused, MarkReview, MarkNormalized, At
<1>4. CASE \/ item' = item
           \/ \E status : Transition(MyRun(w), Current(w), status, None)
  BY <1>2, <1>4
<1> QED
  BY <1>3, <1>4
     DEF Step, ExecutorStep, FinalizerStep, ledgerRows, objects,
         SkipUnavailable, UnknownSource, Checkpoint, EnsureItem,
         FindReusable, RecordReuse, MarkRunning, Convert,
         RegisterStructural, RegisterText,
         RecordQa, StoreText, ItemFails, HandleRetryable, HandleFailure,
         RecordFidelity, HandleError, FailRun, LeaveForRetry, Summarize,
         MarkReconciling, ReadState, Reconcile, Compare,
         FailReconciliation, FinalizeSummary,
         ReservePublishedAt, PublishManifest, PersistManifest, CloseSummary,
         CloseRun

LEMMA PublishedStep ==
  ASSUME TypeInv, NEW w \in Workers, Step(w)
  PROVE  published' = published \/ PublishManifest(w)
  BY DEF Step, ExecutorStep, FinalizerStep, ledgerRows, objects,
         SkipUnavailable,
         UnknownSource, Checkpoint, EnsureItem, FindReusable, RecordReuse,
         MarkReused, MarkRunning, Convert, RegisterStructural, RecordQa,
         MarkReview, StoreText, RegisterText, MarkNormalized, ItemFails,
         RecordFidelity, HandleError, FailRun, LeaveForRetry, Summarize,
         MarkReconciling, ReadState, Reconcile, Compare,
         FailReconciliation, FinalizeSummary,
         ReservePublishedAt, PersistManifest, CloseSummary, CloseRun

LEMMA ReferencesStep ==
  ASSUME RunInv, EvidenceInv, NEW w \in Workers, Step(w), SharedRowsGrow
  PROVE  ReferencesHavePaths'
<1>1. /\ HeldOK(worker[w]) /\ ReferencesHavePaths
      /\ published \in [Runs -> SUBSET Manifest]
  BY DEF EvidenceInv, RunInv, TypeInv, TypeOK
<1>2. /\ \A r \in Runs : run'[r].config = run[r].config
      /\ derivation \subseteq derivation'
  BY StepChangesOwnRows DEF RunInv, OwnRowsChange, SharedRowsGrow
<1>3. MyRun(w) \in Runs /\ run[MyRun(w)].config = worker[w].config
  BY StepMovesWorker, WorkerFields DEF RunInv, OnlyWorkerMoves, BusyRunsExist
<1>4. ASSUME NEW r \in Runs, NEW s \in Sources,
             item'[r][s].artifact # None
      PROVE  HasPath(item[r][s].artifact, s, run[r].config)'
  <2>1. CASE item'[r][s].artifact = item[r][s].artifact
    BY <1>1, <1>2, <1>4, <2>1 DEF ReferencesHavePaths, HasPath
  <2>2. CASE /\ r = MyRun(w) /\ s = Current(w)
             /\ worker[w].pc \in {"mark_reused", "mark_normalized"}
             /\ item'[r][s].artifact = worker[w].held
    BY <1>1, <1>2, <1>3, <2>2 DEF HeldOK, HoldingEvidence, HasPath, Current
  <2>3. CASE /\ r = MyRun(w) /\ s = Current(w)
             /\ worker[w].pc = "mark_review"
             /\ item'[r][s].artifact = worker[w].held
    <3>1. worker[w].held \in StructuralArtifacts
      BY <2>3, WorkerFields DEF RunInv, WorkerOK, HoldingCandidate
    <3>2. <<s, worker[w].held, run[r].config>> \in derivation
      BY <1>1, <1>3, <2>3 DEF HeldOK, Current
    <3> QED
      BY <1>2, <2>3, <3>1, <3>2 DEF HasPath
  <2> QED
    BY <2>1, <2>2, <2>3, ArtifactStep DEF RunInv
<1>5. ASSUME NEW r \in Runs, NEW s \in Sources, NEW m \in published'[r],
             m.view.items[s].artifact # None
      PROVE  HasPath(m.view.items[s].artifact, s, run[r].config)'
  <2>1. HasPath(m.view.items[s].artifact, s, run[r].config)
    <3>1. CASE m \in published[r]
      BY <1>1, <1>5, <3>1 DEF ReferencesHavePaths
    <3>2. CASE m \notin published[r]
      <4>1. PublishManifest(w)
        BY <1>5, <3>2, PublishedStep DEF RunInv
      <4>2. r = MyRun(w) /\ m = MyManifest(w)
        BY <1>1, <1>5, <3>2, <4>1 DEF PublishManifest
      <4>3. m.view = worker[w].view
        BY <4>2 DEF MyManifest
      <4>4. ViewTraceable(worker[w])
        BY <1>1, <4>1 DEF PublishManifest, At, HeldOK
      <4> QED
        BY <1>3, <1>5, <4>2, <4>3, <4>4 DEF ViewTraceable
    <3> QED
      BY <3>1, <3>2
  <2> QED
    BY <1>2, <2>1 DEF HasPath
<1> QED
  BY <1>4, <1>5 DEF ReferencesHavePaths

-----------------------------------------------------------------------------
LEMMA EvidenceInvStep ==
  ASSUME RunInv, EvidenceInv, [Next]_vars
  PROVE  EvidenceInv'
<1>1. SharedRowsGrow
  BY StepGrowsSharedRows DEF RunInv
<1>2. ASSUME NEW w \in Workers, Step(w)
      PROVE  EvidenceInv'
  <2>1. ASSUME NEW u \in Workers
        PROVE  HeldOK(worker[u])'
    <3>1. CASE u = w
      BY <1>1, <1>2, <3>1, HeldStep
    <3>2. CASE u # w
      <4>1. worker'[u] = worker[u]
        BY <1>2, <3>2, StepMovesWorker DEF RunInv, OnlyWorkerMoves
      <4>2. HeldOK(worker[u])
        BY DEF EvidenceInv
      <4> QED
        BY <1>1, <4>1, <4>2, HeldStays DEF HeldOK, ViewTraceable, HasPath
    <3> QED
      BY <3>1, <3>2
  <2> QED
    BY <1>1, <1>2, <2>1, RowsStep, ReferencesStep DEF EvidenceInv
<1>3. ASSUME NEW w \in Workers, Begin(w) \/ Crash(w)
      PROVE  EvidenceInv'
  <2>1. /\ item' = item /\ locator' = locator /\ derivation' = derivation
        /\ stored' = stored /\ published' = published
        /\ \A u \in Workers \ {w} : worker'[u] = worker[u]
        /\ worker'[w].pc \in {"idle", "checkpoint", "read_state"}
        /\ \A r \in Runs : run'[r] = run[r] \/ run[r].status = "absent"
    BY <1>3, BeginOrCrash DEF RunInv
  <2>2. ASSUME NEW u \in Workers
        PROVE  HeldOK(worker[u])'
    <3>1. CASE u = w
      BY <2>1, <3>1 DEF HeldOK, HoldingEvidence
    <3>2. CASE u # w
      BY <2>1, <3>2 DEF EvidenceInv, HeldOK, ViewTraceable, HasPath
    <3> QED
      BY <3>1, <3>2
  <2>3. RowsAreBacked'
    BY <2>1 DEF EvidenceInv, RowsAreBacked
  <2>4. ReferencesHavePaths'
    BY <2>1 DEF EvidenceInv, ReferencesHavePaths, HasPath, RunInv,
                AbsentRunsAreBlank
  <2> QED
    BY <2>2, <2>3, <2>4 DEF EvidenceInv
<1>4. CASE UNCHANGED vars \/ \E s \in Sources : RegisterSource(s)
  BY <1>4
     DEF vars, RegisterSource, ledgerRows, objects, EvidenceInv,
         RowsAreBacked, ReferencesHavePaths, HasPath, HeldOK, ViewTraceable
<1> QED
  BY <1>2, <1>3, <1>4 DEF Next

(* Whatever an item or a published manifest names as a source's evidence   *)
(* was derived from that source under the run's own pipeline identity and  *)
(* its object is in the store, with any number of workers on shared runs,  *)
(* whatever dies between the object, the row, the lineage and the          *)
(* reference.                                                              *)
THEOREM EvidenceIsTraceable == Spec => []EvidenceTraceable
<1>1. Init => EvidenceInv
  BY DEF Init, EvidenceInv, RowsAreBacked, ReferencesHavePaths, HeldOK,
         HoldingEvidence, IdleWorker, NoView
<1>2. RunInv /\ EvidenceInv /\ [Next]_vars => EvidenceInv'
  BY EvidenceInvStep
<1>3. RunInv /\ EvidenceInv => EvidenceTraceable
  <2> SUFFICES ASSUME RunInv, EvidenceInv PROVE EvidenceTraceable
    OBVIOUS
  <2>1. ASSUME NEW a, NEW s, NEW c, HasPath(a, s, c)
        PROVE  Traceable(a, s, c)
    <3>1. PICK d \in derivation : d[2] = a
      BY <2>1 DEF HasPath
    <3>2. a \in Artifacts
      BY <3>1 DEF RunInv, TypeInv, TypeOK
    <3> QED
      BY <2>1, <3>1, <3>2
         DEF HasPath, Traceable, InStorage, EvidenceInv, RowsAreBacked
  <2> QED
    BY <2>1 DEF EvidenceInv, ReferencesHavePaths, EvidenceTraceable
<1> QED
  BY <1>1, <1>2, <1>3, RunInvInvariant, PTL DEF Spec

-----------------------------------------------------------------------------
(* Only clean text is evidence: risky text never gets past RecordQa, so no *)
(* lineage ever leads to a risky resolved text.                            *)

Clean(a) == a \in ResolvedArtifacts /\ a.text \notin Risky

CleanHeld(v) ==
  /\ v.pc \in {"store_text", "register_text"} => v.held.text \notin Risky
  /\ v.pc \in HoldingEvidence => Clean(v.held)

CleanLineage ==
  \A d \in derivation : d[2] \in ResolvedArtifacts => Clean(d[2])

CleanInv ==
  CleanLineage /\ OnlyCleanTextIsEvidence
    /\ \A w \in Workers : CleanHeld(worker[w])

LEMMA CleanHeldStep ==
  ASSUME TypeInv, CleanInv, NEW w \in Workers, Step(w)
  PROVE  CleanHeld(worker'[w])
<1> DEFINE v == worker[w]
<1>1. /\ worker \in [Workers -> WorkerState] /\ v \in WorkerState
      /\ CleanHeld(v)
  BY DEF TypeInv, TypeOK, CleanInv
<1>2. CASE Convert(w)
  <2>1. PICK a : worker' = [worker EXCEPT ![w].pc = "register_structural",
                                          ![w].held = a]
    BY <1>2 DEF Convert
  <2> QED
    BY <1>1, <2>1 DEF CleanHeld, HoldingEvidence, WorkerState
<1>3. CASE RegisterStructural(w)
  BY <1>1, <1>3 DEF RegisterStructural, Goto, CleanHeld, HoldingEvidence,
                    WorkerState
<1>4. CASE RecordQa(w)
  <2>1. /\ worker'[w].held = v.held
        /\ \/ worker'[w].pc \in {"record_fidelity", "mark_review"}
           \/ worker'[w].pc = "store_text" /\ v.held.text \notin Risky
    BY <1>1, <1>4 DEF RecordQa, Goto, WorkerState
  <2> QED
    BY <2>1 DEF CleanHeld, HoldingEvidence
<1>5. CASE StoreText(w)
  BY <1>1, <1>5 DEF StoreText, At, Goto, CleanHeld, HoldingEvidence,
                    WorkerState
<1>6. CASE RegisterText(w)
  <2> DEFINE a == Resolved(v.held.text)
  <2>1. v.held \in StructuralArtifacts /\ v.held.text \notin Risky
    BY <1>1, <1>6, WorkerFields
       DEF RegisterText, At, CleanHeld, WorkerOK, HoldingCandidate
  <2>2. Clean(a)
    BY <2>1 DEF Clean, Resolved, ResolvedArtifacts, StructuralArtifacts
  <2>3. worker'[w].pc = "mark_normalized" /\ worker'[w].held = a
    BY <1>1, <1>6 DEF RegisterText, WorkerState
  <2> QED
    BY <2>2, <2>3 DEF CleanHeld, HoldingEvidence
<1>7. CASE FindReusable(w)
  <2>1. CASE Goto(w, "mark_running")
    BY <1>1, <2>1 DEF Goto, CleanHeld, HoldingEvidence, WorkerState
  <2>2. ASSUME NEW a \in Reusable(Current(w), v.config),
               worker' = [worker EXCEPT ![w].pc = "record_reuse",
                                        ![w].held = a]
        PROVE  CleanHeld(worker'[w])
    <3>1. PICK p : <<p, a, v.config>> \in derivation
      BY DEF Reusable
    <3>2. Clean(a)
      BY <3>1 DEF CleanInv, CleanLineage, Reusable
    <3>3. worker'[w].pc = "record_reuse" /\ worker'[w].held = a
      BY <1>1, <2>2 DEF WorkerState
    <3> QED
      BY <3>2, <3>3 DEF CleanHeld, HoldingEvidence
  <2> QED
    BY <1>7, <2>1, <2>2 DEF FindReusable
<1>8. CASE RecordReuse(w)
  BY <1>1, <1>8 DEF RecordReuse, At, Goto, CleanHeld, HoldingEvidence,
                    WorkerState
<1>9. CASE ReadState(w) \/ Reconcile(w) \/ FinalizeSummary(w)
           \/ ReservePublishedAt(w)
  <2>1. worker'[w].pc \in {"idle", "reconcile", "finalize_summary",
                           "fail_reconciliation", "reserve", "publish"}
    BY <1>1, <1>9
       DEF ReadState, Reconcile, Compare, FinalizeSummary,
           ReservePublishedAt, Goto, Stop, IdleWorker, WorkerState
  <2> QED
    BY <2>1 DEF CleanHeld, HoldingEvidence
<1>10. CASE worker'[w].pc \notin Loaded
  BY <1>10 DEF Loaded, CleanHeld, HoldingEvidence
<1> QED
  BY <1>2, <1>3, <1>4, <1>5, <1>6, <1>7, <1>8, <1>9, <1>10, StepUnloads
     DEF Step, ExecutorStep, FinalizerStep

LEMMA CleanLineageStep ==
  ASSUME TypeInv, CleanInv, NEW w \in Workers, Step(w)
  PROVE  CleanLineage'
<1>1. CASE RegisterStructural(w)
  <2>1. worker[w].held \notin ResolvedArtifacts
    BY <1>1, WorkerFields
       DEF RegisterStructural, At, WorkerOK, HoldingCandidate,
           StructuralArtifacts, ResolvedArtifacts
  <2> QED
    BY <1>1, <2>1 DEF RegisterStructural, Register, CleanInv, CleanLineage
<1>2. CASE RegisterText(w)
  <2> DEFINE a == Resolved(worker[w].held.text)
  <2>1. CleanHeld(worker[w]) /\ worker[w].held \in StructuralArtifacts
    BY <1>2, WorkerFields
       DEF RegisterText, At, WorkerOK, HoldingCandidate, CleanInv
  <2>2. Clean(a)
    BY <1>2, <2>1 DEF RegisterText, At, CleanHeld, Clean, Resolved,
                      ResolvedArtifacts, StructuralArtifacts
  <2> HIDE DEF a
  <2>3. derivation' = derivation \cup {<<worker[w].held, a, worker[w].config>>}
    BY <1>2 DEF RegisterText, Register, a
  <2> QED
    BY <2>2, <2>3 DEF CleanInv, CleanLineage
<1>3. CASE derivation' = derivation
  BY <1>3 DEF CleanInv, CleanLineage
<1> QED
  BY <1>1, <1>2, <1>3
     DEF Step, ExecutorStep, FinalizerStep, ledgerRows, objects,
         SkipUnavailable, UnknownSource, Checkpoint, EnsureItem,
         FindReusable, RecordReuse, MarkReused, MarkRunning, Convert,
         RecordQa, MarkReview, StoreText, MarkNormalized, ItemFails,
         RecordFidelity, HandleError, FailRun, LeaveForRetry, Summarize,
         MarkReconciling, ReadState, Reconcile, Compare,
         FailReconciliation, FinalizeSummary,
         ReservePublishedAt, PublishManifest, PersistManifest, CloseSummary,
         CloseRun

(* The three marks are the only way to a status that needs evidence.       *)
LEMMA CleanItemsStep ==
  ASSUME TypeInv, CleanInv, NEW w \in Workers, Step(w)
  PROVE  OnlyCleanTextIsEvidence'
<1>1. item \in [Runs -> [Sources -> Item]] /\ CleanHeld(worker[w])
  BY DEF TypeInv, TypeOK, CleanInv
<1> DEFINE Backed(i) ==
      /\ i.status = "normalized" => Clean(i.artifact)
      /\ i.status = "quality_review_required" =>
           i.artifact \in StructuralArtifacts
<1>2. \A r \in Runs, s \in Sources : Backed(item[r][s])
  BY DEF CleanInv, OnlyCleanTextIsEvidence, Clean
<1>3. ASSUME NEW status, NEW artifact,
             Transition(MyRun(w), Current(w), status, artifact),
             \A old : Backed([status |-> status,
                artifact |-> IF artifact = None THEN old ELSE artifact])
      PROVE  \A r \in Runs, s \in Sources : Backed(item'[r][s])
  <2> HIDE DEF Backed
  <2> QED
    BY <1>1, <1>2, <1>3 DEF Transition
<1>4. CASE MarkReused(w) \/ MarkNormalized(w)
  <2>1. /\ Transition(MyRun(w), Current(w), "normalized", worker[w].held)
        /\ worker[w].pc \in HoldingEvidence
    BY <1>4 DEF MarkReused, MarkNormalized, At, HoldingEvidence
  <2>2. Clean(worker[w].held) /\ worker[w].held # None
    BY <1>1, <2>1, ConstantsOK DEF CleanHeld, Clean, Artifacts
  <2> QED
    BY <1>3, <2>1, <2>2 DEF OnlyCleanTextIsEvidence, Clean
<1>5. CASE MarkReview(w)
  <2>1. Transition(MyRun(w), Current(w), "quality_review_required",
                   worker[w].held)
    BY <1>5 DEF MarkReview
  <2>2. worker[w].held \in StructuralArtifacts /\ worker[w].held # None
    BY <1>5, WorkerFields, ConstantsOK
       DEF MarkReview, At, WorkerOK, HoldingCandidate, Artifacts
  <2> QED
    BY <1>3, <2>1, <2>2 DEF OnlyCleanTextIsEvidence, Clean
<1>6. ASSUME NEW status \in {"pending", "running", "failed"},
             Transition(MyRun(w), Current(w), status, None)
      PROVE  OnlyCleanTextIsEvidence'
  BY <1>3, <1>6 DEF OnlyCleanTextIsEvidence, Clean
<1>7. CASE item' = item
  BY <1>7 DEF CleanInv, OnlyCleanTextIsEvidence
<1> QED
  BY <1>4, <1>5, <1>6, <1>7
     DEF Step, ExecutorStep, FinalizerStep, ledgerRows, objects,
         SkipUnavailable, UnknownSource, Checkpoint, EnsureItem,
         FindReusable, RecordReuse, MarkRunning, Convert,
         RegisterStructural, RegisterText,
         RecordQa, StoreText, ItemFails, HandleRetryable, HandleFailure,
         RecordFidelity, HandleError, FailRun, LeaveForRetry, Summarize,
         MarkReconciling, ReadState, Reconcile, Compare,
         FailReconciliation, FinalizeSummary,
         ReservePublishedAt, PublishManifest, PersistManifest, CloseSummary,
         CloseRun

LEMMA CleanInvStep ==
  ASSUME TypeInv, CleanInv, [Next]_vars
  PROVE  CleanInv'
<1>1. ASSUME NEW w \in Workers, Step(w)
      PROVE  CleanInv'
  <2>1. ASSUME NEW u \in Workers
        PROVE  CleanHeld(worker'[u])
    <3>1. CASE u = w
      BY <1>1, <3>1, CleanHeldStep
    <3>2. CASE u # w
      BY <1>1, <3>2, StepMovesWorker DEF OnlyWorkerMoves, CleanInv
    <3> QED
      BY <3>1, <3>2
  <2> QED
    BY <1>1, <2>1, CleanLineageStep, CleanItemsStep
       DEF CleanInv, CleanHeld, Clean
<1>2. ASSUME NEW w \in Workers, Begin(w) \/ Crash(w)
      PROVE  CleanInv'
  <2>1. /\ item' = item /\ derivation' = derivation
        /\ \A u \in Workers \ {w} : worker'[u] = worker[u]
        /\ worker'[w].pc \in {"idle", "checkpoint", "read_state"}
    BY <1>2, BeginOrCrash
  <2> QED
    BY <2>1 DEF CleanInv, CleanLineage, CleanHeld, OnlyCleanTextIsEvidence,
                Clean, HoldingEvidence
<1>3. CASE UNCHANGED vars \/ \E s \in Sources : RegisterSource(s)
  BY <1>3
     DEF vars, RegisterSource, ledgerRows, objects, CleanInv, CleanLineage,
         CleanHeld, OnlyCleanTextIsEvidence, Clean
<1> QED
  BY <1>1, <1>2, <1>3 DEF Next

(* A normalized item's evidence is resolved text that passed the quality   *)
(* check, and an item under review keeps its structural candidate, in any  *)
(* run of any number of workers that share artifacts and reuse them.       *)
THEOREM EvidenceIsClean == Spec => []OnlyCleanTextIsEvidence
<1>1. Init => CleanInv
  BY DEF Init, CleanInv, CleanLineage, CleanHeld, OnlyCleanTextIsEvidence,
         HoldingEvidence, IdleWorker, NoView
<1>2. TypeInv /\ CleanInv /\ [Next]_vars => CleanInv'
  BY CleanInvStep
<1>3. CleanInv => OnlyCleanTextIsEvidence
  BY DEF CleanInv
<1> QED
  BY <1>1, <1>2, <1>3, InitType, StepType, PTL DEF Spec

-----------------------------------------------------------------------------
(* Publication waits for every planned source: a worker that passed        *)
(* reconciliation has resolved them all, and a source is never removed.    *)

Publishing == {"finalize_summary", "reserve", "publish"}

KnownInv ==
  /\ UnknownSourceNeverPublished
  /\ \A w \in Workers :
       worker[w].pc \in Publishing => Planned \subseteq registered

LEMMA OnlyReconcileLeadsToPublishing ==
  ASSUME TypeInv, NEW w \in Workers, Step(w), worker'[w].pc \in Publishing
  PROVE  \/ worker[w].pc \in Publishing
         \/ Reconcile(w) /\ Planned \subseteq registered
<1>1. worker \in [Workers -> WorkerState] /\ worker[w] \in WorkerState
  BY DEF TypeInv, TypeOK
<1>2. ASSUME \/ Convert(w) \/ RegisterStructural(w) \/ RecordQa(w)
             \/ StoreText(w) \/ RegisterText(w) \/ FindReusable(w)
             \/ RecordReuse(w) \/ ReadState(w)
      PROVE  worker'[w].pc \notin Publishing
  BY <1>1, <1>2
     DEF Convert, RegisterStructural, RecordQa, StoreText, RegisterText,
         FindReusable, RecordReuse, ReadState, Goto, WorkerState, Publishing
<1>3. ASSUME Reconcile(w), ~(Planned \subseteq registered)
      PROVE  worker'[w].pc \notin Publishing
  BY <1>1, <1>3 DEF Reconcile, Stop, IdleWorker, Publishing
<1>4. ASSUME FinalizeSummary(w) \/ ReservePublishedAt(w)
      PROVE  worker[w].pc \in Publishing
  BY <1>4 DEF FinalizeSummary, ReservePublishedAt, At, Publishing
<1>5. worker'[w].pc \in Loaded
  BY DEF Publishing, Loaded
<1> QED
  BY <1>2, <1>3, <1>4, <1>5, StepUnloads
     DEF Step, ExecutorStep, FinalizerStep

LEMMA KnownInvStep ==
  ASSUME RunInv, KnownInv, [Next]_vars
  PROVE  KnownInv'
<1>1. TypeInv
  BY DEF RunInv
<1>2. ASSUME NEW w \in Workers, Step(w)
      PROVE  KnownInv'
  <2>1. registered' = registered
    BY <1>2
       DEF Step, ExecutorStep, FinalizerStep, environment, SkipUnavailable,
           UnknownSource, Checkpoint, EnsureItem, FindReusable, RecordReuse,
           MarkReused, MarkRunning, Convert, RegisterStructural, RecordQa,
           MarkReview, StoreText, RegisterText, MarkNormalized, ItemFails,
           RecordFidelity, HandleError, FailRun, LeaveForRetry, Summarize,
           MarkReconciling, ReadState, Reconcile, FailReconciliation,
           FinalizeSummary, ReservePublishedAt, PublishManifest,
           PersistManifest, CloseSummary, CloseRun
  <2>2. ASSUME NEW u \in Workers, worker'[u].pc \in Publishing
        PROVE  Planned \subseteq registered
    <3>1. CASE u = w
      BY <1>1, <1>2, <2>2, <3>1, OnlyReconcileLeadsToPublishing DEF KnownInv
    <3>2. CASE u # w
      BY <1>1, <1>2, <2>2, <3>2, StepMovesWorker DEF OnlyWorkerMoves, KnownInv
    <3> QED
      BY <3>1, <3>2
  <2>3. ASSUME NEW r \in Runs, published'[r] # {}
        PROVE  Planned \subseteq registered
    <3>1. published' = published \/ PublishManifest(w)
      BY <1>1, <1>2, PublishedStep
    <3>2. ASSUME PublishManifest(w)
          PROVE  Planned \subseteq registered
      BY <3>2 DEF PublishManifest, At, KnownInv, Publishing
    <3> QED
      BY <2>3, <3>1, <3>2 DEF KnownInv, UnknownSourceNeverPublished
  <2> QED
    BY <2>1, <2>2, <2>3 DEF KnownInv, UnknownSourceNeverPublished, Planned
<1>3. ASSUME NEW w \in Workers, Begin(w) \/ Crash(w)
      PROVE  KnownInv'
  <2>1. registered' = registered
    BY <1>3 DEF Begin, CreateRun, ResumeRun, RetryFinalizer, Crash,
                environment
  <2> QED
    BY <1>1, <1>3, <2>1, BeginOrCrash
       DEF KnownInv, UnknownSourceNeverPublished, Planned, Publishing
<1>4. CASE UNCHANGED vars \/ \E s \in Sources : RegisterSource(s)
  BY <1>4 DEF vars, RegisterSource, ledgerRows, objects, KnownInv,
              UnknownSourceNeverPublished, Planned
<1> QED
  BY <1>2, <1>3, <1>4 DEF Next

(* Whatever the plan and whoever finalizes, nothing is published for a run *)
(* while one of its planned sources has no row in source_artifacts         *)
(* (resolve_source_artifact_id in finalize).                               *)
THEOREM UnknownSourcesBlockPublication ==
  Spec => []UnknownSourceNeverPublished
<1>1. Init => KnownInv
  BY DEF Init, KnownInv, UnknownSourceNeverPublished, IdleWorker, Publishing
<1>2. RunInv /\ KnownInv /\ [Next]_vars => KnownInv'
  BY KnownInvStep
<1>3. KnownInv => UnknownSourceNeverPublished
  BY DEF KnownInv
<1> QED
  BY <1>1, <1>2, <1>3, RunInvInvariant, PTL DEF Spec
=============================================================================
