--------------------------- MODULE NormalizationRun ---------------------------
(***************************************************************************)
(* The durable normalization control plane of JurisNexo: workers that run  *)
(* NormalizationExecutor.execute and NormalizationFinalizer.finalize over  *)
(* one plan, against the PostgreSQL ledger (PostgresNormalizationLedger)   *)
(* and the S3-compatible object store.                                     *)
(*                                                                         *)
(* Every connection is in autocommit mode, so each `with                   *)
(* connection.transaction()` block is one atomic step and each bare SELECT *)
(* is a step of its own; between two steps any other worker may act and    *)
(* the worker may die.  A worker's Python state (loop position, counters,  *)
(* circuit breaker, what it read) is lost with it; the ledger and the      *)
(* object store survive.                                                   *)
(***************************************************************************)
EXTENDS Naturals, Sequences, FiniteSets

CONSTANTS
  Workers,         \* worker processes (jurisnexo-normalize-run)
  Runs,            \* ids a normalization run may get
  Configs,         \* pipeline/config identities
  Sources,         \* source artifacts, by sha256
  Registered,      \* those in corpus.source_artifacts from the start
  HasReference,    \* those with a source-native text reference (PDF)
  Texts,           \* texts a conversion can produce
  Risky,           \* those assess_text_quality sends to review
  Conversions,     \* Conversions[s]: the texts converting s can produce
  Plan,            \* the plan's items in order
  Unavailable,     \* the plan item whose disposition is skip_unavailable
  Stamps,          \* publication timestamps
  Threshold,       \* --circuit-breaker-threshold
  MaxCrashes,      \* bound: worker deaths
  MaxRetries,      \* bound: failures classified as retryable
  FinalizerRetry,  \* whether finalize() is run again on a reconciling run
  None

ConstantsAssumption ==
  /\ IsFiniteSet(Sources) /\ Registered \subseteq Sources
  /\ HasReference \subseteq Sources
  /\ Risky \subseteq Texts
  /\ Conversions \in [Sources -> SUBSET Texts]
  /\ Unavailable \notin Sources
  /\ Plan \in Seq(Sources \cup {Unavailable})
  /\ Stamps # {} /\ None \notin Stamps
  /\ None \notin Configs
  /\ Threshold \in Nat \ {0}
  /\ MaxCrashes \in Nat /\ MaxRetries \in Nat
  /\ FinalizerRetry \in BOOLEAN

(* derived_artifacts rows are unique by (scope, sha256, kind): content and *)
(* kind identify an artifact.  The structural JSON embeds the identity of  *)
(* the source file; the resolved evidence text is the text alone.          *)
Structural(s, t) == [kind |-> "docling-json", source |-> s, text |-> t]
Resolved(t) == [kind |-> "resolved-evidence-text", text |-> t]
StructuralArtifacts ==
  [kind : {"docling-json"}, source : Sources, text : Texts]
ResolvedArtifacts == [kind : {"resolved-evidence-text"}, text : Texts]
Artifacts == StructuralArtifacts \cup ResolvedArtifacts

ItemStatus == {"absent", "pending", "running", "normalized",
               "quality_review_required", "failed", "skipped"}
TerminalItem ==
  {"normalized", "quality_review_required", "failed", "skipped"}
RunStatus == {"absent", "running", "reconciling", "succeeded",
              "completed_with_errors", "failed"}
Closed == {"succeeded", "completed_with_errors"}

Item == [status : ItemStatus, artifact : Artifacts \cup {None}]
View == [items : [Sources -> Item], quality : SUBSET Sources]
Tally == [ItemStatus -> Nat]
Manifest == [view : View, publishedAt : Stamps]
ManifestRow == [manifest : Manifest, tally : Tally]

ASSUME ConstantsOK ==
  ConstantsAssumption /\ None \notin Artifacts /\ None \notin ManifestRow

VARIABLES
  run,         \* normalization_runs: [Runs -> status, config, tally, stamp]
  item,        \* normalization_run_items: [Runs -> [Sources -> Item]]
  quality,     \* sources with a deterministic_qa or reuse_validation row
  locator,     \* derived_artifacts: the pipeline in storage_locator, or None
  derivation,  \* artifact_derivations: <<parent, artifact, config>>
  manifestRow, \* normalization_manifests: at most one row per run
  stored,      \* derived objects in the store: <<artifact, config>>
  published,   \* manifest objects in the store, per run
  worker,      \* the Python state of each worker process
  registered,  \* sources with a row in corpus.source_artifacts
  crashes,     \* worker deaths so far (bounded by MaxCrashes)
  retries      \* retryable failures so far (bounded by MaxRetries)

vars == <<run, item, quality, locator, derivation, manifestRow, stored,
          published, worker, registered, crashes, retries>>

-----------------------------------------------------------------------------
(* The worker's local state. *)

Try == {"convert", "register_structural", "record_qa", "record_fidelity",
        "mark_review", "store_text", "register_text", "mark_normalized"}
Steps == Try \cup
  {"idle", "checkpoint", "ensure_item", "find_reusable", "record_reuse",
   "mark_reused", "mark_running", "fail_run", "summarize",
   "mark_reconciling", "read_state", "reconcile", "fail_reconciliation",
   "finalize_summary", "reserve", "publish", "persist", "close_summary",
   "close"}

NoView == [items |-> [s \in Sources |-> [status |-> "absent",
                                         artifact |-> None]],
           quality |-> {}]
NoTally == [st \in ItemStatus |-> 0]

WorkerState ==
  [pc : Steps, run : Runs \cup {None}, config : Configs \cup {None},
   pos : Nat, deferred : BOOLEAN, streak : Nat,
   held : Artifacts \cup {None}, view : View, tally : Tally,
   stamp : Stamps \cup {None}]

IdleWorker ==
  [pc |-> "idle", run |-> None, config |-> None, pos |-> 1,
   deferred |-> FALSE, streak |-> 0, held |-> None, view |-> NoView,
   tally |-> NoTally, stamp |-> None]

At(w, pc) == worker[w].pc = pc
Goto(w, pc) == worker' = [worker EXCEPT ![w].pc = pc]
Stop(w) == worker' = [worker EXCEPT ![w] = IdleWorker]
MyRun(w) == worker[w].run
Current(w) == Plan[worker[w].pos]
MyItem(w) == item[MyRun(w)][Current(w)]
NextItem(w) ==
  worker' = [worker EXCEPT ![w].pc = "checkpoint", ![w].pos = @ + 1,
                           ![w].held = None]

(* PostgresNormalizationLedger._transition: an unconditional UPDATE that    *)
(* keeps the old artifact when it is given none.                           *)
Transition(r, s, status, artifact) ==
  item' = [item EXCEPT ![r][s] =
             [status |-> status,
              artifact |-> IF artifact = None THEN @.artifact ELSE artifact]]

ledgerRows == <<run, item, quality, locator, derivation, manifestRow>>
objects == <<stored, published>>
environment == <<registered, crashes, retries>>

-----------------------------------------------------------------------------
(* The worker starts, resumes or finalizes a run. *)

CreateRun(w, r, c) ==
  /\ At(w, "idle") /\ run[r].status = "absent"
  /\ run' = [run EXCEPT ![r] = [status |-> "running", config |-> c,
                                tally |-> NoTally, stamp |-> None]]
  /\ worker' = [worker EXCEPT ![w] =
       [IdleWorker EXCEPT !.pc = "checkpoint", !.run = r, !.config = c]]
  /\ UNCHANGED <<item, quality, locator, derivation, manifestRow, objects,
                 environment>>

(* validate_resume_run: only a running run, and only with its identity. *)
ResumeRun(w, r, c) ==
  /\ At(w, "idle") /\ run[r].status = "running" /\ run[r].config = c
  /\ worker' = [worker EXCEPT ![w] =
       [IdleWorker EXCEPT !.pc = "checkpoint", !.run = r, !.config = c]]
  /\ UNCHANGED <<ledgerRows, objects, environment>>

(* finalize() called again on a run whose finalizer died, as the           *)
(* finalizer-retry drill and its integration test do.                      *)
RetryFinalizer(w, r) ==
  /\ FinalizerRetry
  /\ At(w, "idle") /\ run[r].status = "reconciling"
  /\ worker' = [worker EXCEPT ![w] =
       [IdleWorker EXCEPT !.pc = "read_state", !.run = r,
                          !.config = run[r].config]]
  /\ UNCHANGED <<ledgerRows, objects, environment>>

-----------------------------------------------------------------------------
(* NormalizationExecutor.execute: one pass over the plan. *)

SkipUnavailable(w) ==
  /\ At(w, "checkpoint") /\ worker[w].pos <= Len(Plan)
  /\ Current(w) = Unavailable
  /\ NextItem(w)
  /\ UNCHANGED <<ledgerRows, objects, environment>>

(* resolve_source_artifact_id raises KeyError outside the item's try.      *)
UnknownSource(w) ==
  /\ At(w, "checkpoint") /\ worker[w].pos <= Len(Plan)
  /\ Current(w) \in Sources \ registered
  /\ Stop(w)
  /\ UNCHANGED <<ledgerRows, objects, environment>>

(* Mutants: a resumed run tries its failed items again; a resumed run      *)
(* leaves alone the item a dead worker was on.                             *)
AlreadyDoneButFailed(status) == status \in TerminalItem \ {"failed"}
AlreadyDoneOrTaken(status) == status \in TerminalItem \cup {"running"}
(* The checkpoint statuses execute passes over.                            *)
AlreadyDone(status) == status \in TerminalItem

Checkpoint(w) ==
  /\ At(w, "checkpoint") /\ worker[w].pos <= Len(Plan)
  /\ Current(w) \in registered
  /\ IF AlreadyDone(MyItem(w).status)
     THEN NextItem(w) ELSE Goto(w, "ensure_item")
  /\ UNCHANGED <<ledgerRows, objects, environment>>

EnsureItem(w) ==
  /\ At(w, "ensure_item")
  /\ IF MyItem(w).status = "absent"
     THEN Transition(MyRun(w), Current(w), "pending", None)
     ELSE UNCHANGED item
  /\ Goto(w, "find_reusable")
  /\ UNCHANGED <<run, quality, locator, derivation, manifestRow, objects,
                 environment>>

(* Mutants: reuse across configurations; reuse of a structural candidate.  *)
ReusableAnyConfig(s, c) ==
  {a \in ResolvedArtifacts :
     \E p \in StructuralArtifacts, c1 \in Configs :
       <<s, p, c1>> \in derivation /\ <<p, a, c1>> \in derivation}
ReusableCandidate(s, c) ==
  {p \in StructuralArtifacts : <<s, p, c>> \in derivation}
(* The resolved artifacts find_reusable_artifact's join returns for s.  The *)
(* code takes the newest; the model takes any of them.                     *)
Reusable(s, c) ==
  {a \in ResolvedArtifacts :
     \E p \in StructuralArtifacts :
       <<s, p, c>> \in derivation /\ <<p, a, c>> \in derivation}

FindReusable(w) ==
  /\ At(w, "find_reusable")
  /\ LET found == Reusable(Current(w), worker[w].config) IN
       \/ /\ found = {} /\ Goto(w, "mark_running")
       \/ \E a \in found :
            worker' = [worker EXCEPT ![w].pc = "record_reuse",
                                     ![w].held = a]
  /\ UNCHANGED <<ledgerRows, objects, environment>>

RecordReuse(w) ==
  /\ At(w, "record_reuse")
  /\ quality' = [quality EXCEPT ![MyRun(w)] = @ \cup {Current(w)}]
  /\ Goto(w, "mark_reused")
  /\ UNCHANGED <<run, item, locator, derivation, manifestRow, objects,
                 environment>>

MarkReused(w) ==
  /\ At(w, "mark_reused")
  /\ Transition(MyRun(w), Current(w), "normalized", worker[w].held)
  /\ NextItem(w)
  /\ UNCHANGED <<run, quality, locator, derivation, manifestRow, objects,
                 environment>>

MarkRunning(w) ==
  /\ At(w, "mark_running")
  /\ Transition(MyRun(w), Current(w), "running", None)
  /\ Goto(w, "convert")
  /\ UNCHANGED <<run, quality, locator, derivation, manifestRow, objects,
                 environment>>

(* Read the source, inspect it, convert it and put the structural JSON     *)
(* under its content-addressed key (an object already there is left).      *)
Convert(w) ==
  /\ At(w, "convert")
  /\ \E t \in Conversions[Current(w)] :
       LET a == Structural(Current(w), t) IN
         /\ stored' = stored \cup {<<a, worker[w].config>>}
         /\ worker' = [worker EXCEPT ![w].pc = "register_structural",
                                     ![w].held = a]
  /\ UNCHANGED <<ledgerRows, published, environment>>

(* Mutant: no lineage when the artifact's row was already there.           *)
RegisterNewOnly(parent, a, c) ==
  /\ locator' = [locator EXCEPT ![a] = IF @ = None THEN c ELSE @]
  /\ derivation' = IF locator[a] = None
                   THEN derivation \cup {<<parent, a, c>>} ELSE derivation
(* The row keeps the storage_locator of its first registration; the        *)
(* derivation is inserted in the same transaction.                         *)
Register(parent, a, c) ==
  /\ locator' = [locator EXCEPT ![a] = IF @ = None THEN c ELSE @]
  /\ derivation' = derivation \cup {<<parent, a, c>>}

RegisterStructural(w) ==
  /\ At(w, "register_structural")
  /\ Register(Current(w), worker[w].held, worker[w].config)
  /\ Goto(w, "record_qa")
  /\ UNCHANGED <<run, item, quality, manifestRow, objects, environment>>

(* deterministic_qa, then the branch the two quality checks take: a source *)
(* with a native reference goes on to record its fidelity assessment.      *)
RecordQa(w) ==
  /\ At(w, "record_qa")
  /\ quality' = [quality EXCEPT ![MyRun(w)] = @ \cup {Current(w)}]
  /\ Goto(w, IF Current(w) \in HasReference THEN "record_fidelity"
             ELSE IF worker[w].held.text \in Risky THEN "mark_review"
             ELSE "store_text")
  /\ UNCHANGED <<run, item, locator, derivation, manifestRow, objects,
                 environment>>

MarkReview(w) ==
  /\ At(w, "mark_review")
  /\ Transition(MyRun(w), Current(w), "quality_review_required",
                worker[w].held)
  /\ worker' = [worker EXCEPT ![w].pc = "checkpoint", ![w].pos = @ + 1,
                              ![w].held = None, ![w].streak = 0]
  /\ UNCHANGED <<run, quality, locator, derivation, manifestRow, objects,
                 environment>>

StoreText(w) ==
  /\ At(w, "store_text")
  /\ stored' = stored \cup
       {<<Resolved(worker[w].held.text), worker[w].config>>}
  /\ Goto(w, "register_text")
  /\ UNCHANGED <<ledgerRows, published, environment>>

RegisterText(w) ==
  /\ At(w, "register_text")
  /\ LET a == Resolved(worker[w].held.text) IN
       /\ Register(worker[w].held, a, worker[w].config)
       /\ worker' = [worker EXCEPT ![w].pc = "mark_normalized",
                                   ![w].held = a]
  /\ UNCHANGED <<run, item, quality, manifestRow, objects, environment>>

MarkNormalized(w) ==
  /\ At(w, "mark_normalized")
  /\ Transition(MyRun(w), Current(w), "normalized", worker[w].held)
  /\ worker' = [worker EXCEPT ![w].pc = "checkpoint", ![w].pos = @ + 1,
                              ![w].held = None, ![w].streak = 0]
  /\ UNCHANGED <<run, quality, locator, derivation, manifestRow, objects,
                 environment>>

-----------------------------------------------------------------------------
(* Failures inside the item's try. *)

(* normalization_observations.observation_kind, as its CHECK lists it.     *)
ObservationKinds ==
  {"native_text", "ocr_text", "deterministic_qa", "text_quality_judge",
   "visual_verification", "human_review", "sentinel_selection",
   "reuse_validation"}

FailureClass == {"permanent_document", "quality_review",
                 "retryable_infrastructure", "systemic"}

(* classify_normalization_error reads the exception's text.  Only reading, *)
(* inspecting and converting the document raise document errors.  A        *)
(* rejected row's message quotes the row, whose ids may contain the digits *)
(* the retryable class looks for.                                          *)
ClassesAt(pc) ==
  IF pc = "convert" THEN FailureClass
  ELSE {"retryable_infrastructure", "systemic"}

(* The except block: mark the item, count a systemic failure, go on with   *)
(* the next item or, once Threshold systemic failures have piled up, fail  *)
(* the run.                                                                *)
HandleRetryable(w) ==
  /\ retries < MaxRetries
  /\ retries' = retries + 1
  /\ Transition(MyRun(w), Current(w), "pending", None)
  /\ worker' = [worker EXCEPT ![w].pc = "checkpoint", ![w].pos = @ + 1,
                              ![w].held = None, ![w].deferred = TRUE]

HandleFailure(w, class) ==
  LET streak == worker[w].streak + (IF class = "systemic" THEN 1 ELSE 0) IN
    /\ Transition(MyRun(w), Current(w), "failed", None)
    /\ worker' = [worker EXCEPT
         ![w].pc = IF class = "systemic" /\ streak >= Threshold
                   THEN "fail_run" ELSE "checkpoint",
         ![w].pos = @ + 1, ![w].held = None, ![w].streak = streak]
    /\ UNCHANGED retries

HandleError(w, class) ==
  /\ \/ class = "retryable_infrastructure" /\ HandleRetryable(w)
     \/ class # "retryable_infrastructure" /\ HandleFailure(w, class)
  /\ UNCHANGED <<run, quality, locator, derivation, manifestRow, objects,
                 registered, crashes>>

(* Any call inside the try may raise: before its effect, or after it when  *)
(* only the answer is lost (the worker is then already at the next step).  *)
ItemFails(w) ==
  /\ worker[w].pc \in Try \ {"record_fidelity"}
  /\ \E class \in ClassesAt(worker[w].pc) : HandleError(w, class)

(* record_observation("source_fidelity_qa"): the CHECK rejects the kind.   *)
RecordFidelity(w) ==
  /\ At(w, "record_fidelity") /\ "source_fidelity_qa" \notin ObservationKinds
  /\ \E class \in ClassesAt("record_fidelity") : HandleError(w, class)

(* Mutant: fail_run without its status guard.                              *)
CanFailAlways(r) == run[r].status # "absent"
CanFail(r) == run[r].status \notin Closed

(* fail_run after the breaker opened.  The worker then calls finalize()    *)
(* unless some item is left for a retry.                                   *)
FailRun(w) ==
  /\ At(w, "fail_run")
  /\ IF CanFail(MyRun(w))
     THEN /\ run' = [run EXCEPT ![MyRun(w)].status = "failed"]
          /\ IF worker[w].deferred THEN Stop(w) ELSE Goto(w, "read_state")
     ELSE Stop(w) /\ UNCHANGED run
  /\ UNCHANGED <<item, quality, locator, derivation, manifestRow, objects,
                 environment>>

-----------------------------------------------------------------------------
(* The end of the pass: wait for a retry, or hand over to the finalizer.   *)

TallyOf(items) ==
  [st \in ItemStatus |-> IF st = "absent" THEN 0
     ELSE Cardinality({s \in Sources : items[s].status = st})]
Unfinished(tally) == tally["pending"] > 0 \/ tally["running"] > 0
(* Mutant: a status the schema and the reports do not know.                *)
VerdictUnknown(tally) ==
  IF tally["failed"] = 0 /\ tally["quality_review_required"] = 0
  THEN "succeeded" ELSE "completed"
Verdict(tally) ==
  IF tally["failed"] = 0 /\ tally["quality_review_required"] = 0
  THEN "succeeded" ELSE "completed_with_errors"

PassEnded(w) == At(w, "checkpoint") /\ worker[w].pos > Len(Plan)

LeaveForRetry(w) ==
  /\ PassEnded(w) /\ worker[w].deferred
  /\ Stop(w)
  /\ UNCHANGED <<ledgerRows, objects, environment>>

(* mark_reconciling and close_run begin with a summary in a statement of   *)
(* its own and raise when it shows an unfinished item.                     *)
ReadSummary(w, next) ==
  LET tally == TallyOf(item[MyRun(w)]) IN
    IF Unfinished(tally) THEN Stop(w)
    ELSE worker' = [worker EXCEPT ![w].pc = next, ![w].tally = tally]

Summarize(w) ==
  /\ PassEnded(w) /\ ~worker[w].deferred
  /\ ReadSummary(w, "mark_reconciling")
  /\ UNCHANGED <<ledgerRows, objects, environment>>

MarkReconciling(w) ==
  /\ At(w, "mark_reconciling")
  /\ IF run[MyRun(w)].status = "running"
     THEN /\ run' = [run EXCEPT ![MyRun(w)].status = "reconciling",
                                ![MyRun(w)].tally = worker[w].tally]
          /\ Goto(w, "read_state")
     ELSE Stop(w) /\ UNCHANGED run
  /\ UNCHANGED <<item, quality, locator, derivation, manifestRow, objects,
                 environment>>

-----------------------------------------------------------------------------
(* NormalizationFinalizer.finalize *)

Planned == {Plan[i] : i \in 1..Len(Plan)} \ {Unavailable}
RunItems(view) == {s \in Sources : view.items[s].status # "absent"}
Referenced(view) == {view.items[s].artifact : s \in Sources} \ {None}
HasLineage(a) == \E d \in derivation : d[2] = a
InStorage(a) == locator[a] # None /\ <<a, locator[a]>> \in stored
Reported(view) ==
  view.quality \cup {s \in Sources :
                       view.items[s].status \in {"failed", "skipped"}}

(* reconcile_normalization(...).can_close *)
CanClose(planned, view) ==
  /\ planned \subseteq RunItems(view)
  /\ RunItems(view) \subseteq planned
  /\ \A a \in Referenced(view) : HasLineage(a) /\ InStorage(a)
  /\ planned \subseteq Reported(view)

(* reconciliation_state reads items and quality in one statement.  The     *)
(* lineage, locator and storage reads that follow it only concern tables   *)
(* and objects that never lose a row; they are part of the next step.      *)
ReadState(w) ==
  /\ At(w, "read_state")
  /\ worker' = [worker EXCEPT
       ![w].pc = "reconcile",
       ![w].view = [items |-> item[MyRun(w)], quality |-> quality[MyRun(w)]]]
  /\ UNCHANGED <<ledgerRows, objects, environment>>

Compare(w, planned) ==
  Goto(w, IF CanClose(planned, worker[w].view) THEN "finalize_summary"
          ELSE "fail_reconciliation")
(* Mutant: the finalizer drops the sources it cannot resolve.              *)
ReconcileKnown(w) ==
  /\ At(w, "reconcile")
  /\ Compare(w, Planned \cap registered)
  /\ UNCHANGED <<ledgerRows, objects, environment>>
(* resolve_source_artifact_id raises KeyError for a source not registered. *)
Reconcile(w) ==
  /\ At(w, "reconcile")
  /\ IF Planned \subseteq registered THEN Compare(w, Planned) ELSE Stop(w)
  /\ UNCHANGED <<ledgerRows, objects, environment>>

FailReconciliation(w) ==
  /\ At(w, "fail_reconciliation")
  /\ IF CanFail(MyRun(w))
     THEN run' = [run EXCEPT ![MyRun(w)].status = "failed"]
     ELSE UNCHANGED run
  /\ Stop(w)
  /\ UNCHANGED <<item, quality, locator, derivation, manifestRow, objects,
                 environment>>

(* Mutant: a run without evidence is closed without a manifest.            *)
FinalizeSummaryUnlessEmpty(w) ==
  /\ At(w, "finalize_summary")
  /\ worker' = [worker EXCEPT
       ![w].pc = IF Referenced(worker[w].view) = {} THEN "close_summary"
                 ELSE "reserve",
       ![w].tally = TallyOf(item[MyRun(w)])]
  /\ UNCHANGED <<ledgerRows, objects, environment>>

FinalizeSummary(w) ==
  /\ At(w, "finalize_summary")
  /\ worker' = [worker EXCEPT ![w].pc = "reserve",
                              ![w].tally = TallyOf(item[MyRun(w)])]
  /\ UNCHANGED <<ledgerRows, objects, environment>>

(* Mutant: every finalize stamps the manifest anew.                        *)
StampNow(r, now) == now
(* One publication timestamp per run, so that a retry rebuilds the same    *)
(* manifest bytes.                                                         *)
ReservedStamp(r, now) == IF run[r].stamp = None THEN now ELSE run[r].stamp

ReservePublishedAt(w) ==
  /\ At(w, "reserve")
  /\ \E now \in Stamps :
       LET at == ReservedStamp(MyRun(w), now) IN
         /\ run' = [run EXCEPT ![MyRun(w)].stamp = at]
         /\ worker' = [worker EXCEPT ![w].pc = "publish", ![w].stamp = at]
  /\ UNCHANGED <<item, quality, locator, derivation, manifestRow, objects,
                 environment>>

(* Mutant: the manifest leaves out the items without an artifact.          *)
ManifestOfEvidence(w) ==
  [view |-> [worker[w].view EXCEPT !.items =
     [s \in Sources |-> IF @[s].artifact = None THEN NoView.items[s]
                        ELSE @[s]]],
   publishedAt |-> worker[w].stamp]
MyManifest(w) == [view |-> worker[w].view, publishedAt |-> worker[w].stamp]

(* The manifest's key is its content hash under the run's prefix.          *)
PublishManifest(w) ==
  /\ At(w, "publish")
  /\ published' = [published EXCEPT ![MyRun(w)] = @ \cup {MyManifest(w)}]
  /\ Goto(w, "persist")
  /\ UNCHANGED <<ledgerRows, stored, environment>>

(* Mutant: the row is upserted.                                            *)
PersistLatestManifest(w) ==
  /\ At(w, "persist")
  /\ manifestRow' = [manifestRow EXCEPT ![MyRun(w)] =
       [manifest |-> MyManifest(w), tally |-> worker[w].tally]]
  /\ Goto(w, "close_summary")
  /\ UNCHANGED <<run, item, quality, locator, derivation, objects,
                 environment>>

(* Insert, or accept the row already there when it equals the payload.     *)
PersistManifest(w) ==
  /\ At(w, "persist")
  /\ LET row == [manifest |-> MyManifest(w), tally |-> worker[w].tally]
         old == manifestRow[MyRun(w)] IN
       /\ manifestRow' = [manifestRow EXCEPT
                            ![MyRun(w)] = IF old = None THEN row ELSE old]
       /\ IF old \in {None, row} THEN Goto(w, "close_summary") ELSE Stop(w)
  /\ UNCHANGED <<run, item, quality, locator, derivation, objects,
                 environment>>

CloseSummary(w) ==
  /\ At(w, "close_summary")
  /\ ReadSummary(w, "close")
  /\ UNCHANGED <<ledgerRows, objects, environment>>

CloseRun(w) ==
  /\ At(w, "close")
  /\ IF run[MyRun(w)].status = "reconciling"
     THEN run' = [run EXCEPT ![MyRun(w)].status = Verdict(worker[w].tally),
                             ![MyRun(w)].tally = worker[w].tally]
     ELSE UNCHANGED run   \* KeyError: the run was not reconciling
  /\ Stop(w)
  /\ UNCHANGED <<item, quality, locator, derivation, manifestRow, objects,
                 environment>>

-----------------------------------------------------------------------------
(* Acquisition registers a source (register_acquired_artifact) while        *)
(* normalization runs.                                                     *)
RegisterSource(s) ==
  /\ s \notin registered
  /\ registered' = registered \cup {s}
  /\ UNCHANGED <<ledgerRows, objects, worker, crashes, retries>>

(* The worker dies: killed, out of memory, or an exception outside the try. *)
Crash(w) ==
  /\ ~At(w, "idle") /\ crashes < MaxCrashes
  /\ crashes' = crashes + 1
  /\ Stop(w)
  /\ UNCHANGED <<ledgerRows, objects, registered, retries>>

Init ==
  /\ run = [r \in Runs |-> [status |-> "absent", config |-> None,
                            tally |-> NoTally, stamp |-> None]]
  /\ item = [r \in Runs |-> NoView.items]
  /\ quality = [r \in Runs |-> {}]
  /\ locator = [a \in Artifacts |-> None]
  /\ derivation = {}
  /\ manifestRow = [r \in Runs |-> None]
  /\ stored = {}
  /\ published = [r \in Runs |-> {}]
  /\ worker = [w \in Workers |-> IdleWorker]
  /\ registered = Registered
  /\ crashes = 0 /\ retries = 0

Begin(w) ==
  \E r \in Runs :
    \/ RetryFinalizer(w, r)
    \/ \E c \in Configs : CreateRun(w, r, c) \/ ResumeRun(w, r, c)

ExecutorStep(w) ==
  \/ SkipUnavailable(w) \/ UnknownSource(w) \/ Checkpoint(w) \/ EnsureItem(w)
  \/ FindReusable(w) \/ RecordReuse(w) \/ MarkReused(w) \/ MarkRunning(w)
  \/ Convert(w) \/ RegisterStructural(w) \/ RecordQa(w) \/ RecordFidelity(w)
  \/ MarkReview(w) \/ StoreText(w) \/ RegisterText(w) \/ MarkNormalized(w)
  \/ ItemFails(w) \/ FailRun(w)
  \/ LeaveForRetry(w) \/ Summarize(w) \/ MarkReconciling(w)

FinalizerStep(w) ==
  \/ ReadState(w) \/ Reconcile(w) \/ FailReconciliation(w)
  \/ FinalizeSummary(w)
  \/ ReservePublishedAt(w) \/ PublishManifest(w) \/ PersistManifest(w)
  \/ CloseSummary(w) \/ CloseRun(w)

Step(w) == ExecutorStep(w) \/ FinalizerStep(w)

Next ==
  \/ \E s \in Sources : RegisterSource(s)
  \/ \E w \in Workers : Begin(w) \/ Step(w) \/ Crash(w)

Spec == Init /\ [][Next]_vars

(* Liveness assumes that a live worker takes its next step and that the    *)
(* operator keeps resuming a run that is still open (exit status 3, or a   *)
(* dead worker) and keeps retrying a dead finalizer.                       *)
Fairness ==
  \A w \in Workers :
    /\ WF_vars(Step(w))
    /\ WF_vars(\E r \in Runs, c \in Configs : ResumeRun(w, r, c))
    /\ WF_vars(\E r \in Runs : RetryFinalizer(w, r))

FairSpec == Spec /\ Fairness

-----------------------------------------------------------------------------
(* Properties *)

(* Every row, object and worker has its type; a run row's status is one    *)
(* the table's CHECK admits (migration 0002, create_run ... close_run).    *)
TypeOK ==
  /\ run \in [Runs -> [status : RunStatus, config : Configs \cup {None},
                       tally : Tally, stamp : Stamps \cup {None}]]
  /\ item \in [Runs -> [Sources -> Item]]
  /\ quality \in [Runs -> SUBSET Sources]
  /\ locator \in [Artifacts -> Configs \cup {None}]
  /\ derivation \subseteq (Sources \cup Artifacts) \X Artifacts \X Configs
  /\ manifestRow \in [Runs -> ManifestRow \cup {None}]
  /\ stored \subseteq Artifacts \X Configs
  /\ published \in [Runs -> SUBSET Manifest]
  /\ worker \in [Workers -> WorkerState]
  /\ registered \subseteq Sources
  /\ crashes \in 0..MaxCrashes /\ retries \in 0..MaxRetries

(* Artifact a can stand as the evidence of source s in a run of pipeline c: *)
(* a lineage made under c leads from s to a, and the object a's row points *)
(* at is in the store.                                                     *)
Traceable(a, s, c) ==
  /\ \/ a \in StructuralArtifacts /\ <<s, a, c>> \in derivation
     \/ \E p \in StructuralArtifacts :
          <<s, p, c>> \in derivation /\ <<p, a, c>> \in derivation
  /\ InStorage(a)

(* Whatever an item or a published manifest names as a source's evidence   *)
(* was derived from that very source under the run's own pipeline and      *)
(* config and is in the store, although the object, the row, the lineage   *)
(* and the reference are written by different steps, shared between        *)
(* sources and runs with equal content, and reused across runs             *)
(* (store_derived_artifact, register_*, find_reusable_artifact).           *)
EvidenceTraceable ==
  \A r \in Runs, s \in Sources :
    /\ item[r][s].artifact # None =>
         Traceable(item[r][s].artifact, s, run[r].config)
    /\ \A m \in published[r] :
         m.view.items[s].artifact # None =>
           Traceable(m.view.items[s].artifact, s, run[r].config)

(* A normalized item is backed by resolved evidence text that passed the   *)
(* deterministic quality check; an item sent to review keeps only its      *)
(* structural candidate, which no later run may reuse                      *)
(* (execute's branch on requires_review and find_reusable_artifact).       *)
OnlyCleanTextIsEvidence ==
  \A r \in Runs, s \in Sources :
    /\ item[r][s].status = "normalized" =>
         /\ item[r][s].artifact \in ResolvedArtifacts
         /\ item[r][s].artifact.text \notin Risky
    /\ item[r][s].status = "quality_review_required" =>
         item[r][s].artifact \in StructuralArtifacts

(* Terminal success is gated: a closed run has its manifest row, and the   *)
(* manifest object that row points at is in the store (close_run after     *)
(* persist_manifest after publish_normalization_manifest).                 *)
ClosedRunHasManifest ==
  \A r \in Runs : run[r].status \in Closed =>
    /\ manifestRow[r] # None
    /\ manifestRow[r].manifest \in published[r]

(* A closed run is fully accounted for: the manifest lists exactly the     *)
(* planned sources, each with the terminal status and artifact the ledger  *)
(* still has, and the counts of manifest row and run row agree with it.    *)
(* The three were read by separate statements (reconciliation_state,       *)
(* summarize_run twice).                                                   *)
ClosedRunIsAccounted ==
  \A r \in Runs : run[r].status \in Closed =>
    /\ manifestRow[r].manifest.view.items = item[r]
    /\ RunItems(manifestRow[r].manifest.view) = Planned
    /\ \A s \in Planned : item[r][s].status \in TerminalItem
    /\ manifestRow[r].tally = TallyOf(item[r])
    /\ run[r].tally = manifestRow[r].tally

(* However often the finalizer dies and is run again, it rebuilds the same *)
(* bytes: a run never gets a second manifest object                        *)
(* (reserve_manifest_published_at, the sorted items, the content key).     *)
OneManifestObject ==
  \A r \in Runs : \A m1, m2 \in published[r] : m1 = m2

(* Nothing is published for a run while the corpus does not know one of    *)
(* its planned sources: the executor and the finalizer both raise on it,   *)
(* also when the breaker failed the run before the pass came to it         *)
(* (resolve_source_artifact_id in execute and finalize).                   *)
UnknownSourceNeverPublished ==
  \A r \in Runs : published[r] # {} => Planned \subseteq registered

(* What a step may do to a run row: it only moves forward, a closed or     *)
(* failed run stays so, and its pipeline identity and reserved timestamp   *)
(* never change (create_run, mark_reconciling, fail_run, close_run,        *)
(* reserve_manifest_published_at).                                         *)
RunMovesForward ==
  [][\A r \in Runs :
       /\ <<run[r].status, run'[r].status>> \in
            {<<st, st>> : st \in RunStatus} \cup
            {<<"absent", "running">>, <<"running", "reconciling">>,
             <<"running", "failed">>, <<"reconciling", "failed">>}
            \cup ({"reconciling"} \X Closed)
       /\ run[r].config # None => run'[r].config = run[r].config
       /\ run[r].stamp # None => run'[r].stamp = run[r].stamp]_run

(* Durable checkpoints: with one worker at a time, an item that reached a  *)
(* terminal status is never touched again, through any number of deaths,   *)
(* resumes, duplicates in the plan and retried finalizers (execute's       *)
(* checkpoint test; _transition itself has no guard).                      *)
TerminalItemsStay ==
  [][\A r \in Runs, s \in Sources :
       item[r][s].status \in TerminalItem => item'[r][s] = item[r][s]]_item

(* A persisted manifest row is never replaced, whoever finalizes           *)
(* (persist_manifest's ON CONFLICT DO NOTHING and the immutable trigger).  *)
ManifestRowStays ==
  [][\A r \in Runs :
       manifestRow[r] # None => manifestRow'[r] = manifestRow[r]]_manifestRow

(* Progress: an open run whose sources are known is eventually closed or   *)
(* failed, once deaths and transient failures stop, if the operator        *)
(* resumes it (validate_resume_run, execute, finalize).                    *)
OpenRunEnds ==
  \A r \in Runs :
    run[r].status = "running" /\ Planned \subseteq registered
      ~> run[r].status \in Closed \cup {"failed"}

(* As the readiness contract has it, the manifest is published only after  *)
(* the run was reconciled: a manifest row belongs to a run that entered    *)
(* reconciliation, never to one that failed before it.                     *)
ManifestOnlyAfterReconciliation ==
  \A r \in Runs : manifestRow[r] # None =>
    run[r].status \in Closed \cup {"reconciling"}

(* As the implementation status has it, a fidelity assessment sends the    *)
(* item on to its verdict: recording the assessment never fails the item   *)
(* (execute's source_fidelity branch).                                     *)
FidelityAssessmentIsRecorded ==
  [][\A w \in Workers :
       At(w, "record_fidelity") =>
         item'[MyRun(w)][Current(w)].status # "failed"]_vars

=============================================================================
