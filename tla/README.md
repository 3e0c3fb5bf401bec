# JurisNexo: formal specifications

JurisNexo acquires official legal documents, keeps them as source artifacts,
normalizes them into traceable evidence text, and builds a corpus and a legal
graph on top. This directory holds TLA+ specifications of the parts whose
correctness depends on order: what happens when workers interleave, die, retry,
or meet each other in the database and the object store. TLC checks the
specifications on small instances; TLAPS proves the most important results for
every value of the constants.

Paths below are relative to the repository root; `J/` abbreviates
`backend/src/jurisnexo/`.

## 1. Inventory

Each entry names the state a component keeps, its operations, how it interacts,
what is hard about it, and what makes it correct. `PROJECT.json` has the full
list with sources, the hazards at their lines, and the source lines of every
definition.

### 1.1 Normalization control plane (modelled)

- **Ledger** (`J/normalization/repository.py`, migrations 0002 and 0003).
  *State*: PostgreSQL tables for runs, run items, derived artifacts,
  derivations, quality observations and manifests. *Operations*: create and
  resume a run, ensure and transition an item, register artifacts and lineage,
  record observations, mark reconciling, fail, reserve a publication time,
  persist the manifest, close. *Hard*: connections are in autocommit mode, so
  only each `with connection.transaction()` block is atomic; a run has no
  lease, `_transition` has no guard, and every status rule is a `WHERE` clause
  or a preceding read. *Correct when*: run rows only move forward, an artifact
  referenced by an item has lineage and an object, a closed run has its
  manifest.
- **Executor** (`J/normalization/executor.py`). One pass over the plan:
  checkpoint test, reuse, conversion, two registrations, quality branch, error
  classification, circuit breaker. *State*: only Python locals, lost with the
  process. *Hard*: it may die or get an ambiguous answer between any two
  statements and is then run again over the same items. *Correct when*: an item
  that has a verdict is left alone, an interrupted one is taken up again, and
  nothing is marked as evidence that did not pass the quality check.
- **Finalizer** (`finalizer.py`, `reconciliation.py`, `manifest.py`).
  Reconciles plan, items, lineage, storage and quality reports, publishes an
  immutable manifest under a content-addressed key, persists its row and closes
  the run. *Hard*: five separate reads of items that could have moved; death
  between publishing, persisting and closing; retries that must rebuild the
  same bytes. *Correct when*: closed implies a complete manifest that agrees
  with the ledger, and there is only one manifest.
- **Worker** (`J/entrypoints/worker/normalization.py`,
  `J/platform/db/connection.py`). Order of executor and finalizer, exit status
  3 to ask for a resume.
- **Failure classes and circuit breaker** (`recovery.py`), **derived-artifact
  store** (`artifacts.py`, `s3_source_reader.py`), **planner** (`planner.py`).
- **Derivation lineage** (migration 0002: `artifact_derivations`,
  `artifact_derivation_paths`, the `record_derived_artifact_paths` trigger and
  the unordered-pair index). *Hard*: a trigger that extends a transitive
  closure from its own snapshot while other transactions do the same. *Correct
  when*: no artifact is its own ancestor.

### 1.2 Acquisition control plane (modelled)

- **Acquisition runs** (`J/modules/acquisition`). *State*: runs and items,
  artifacts with their locations, links from documents to artifacts, objects in
  the store. *Operations*: create a run over an enabled collection, claim it, read
  its pending items, and for each fetch, store, register or mark failed; finalize.
  *Hard*: the claim is the only lease, items and documents are read at different
  moments, the object store and the database fail separately, and the batch
  crawler and the inventory write the same tables. *Correct when*: a run has one
  executor, an outcome stays, the counts add up, and what is called obtained can
  be read.
- **Source catalogue** (`J/modules/source_catalog`), **inventory**
  (`J/corpus/source_inventory.py`), **artifact catalogue**
  (`J/corpus/artifact_catalog.py`), **bootstrap**
  (`J/modules/legal_reference/bootstrap.py`). *State*: sources, collections with a
  policy and a revision, observed documents. *Hard*: operators, bootstrap and
  crawlers upsert the same rows. *Correct when*: no operator's decision is
  overwritten by somebody who had not read it.

### 1.3 Mass acquisition and inventories (modelled)

- **Backfills** (`backend/scripts/scj_1994_storage_backfill.py` with its workflow and
  `verify_scj_1994_storage_backfill.py`; `scj_principales_backfill.py`), over the
  **recovery journal** and its mirror (`J/acquisition/recovery.py`),
  `acquire_candidates` (`J/acquisition/official_corpus.py`) and the **run manifest**
  (`J/acquisition/manifest.py`). *State*: per job a local journal, a mirror object, a
  manifest builder and the uploaded evidence of earlier attempts; the document
  objects. *Operations*: dispatch, resume and re-run of a batch; restore, recover,
  acquire, append, mirror, commit; verification. *Hard*: a crash inside an append, a
  mirror that lags or leads, puts whose answer is lost, attempts that restart some of
  the jobs. *Correct when*: what is written down is true of the store, exit 0 and a
  certificate mean what they say, manifests never change, a fresh attempt gets through.
- **Certified portal inventory** (`scj_decision_year_discovery.py`,
  `scj_year_inventory.py`, `merge_scj_1994_inventory.py`,
  `validate_scj_1994_certified_artifact.py`, `persist_scj_certified_inventory.py`) and
  **page inventory** (`scj_decisions_page_inventory.py`). *State*: files per year or
  shard, durable objects under a snapshot prefix. *Hard*: the listing they read page by
  page changes meanwhile; runs die between puts and are run again. *Correct when*: what
  is published is one state of the source.
- **Reconciliation and completeness** (`J/acquisition/reconciliation.py`,
  `completeness.py`, crawl and registration in `official_corpus.py` and
  `artifact_catalog.py`). *State*: locations in the catalogue, objects in the store,
  and what a pass has read of both. *Hard*: the plan is stale when it is carried out.
  *Correct when*: a complete report is true, and a pass makes complete what it can.
- **Text-layer census** (`scj_principales_corpus_inventory.py`,
  `scj_principales_text_layer_census.py`, `scj_principales_corpus_publish.py`) and
  **literal OCR** (`scj_ling_literal_ocr.py`). *State*: archives, summaries and markers
  in the store; per page two paid, immutable passes. *Hard*: OCR does not repeat
  itself, so re-runs meet other bytes; deaths between a paid call and its put.
  *Correct when*: a marker closes only what is all there, no page is paid twice, an
  attempt without accidents ends.

### 1.4 Reading and the corpus (modelled)

- **Scanned view and environment** (`J/ingestion/scanned_page_materialization.py`,
  `logical_document_view.py`, `document_environment.py`), **discovery**
  (`agentic_document_discovery.py`, `context_governor.py`, `J/model_providers`),
  **extraction and audit** (`sdk_*_agent.py`, `sdk_*_auditor.py`,
  `decision_reconstruction.py`, `evidence_validation.py`,
  `legal_relation_observations.py`). *State*: the view, a run's budget and context, the
  artifacts of the stages. *Hard*: models answer anything, any stage may be repeated,
  limits meet clipping and delegation. *Correct when*: the budget is kept and every
  citation leads back to the scan.
- **Canonical commit and access** (`J/corpus/canonical_commit.py`, `access.py`) and
  **legal graph** (`J/corpus/legal_graph.py`). *State*: decisions, observations,
  current assertions, evidence rows, norms with sources. *Hard*: promotions of one
  relation in overlapping transactions of several statements. *Correct when*: a
  relation has one assertion, evidence is there once, nothing canonical lacks its
  ground.

### 1.5 Parts not modelled

Evidence resolver and provider policy, decision batching and judges, judge evaluation,
benchmarks and gold data, conversion engines, text parsers of the ingestion, HTTP
wiring and settings, drills and quality reports: see section 8.

## 2. Modules

| Module | What it is |
| --- | --- |
| `NormalizationRun` | executor, finalizer, ledger and object store, for any number of workers and runs |
| `NormalizationPromise` | what a run promises its readers, with no worker or store in it |
| `NormalizationRefinement` | the refinement mapping from `NormalizationRun` to `NormalizationPromise` |
| `DerivationLineage` | the lineage trigger and its pair table under concurrent transactions |
| `SourceCatalog` | sources, collections and documents under operators, bootstrap and inventory |
| `AcquisitionRun` | durable acquisition runs over `SourceCatalog`, the object store and the artifact tables |
| `CorpusBackfill` | the mass acquisition: workflow, jobs, journal, mirror, manifests, verification |
| `PortalInventory`, `PageInventory` | certified inventory of the portal; page counts of the stored decisions |
| `SourceReconciliation` | crawl, plan, acquisition, registration and report of reconciliation passes |
| `TextCensus` | the census of the scanned corpus and its archives |
| `LiteralOcr` | extends `TextCensus`: the paid OCR planned from the last completed census |
| `ScannedView` | the pages of a scan, their printed numbers, and what agents see of them |
| `DocumentDiscovery`, `DecisionExtraction` | each extends `ScannedView`: the budgeted discovery; extraction and audits |
| `LegalCorpus` | canonical commits, promotions of relations, norms |
| `NormalizationRunProofs` | theorems about `NormalizationRun` under any number of workers |
| `NormalizationSoleWorker` | theorems that need one worker per run, among them the refinement of the promise |
| `DerivationLineageProofs` | theorems about the lineage |
| `AcquisitionRunProofs` | theorems about `AcquisitionRun` and the catalogue under it |
| `CorpusBackfillProofs`, `LiteralOcrProofs`, `SourceInventoryProofs`, `EvidenceProofs` | theorems about the mass acquisition, census and OCR, the inventories and reconciliation of a source, and the canonical corpus, the reading of a scan and the evidence scenes together |
| `MCNormalizationRun`, `MCNormalizationRefinement`, `MCDerivationLineage`, `MCAcquisitionRun`, `MCCorpusBackfill` | instances for TLC: plans, conversions, seeds and symmetry |
| `MCSourceCatalog` | instances of `SourceCatalog`, `PortalInventory`, `PageInventory` and `SourceReconciliation`, one scene per behaviour |
| `MCEvidence` | instances of `LiteralOcr` (with `TextCensus`), `LegalCorpus`, `DocumentDiscovery` and `DecisionExtraction`, one scene per behaviour |

A *scene* is a choice in the initial state: the part it names runs and the others stand
still, so the state spaces of parts that share nothing are added, not multiplied.

### NormalizationRun and the code

Shared variables are tables or object sets: `run` (`normalization_runs`), `item`
(`normalization_run_items`), `quality` (sources with a `deterministic_qa` or
`reuse_validation` observation), `locator` (`derived_artifacts`: which pipeline's
object key the row keeps), `derivation` (`artifact_derivations`), `manifestRow`
(`normalization_manifests`), `stored` and `published` (objects in the store),
`registered` (`source_artifacts`). `worker[w]` holds the Python locals of one
process: which statement is next, position in the plan, the breaker's count, what
it read. `crashes` and `retries` count what the bounds limit.

Each action is one transaction or one bare statement, in the order `execute` and
`finalize` issue them: `CreateRun`/`ResumeRun`, `Checkpoint`, `EnsureItem`,
`FindReusable`, then either `RecordReuse`, `MarkReused` or `MarkRunning`, `Convert`,
`RegisterStructural`, `RecordQa`, [`RecordFidelity`], `MarkReview` or `StoreText`,
`RegisterText`, `MarkNormalized`; after the pass `Summarize`, `MarkReconciling`,
`ReadState`, `Reconcile`, `FinalizeSummary`, `ReservePublishedAt`,
`PublishManifest`, `PersistManifest`, `CloseSummary`, `CloseRun`. `ItemFails` is the
`except` block with the failure classes each step can raise. `Crash` ends a worker
at any point. `RegisterSource` is acquisition adding a source while normalization
runs.

Abstractions: content is a model value, so an artifact is its kind, its text and,
for structural JSON (which embeds the file's identity), its source. A configuration
stands for pipeline version, config hash and engine identity together; each
configuration has object keys of its own. Which texts a conversion produces, and
which texts the deterministic check sends to review, are constants. Reconciliation
reads lineage, locators and storage in the step that resolves the plan's sources:
those tables and objects never lose a row, so reading them a little later changes
no outcome except towards success.

### NormalizationPromise

Sources of an open run are decided once each; the run is sealed when all planned
sources are decided; the record is written once and equals what was decided; only
then the run is closed. The mapping (`phase`, `verdict` and `record` of
`NormalizationRefinement`): an item is decided when its status is
terminal; `running` is open, `reconciling` sealed; the record is what the manifest row's
item view decides. A failed run may be recorded as well, because the worker finalizes a
run its breaker failed, and then even with a source undecided (see finding 2).

### DerivationLineage

A session is a READ COMMITTED transaction that inserts one derivation. The
trigger's statement computes the cross join of ancestors and descendants from the
committed pairs (`InsertDerivation`), then inserts rows one by one (`InsertPath`),
waiting for a pair, or its opposite, that an open transaction holds (`Awaited`), and
raising on a committed opposite (`RejectCycle`). `overlapped` is a history variable:
two transactions have been open at the same time. Deadlocks between waiting
sessions are broken by `RollBack`, as PostgreSQL does.

### SourceCatalog and AcquisitionRun

`AcquisitionRun` extends `SourceCatalog`: its steps leave the catalogue alone or
take it along (`CatalogArtifact` reactivates a source), and every catalogue command
is a step of the whole system. `source`, `collection` and `document` are the tables
`source_registries`, `source_collections` and `source_documents`; `seen[o]` is the row
an operator last listed, whose revision the next `set-policy` request carries. `run`,
`item`, `artifact`, `location` and `link` are the tables of the acquisition ledger,
`stored` the object keys, and `executor[e]` the locals of one request inside
`execute_acquisition_run`.

Every ledger method is one transaction and one action: `CreateRun`, `ClaimRun`,
`PendingTargets`, `StartItem`, `RegisterArtifact`, `MarkItemFailed`, `FinalizeRun`;
between them `Fetch` and `Store` are the calls outside any transaction. `Store` may
raise before or after the object is there, and `Register` may raise before or after
its commit; both lead to the `except` block, which records a failure if the item is
still pending. `Die` is the end of the request at any point, also by an error outside
the item's `try`. `CrawlerStores`, `CatalogArtifact` and `LinkArtifact` are the batch
crawler and the inventory writing the same tables.

Abstractions: a collection's `active` flag and its policy are one value, since only
"active and enabled" is ever tested; agent visibility, names and the observation
history, which no guard reads, are left out; a request's limit or list of
identifiers is any non-empty set of eligible documents; a content is its SHA-256, and
a key is the storage prefix of its collection with the content (two codes of one
source share a prefix, `StoragePath`). What a fetch returns is a choice between any
content and failure.

### CorpusBackfill

A checkpoint is the latest-state view of a journal (what it says of each document,
and whether its last line is torn); a document is its digest. `journal`, `mirror`, `saved`
and `manifests` are the local file, the mirror object, the evidence uploaded by earlier
attempts and the manifest objects by ingestion id; `builder` and `seen` are locals of a
job. `Dispatch` and `RerunFailed` are the workflow's two ways to go on, `Verify` its last
job. A job is restore, then per document recover or acquire, `AppendJournal`,
`PersistMirror`, and `Commit`; `Interruption` is what `classify_infrastructure_error`
lets through, `AcquireFailed` and `PersistRefiles` what stays with the document, `Kill`
and `LoseRunner` process and machine. The two scripts differ in what they believe of a
checkpoint (`RecoverStored`, `RecoverPrincipal`, `RecoverUnavailable`) and in what they
accept as success (`ExitStatus`). Left out: the completion date in a manifest's key, and
durations.

### PortalInventory, PageInventory, SourceReconciliation

`listing` is the portal, which publishes and withdraws records while `shards` read it a page
at a time (`BeginYear`, `FetchPage`); `Merged`, `Certify` and `PersistFile` follow, and
`snapshots` are the objects under each prefix. In `PageInventory` the `bucket` grows while
`PlanPage` lists it, each shard lists its directories again (`CountDirectory`), and
`Aggregate` and the two puts publish. `SourceReconciliation` has the court's `listed`
sentences and what each URL has `served`, the `located` rows and the `objects`; a `pass`
holds what it has read. Each action is one listing, fetch, put or transaction.

### TextCensus and LiteralOcr

One `objects` function from keys to payloads is the store of both; a put (`Accepted`, `With`)
takes a new key or the same payload again and refuses any other. The census is a job per document (restore, scan, publish,
upload) and an aggregate over what jobs uploaded. The OCR has a task per target page with the
order look, call, put for each pass; the two-phase workflow and the "both" phase of a worker
started by hand, over all target pages or a canary of one (`Selections`), are its dispatches
(`StartOcr`). What a census job makes of a page is a choice among `Readings`; what a literal
call returns is named by the attempt that paid for it (`Payload`).

Evidence also says how its page was rendered: `render_profile_id` and the pixels' hash are one
value, a *rendering*, or `Unrecorded` in evidence older than that record. It is the
worker's, not the plan's (the plan fixes the scale, not the libraries), so an attempt draws one
from `Renderings`. `SameRaster` compares where both sides are recorded, in three places: going on
with a pass 1 that has no pass 2 yet (`Resumes`), finding both passes, and aggregating (`PairHolds`). Two
assumptions: the jobs of one attempt share the rendering (the workflow pins pypdfium2 and
Pillow for all of them), and equal profiles render equal pixels.

### ScannedView, DocumentDiscovery, DecisionExtraction

`Materialized` translates duplicate detection, grouping, choice of the region that
reads best, and the vote on the printed offset; a sheet is the amounts of text, how much of
it is visible, and the numbers in the margins of its two regions (`ReadsBetter` compares
visible characters, then all). The code appends pages in the order of its loops
over groups and sides; `InOrder` lists the leaves by that position. In `DocumentDiscovery` `run` is the loop (phase, calls,
context, consumed tokens) and `delegation` a delegated range cut in chunks; every call goes
through the provider's budget. `Chunks` is a recursive function over sequences of pages,
as `split` in `_fit_locator_chunks` is. `DiscoverySpec` and `ExtractionSpec` are the two
parts by themselves, the view included; the scenes take the same steps. In `DecisionExtraction` an agent is a role with turns and the
pages it was shown; the validators are operators (`ClaimHolds`, `SpanHolds`,
`ExcerptHolds`, `Coherent`) and guards of the answers. The caller may start any stage
again at any time. `Bridge` takes the spans quoted for references; those of other annotations
stay where they are.

### LegalCorpus

A promotion is a transaction in the order of its statements: lock the observation,
insert or find the identity (waiting for another inserter), insert or lock the current
assertion, write evidence and status at the commit. `tx[c].row` is the uncommitted
assertion. A relation whose type needs an issue or proposition (`GlobalRelations` lacks it) is
refused. Curation is outside this repository: `Curate` rejects, supersedes or marks as
conflicting what is observed, never what was promoted, since nothing in the repository takes an
acceptance or its assertion back. A canonical commit is one transaction and so one action, with the gates of
`authorize_scope_write`, `authorize_canonical_commit`, the bindings and
`_validate_artifact_pages`.

## 3. What the runs check

| Run | Instance | Shows |
| --- | --- | --- |
| `one_worker` | one worker, one run, plan `<<s1, unavailable, s2, s1>>`, two publication times, 2 deaths, 1 transient failure, breaker at 1, finalizer retried | `TypeOK`; `ClosedRunIsAccounted` (manifest, items, counts and verdict agree although read by separate statements); `OneManifestObject` (retries rebuild the same bytes); `TerminalItemsStay` (verdicts survive deaths, resumes and the repeated source); `OpenRunEnds` (liveness); `PromiseKept` (refinement) |
| `workers` | two workers on one run, breaker at 1, `s2` registered at any moment | `EvidenceTraceable`, `ClosedRunHasManifest`, `UnknownSourceNeverPublished`, `RunMovesForward`, `ManifestRowStays` hold without a lease |
| `reuse` | two runs, two configurations, sources sharing a text, `s2` with a native reference, 1 death | `OnlyCleanTextIsEvidence` under reuse across runs |
| `lineage` | 3 artifacts, 3 sessions, symmetric | `TypeOK`, `OppositeEdgesExcluded`, `PathsOrderLineage` |
| `catalog` | four scenes. Catalogue: the inventory's source, with a collection operators create, and the bootstrap's, with the one it seeds; two operators, three revisions. Portal: two years, pages of one record, three changes, two inventories. Pages: three objects, one in no directory, two shards, two plans, one re-run. Reconciliation: three sentences, two sharing a URL, one URL that changes what it serves (from a PDF to another, to a document or to a page), two passes, one lost object | `ChangesStartFromWhatWasRead`; `InventoriesAreSnapshots` (a year read is the year as listed when its reading began, unless the portal both published and withdrew; a complete prefix is one certification; a published page list is the plan's objects); `ReconciledIsComplete` (what a report may and must call complete) |
| `acquisition` | one run over two documents, two requests, one operator who creates and revises the collection, crawler and inventory | `TypeOK`; `RunHasOneExecutor` (the claim is a lease); `ClosedRunAddsUp` (counts, verdict and selection agree); `ObtainedIsStored` (whoever stored and linked it); `OutcomesStay` (lost answers); `HeldRunEnds` (liveness) |
| `backfill` | two shards or one principales job, three documents of two contents, two attempts, two faults | `CheckpointsAreBacked`, `SuccessIsComplete`, `VerifiedBatchIsWhole`, `ManifestsAreFinal`; `FreshAttemptCompletes` (liveness) |
| `evidence` | five scenes. OCR: two documents of three pages, two censuses and two OCR attempts, two accidents; a first attempt of either of two renderings or none recorded, a second of one. Graph: two connections, four observations: two of one relation, one without target, one of a type that needs a context. Canon: a public and a private scope, two commits. Discovery: four scans, five requests, three calls, 24 tokens. Extraction: one scan, five claims, five spans, seven answers | `CensusIsWhole`, `OcrCoversCensus`, `NeverPaidTwice`, `CensusSucceeds` and `OcrAttemptSucceeds` (liveness); `PromotionsAgree`; `KnowledgeIsGrounded`; `BudgetIsKept`; `EvidenceIsSourced` |
| `failed_manifest`, `fidelity`, `finalizer_death`, `lineage_cycle` | smallest instance that shows it | the four findings of section 6 |

Every property of a passing run is paired in `PROJECT.json` with a mutant, an
operator in the module that changes a definition the way a plausible bug would,
under which TLC finds the property violated.

**Bounds.** Two sources are enough for sharing a text, for a plan in which one item
fails and the other does not, and for a breaker that opens on the last item; the
repeated source needs a plan of three items. Two deaths let a worker die while
executing and again while finalizing. One transient failure leaves one item
pending beside one that is done. Two workers give every pairwise interleaving of
the guards, which only ever compare a row with what one worker read. Three
sessions are the smallest number that closes a cycle no two of them see; three
artifacts the smallest with a transitive pair. Two documents let one
item be done while the other is pending, failed or without a URL; two requests
compete for a claim; one content is enough because outcomes only tell "some
content" from "none". Three revisions let an operator send a request twice after
somebody else's change. `MaxCrashes`, `MaxRetries` and `MaxRevision` are
the only bounds on counters; the proofs hold for every value of them.

In `backfill`, two faults are a torn journal and a lost mirror, or a lost put and the death
of the retry; two attempts are every pair of fresh start, resume and re-run. Two
documents with equal bytes let one job find the other's object. In `evidence`, two
accidents let an interrupted attempt be interrupted again; two pages in one document
and one in the other let a census miss a page or a document. The four scans are a
spread scanned twice, one with a number lost, three copies of one sheet (refused) and
margins that agree on nothing. In `catalog`, an insert and a delete of the portal in one
year are within its three changes. Counts the code compares with numbers of the real
corpus (15,900 pages, minimum record counts) are bounds of the instance.
A first attempt of either of two renderings or of none recorded, and a second of one, are
every relation two attempts can be in: the same, another, unrecorded. That run has 362,393
distinct states.

`CHECK_DEADLOCK FALSE` is set because the system really stops: all runs closed or
failed, a lineage that admits no further derivation, no attempt left to dispatch.

## 4. Fairness

`Fairness` asks three things per worker: a live worker takes its next step (a process
that runs its loop), an open run is resumed while a worker is idle (the worker exits
with status 3 or dies and the operator runs it again with `--resume-run-id`), and a
reconciling run is finalized again (what the finalizer retry drill in
`backend/scripts/normalization_finalizer_retry_drill.py` does). The last one is
switched by the constant `FinalizerRetry`, because the worker's own command line
cannot do it; with it off, `OpenRunEnds` fails (finding 3). No fairness is assumed of
deaths or failures; both are bounded instead, which is what "once they stop"
means in a finite instance. `OpenRunEnds` speaks of runs whose planned sources are
registered: an unknown source raises outside the item's `try`, and no resume can get
past it.

`AcquisitionRun` assumes only that a live request goes on with its loop
(`WF_vars(Step(e))`); it may die at any time. `HeldRunEnds` therefore says that a
request does not hold a run for ever, not that every run gets a verdict: a run whose
request died, or one of whose documents lost its URL, stays running.

`BackfillFairSpec` assumes that a started job runs its script (`WF(JobStep(j))`: a process
and the workflow's next step) and that the verification follows the shards, which the
workflow's `needs` gives. Faults are not fair: `FreshAttemptCompletes` says that a fresh
attempt that meets no fault of its own is certified, whatever the ones before it left.
`EvidenceSpec` assumes the same of the census's and the OCR's jobs; `CensusSucceeds` and
`OcrAttemptSucceeds` again exempt attempts with an accident (`spotless`, `lucky`).
`OcrAttemptSucceeds` has one more condition, `Resumable`: the pages that have a pass 1 and no
pass 2 when the attempt begins are rendered by it as they were then, or one of the two is
unrecorded. Without it TLC finds a first attempt that dies between the passes
and a second, of another rendering, that fails without an accident. The
discovery, extraction, graph and inventory scenes have safety properties only: their
callers may stop at any point.

## 5. What is proved

Each module proves its theorems for every value of the constants under the named
assumptions of the module it is about, which TLC evaluates in the runs.

`NormalizationRunProofs`: any workers, runs, configurations, sources, plan, conversions
and bounds that satisfy `ConstantsOK`, whose content is: finite set of sources,
subsets where subsets are meant, a plan over the sources, a breaker threshold of at
least one, and `None` distinct from values.

- `TypeCorrect`: `TypeOK` is not inductive: that an item's new artifact is an
  artifact depends on what the worker holds. `TypeInv` adds `WorkersOK` (what a
  worker holds at each step, e.g. a structural artifact between the two
  registrations) and `OpenRunHasConfig` (a resumed or retried run has an identity).
- `PersistedManifestStays`, `RunRowsMoveForward`: from `TypeInv` and `RunInv`, which
  adds that a busy worker's run exists under the worker's configuration and that a
  run nobody created is blank. `CreateRun` picks an unused id; without
  `AbsentRunsAreBlank` it could adopt an old timestamp.
- `ClosureIsGatedByManifest`: `ManifestInv` follows the order publish, persist,
  close through the finalizer's steps: a worker about to persist has its manifest in
  the store, one about to close has a row, even if another finalizer wrote it.
- `EvidenceIsTraceable`: `EvidenceInv` says how far each worker got: object before
  row, row before lineage, lineage before reference. It needs `RowsAreBacked` because
  a row keeps the locator of its first registration, perhaps of another pipeline.
- `EvidenceIsClean`: `CleanInv` adds that any resolved text with lineage is clean,
  which is what makes reuse across runs safe.
- `UnknownSourcesBlockPublication`: `KnownInv` says that a worker past
  reconciliation resolved every planned source, and that rows are never removed.

`NormalizationSoleWorker`: a run has no lease, and with two workers on one run these
results are false. Their hypothesis is `OneWorkerPerRun`, no two busy workers on the same
run at any time, which is how the operator is meant to run the worker: resume after the
process has ended. Nothing is assumed of workers on different runs. With a single worker
the hypothesis is proved (`OneWorkerKeepsEverything`).

- `ClosedRunsAreAccounted`, `RetriesRebuildTheManifest`, `VerdictsAreFinal`: `SoleInv` says
  that an executor's run is running and a finalizer's is not (`ExecutorOK`,
  `FinalizerOK`), so what a finalizer read in five statements is still what the tables
  say when it publishes, persists and counts; that a run past `running` has all its
  planned items decided; and that every manifest, published by whichever finalizer,
  is the one the rows and the reserved time give (`SoleRun`). It needs `Visited`: the
  worker that seals a run has passed every position of the plan.
- `PromiseIsKept`: the refinement, action by action (`NextKeepsPromise`). Transitions into a
  terminal status are `Decide`, all other item steps stutter; `MarkReconciling` is `Seal`,
  where `Decided` gives `AllDecided`; `PersistManifest` is `Record`, where the view read
  earlier must equal the items now. One more assumption, `NoneIsNoDecision`: the value that
  stands for no decision is neither an item nor a table of items.
- `RecordStaysFinal`, `ClosedRunsAreRecorded`: what the promise gives its readers, proved of
  the abstract specification; `ManifestsMatchTheLedger` brings the first down to the tables
  through the refinement: a manifest row is what the items say, for good.

The other components:

- `OppositeEdgesNeverCommit`: `OppositeInv` says that rows inserted by open
  sessions exclude each other and that a session's own edge is covered.
- `SerialWritersKeepOrder`: while transactions do not overlap, what a session
  inserted, has still to insert and found committed is the cross join
  (`CrossJoinInv`); adding it to a strict order keeps it one
  (`CrossJoinKeepsOrder`). Together with `lineage_cycle` this says that overlap is
  the only way to a cycle.
- For `AcquisitionRun`, from `AcquisitionAssumption` (finitely many documents,
  typed constants, `None` distinct from values). `OneExecutor`: `LeaseInv` adds that
  an idle request holds no run. `OutcomesAreFinal` and `ClosedRunsAddUp`: `LedgerInv`
  says that a run nobody created has no items, that `selected` is the number of its
  items, and that a final run has nothing pending; `ItemStep` shows that after
  creation an item changes only while it is pending and its run executed, and
  `SumOfOutcomes` adds up the three disjoint sets. `ObtainedIsBacked`: `BackedInv` says
  that a request about to register has its object in the store, that every artifact
  is readable and every link leads to one; `GrowingStep` that nothing of this is taken
  back. `NoLostDecision`: `SeenInv` says that what an operator read is a version of the
  row, the current one if the revision is.
- For `CorpusBackfill`, from the four assumptions on jobs, contents, assignments and bounds
  and one on `Absent`. `CheckpointsAreBacked` is not inductive: a resumed job copies old
  evidence, records an item before it journals it, and commits what it recorded. `Honest`
  states the same of all these places at once, of refusals as well as of objects, and of
  the observation about to be journaled (`TrueSight`); `StaysTrue` says that it
  survives because objects and refusals only grow. `SuccessComplete` adds `Progress`: a job
  at its loop has an item for every document before the current one, so a commit
  without failures has resolved them all. `VerifiedWhole` adds `BatchIds`: ids are attempts of
  the past, so a manifest under the current attempt's id is of a job of this attempt.
  `ManifestsFinal` follows from the guard of the two commit steps.
- For `LegalCorpus` (first part of `EvidenceProofs`). `PromotionsAlwaysAgree`: `Promotions` says that a transaction past the
  identity has found an assertion of its relation or brings its own, and then no other
  session has one or is about to (`Alone`); `EvidenceOfAsserted` that evidence is of an
  assertion there is. `KnowledgeAlwaysGrounded` follows from the gates of one commit and
  from sources never being removed.
- For `LiteralOcr` over `TextCensus`, from `CensusConstants` and `CensusBounds`. `CensusInv`
  follows what is known to be in the store: an archive of a whole scan before a receipt,
  a receipt before a marker (`ArchivesAreWhole`, `PublishedIsWhole`, `ReceiptsAreTrue`).
  `OcrInv` says what a page's task knows at each step (`TasksInv`: who is about to buy a pass 2
  has a pass 1 of its own rendering), that a second pass on the
  store has its first and fits it (`SecondsSeeFirsts`), and that the plan of an attempt is of a
  completed census (`PlanIsCompleted`); a settled task list without failures then
  covers the plan's pages, which is `MarkersCoverTheCensus`. `NothingIsPaidTwice` is the
  action property: a call is made from a state where the look found nothing, and only
  the page's own task writes its evidence meanwhile.

- For `PageInventory`, `PortalInventory` and `SourceReconciliation` together
  (`SourceInventoryProofs`), from `PageConstants`, `PortalRecords`, `PortalBounds` and
  `ReconciliationConstants`: finitely many objects and identifiers, numbers where the code
  orders (years, records, lines, directories, identifiers, URLs), a page of at least one
  row. The three parts share no state, so `SourcesInv` is their three invariants.
  - `SnapshotsArePublished`. The properties speak of two moments, so the invariants carry the
    first to the second. `YearInv`: a year that since its reading began only grew, or only
    shrank, has its length then exactly while it is unchanged; hence the comparison
    of totals, which reads a number, accepts only pages of the same listing, and as many
    lines as the year had are the year (`CoveringIsAll`). `SnapshotsInv`: the summary under a
    prefix determines every file under it, because it is put first; `RunInv`: a run has put or
    found equal every file before the one it is at. `CountInv`: a shard's rows are one for
    each planned object of the directories it has counted; with `Whole`, a plan whose counts
    agree with its listing in number agrees in content, since a shard whose
    objects are not its planned ones has failed.
  - `ReportsAreTrue`. `PassInv`: what a pass need not acquire, or has acquired, is registered
    with a content that is stored (`Settled`), whichever pass registered it last. Another pass
    may move an identifier to a content of its own; that content is stored only if
    that pass lost nothing either, so `SameLosses` says that acquiring passes agree on whether
    an object was lost. `RemoveSeen` and `AppendSeen` say that moving one location to the end
    changes what is seen last at its URL and nowhere else.

- For `ScannedView`, `DocumentDiscovery` and `DecisionExtraction` (`EvidenceProofs`), from
  `ViewDocuments`, `ViewParameters`, `DiscoveryBounds`, `DiscoveryAsks`, `ExtractionClaims`,
  `ExtractionSpans` and `ExtractionBounds`: scans are sequences of sheets, limits are
  naturals where the code's constructors refuse anything else, a request that names a range
  names integers.
  - *The operators.* What sums, flattenings, listings and chunkings compute is an induction
    over data, and the library's induction theorems cannot be instantiated here. `AllOfNat`
    replaces them: a set of naturals with 0 and all successors is `Nat`, and each induction
    is carried out on such a set. `SumExists`, `FlatteningExists` and `ChunkingExists` build
    the function a recursion defines, so that its `CHOOSE` picks one (`SumUnfolds`,
    `FlattenUnfolds`, `ChunksUnfold`); `InOrderSorts` says that `InOrder` lists a finite set
    once each by growing key; `ChunksFit` that the chunks of pages that fit one by one make up
    the pages again and each fits.
  - *The view.* `ViewInv` is `ViewIsFaithful` with the types. `GroupsPartition`: without an
    ambiguous third copy every sheet is in one group, headed by itself or by the sheet
    before. `OneDominantOffset`: at most one offset outvotes all others, hence resolved
    numbers grow with the pages (`ResolvedNumbers`).
  - `BudgetsAreKept`. The property is not inductive: that a run that
    returns is within the budget depends on what it had consumed before. `RunBounds` adds that every run but a
    failed one is within the budget and that calls are left until the synthesis;
    `DelegationInv` that a delegation is under way only while its chunks are located, and that
    the next chunk exists. `SpentIsBounded` is the step: a ceiling clamped to what remains
    bounds the bill up to the excess.
  - `EvidenceAlwaysSourced`. The property speaks of results, the code validates them once, on
    the way in: `FindingsInv` keeps what was validated then (`ClaimHolds`, `Quoted`) of a view
    that no longer changes, and `AgentInv` says that annotations under audit fit the decision the
    auditor was given, whatever stages ran before it started.
  - `EvidenceTypesCorrect` and `ScenesKeepTheirPromises`: `EvidenceInv` is the conjunction of
    the parts' invariants. A step of one part leaves the variables of the others alone, with
    one exception: the view appears for both agents, when either scene materializes it.
    All safety properties of the `evidence` run thus hold of the parts together.

**Only model-checked.** Liveness under fairness (`OpenRunEnds`, `HeldRunEnds`,
`FreshAttemptCompletes`, `CensusSucceeds`, `OcrAttemptSucceeds`), which the prover does not
handle, and the four disagreements of section 6, which are counterexamples. Every invariant
and every action property of the passing runs is also a theorem; those of
`NormalizationSoleWorker` and `SerialWritersKeepOrder` under the hypothesis stated there.

## 6. Where code and documents disagree

1. **`fidelity`**. The executor records the native-text fidelity assessment under a
   kind the table's CHECK rejects, so every item of a source with a native reference
   fails.
2. **`failed_manifest`**. A run the breaker failed on its last item is finalized and
   gets an immutable manifest before closing raises. That manifest may list an item
   without a verdict: one that was `running` with a quality report when its worker died,
   while the breaker opened on an earlier item of the resumed pass. Reconciliation asks for
   a quality report, not for a status. (This came out of the proof of `PromiseIsKept`, and
   is why the promise lets a failed run be recorded with sources undecided.)
3. **`finalizer_death`**. A run whose worker dies between `mark_reconciling` and
   `close_run` cannot be resumed from the worker's command line.
4. **`lineage_cycle`**. Three concurrent transactions commit the three edges of a
   cycle.

`PROJECT.json` quotes the documents and the lines.

What two workers on one run can do is not a finding, since no document promises a
lease, but worth knowing: `TerminalItemsStay` and `ClosedRunIsAccounted` fail with two
workers, because a second worker can move an item back to `running` after the first
one closed the run.

Also worth knowing, and not findings because no document says otherwise:

- Nothing resumes, fails or finalizes an acquisition run whose request died after
  the claim, or one of whose documents lost its URL: it stays `running`.
- Policy and source are tested when a run is created; a queued run is executed
  although its collection was blocked meanwhile.
- The inventory and the batch crawler set a source active that an operator had
  deactivated.
- The bootstrap seeds collections under the codes `scj` and `tc`, the inventory records
  documents under `supreme_court` and `constitutional_court`: a seeded collection has
  no documents to acquire until an operator creates one under the inventory's code.
  The `catalog` run has both sources; in the `acquisition` run the collection is an
  operator's.

Of the mass acquisition:

- A torn last line of a journal makes loading it raise: a job that resumes such evidence, or
  finds it on its disk, fails before it does anything, and only a fresh attempt goes on.
- "Re-run failed jobs" gives the failed shards a new batch id; the verification then
  finds no manifests of the others and raises. It never certifies a mixture.
- A mirror error that is no infrastructure failure files a stored document as
  failed. "Unavailable" is reused by every resume without asking the source again.
- `docs/23-source-drift-and-object-storage.md` (line 303) says a stored object with no
  manifest reference "is reported as an orphan and makes reconciliation fail closed".
  `verify_scj_1994_storage_backfill.py` reports such objects (lines 252-266) and, by its own
  comment, does not fail for them. This is noted from reading; no run is about it.
- An insert and a delete of the portal that keep a year's total slip through the year's
  snapshot check; `SnapshotIsCertified` exempts exactly that.
- The durable inventory's prefix is the digest of the acquisition list. A source that
  changes without changing that list makes another summary under the same prefix, and the
  preflight refuses to go on until the list changes.
- An object outside the two-digit directories is in the page inventory's total and in
  no shard, so its aggregation fails.

Of reconciliation: keys are computed for the default collection and extension, so a document that
is not a PDF is missing from storage for ever and fetched again by each pass; two sentences
that share a URL never both stay registered; reads that time out are not retried by the
fetcher. `ReconciledIsComplete` states what remains true. It exempts a pass that overlaps one
during which an object was lost: that one may still register the lost content over what
the later pass had found stored.

Of census and OCR: runs of each workflow exclude each other (a new census cancels the
old one, OCR attempts queue), and the model relies on it, because the immutable put is a look
followed by a put. A plan without target pages makes the worker raise. A page whose pass 1
was left alone by a worker of another render profile is refused by every later attempt
(`resumed pass-1 render profile differs`, line 843): evidence is immutable and the plan does
not name the libraries, so the way on is a worker that renders as the first did.
`docs/44-scj-principales-verified-corpus-census.md` (line 293) speaks of "the pinned render
profile", which the workflow's pinned versions give until they are changed within a plan.

Of reading: `delegate_printed_pages` shows the parent the cited pages without the preflight of
its ranges, and sampled or single pages have none either; answers lost in transport are not
counted as consumed tokens. Nothing binds an extraction audit to the decision that is
committed later: that is left to the caller. Auditors' excerpts are looked up in clipped
pages, so the end of a long page can never be audit evidence.

Of the corpus: a canonical commit whose answer was lost and is repeated makes a second
decision.

## 7. Plan

What would come next, in order: provisions and aliases of the legal graph; two code
revisions in the census and OCR instance (checked once at 1.9 million states, too long for a regular
run).

## 8. Not modelled, and why

Scopes in the normalization ledger (one scope; authorization is in `LegalCorpus`);
`record_model_call`, `record_correction` and other observation kinds (appends that no
transition reads); `mark_skipped` (no caller); the optional model-evidence stage with
decision batching and judges (the worker never installs it); the evidence resolver, provider
policy and quality metrics (pure functions of text); SCJ layout, metadata and segmentation
parsers; provisions and aliases of the legal graph; the TC public API client and the browser
fetcher; operational drills, gold data, benchmarks and JEV statistics (offline computations
over files); the converters (external processes; their outcomes are the choices in `Convert`
and `ItemFails`); "re-run" of census and portal jobs whose artifact names collide; HTTP
wiring, settings and tracing (no state).

Running: `tlc -config <run>.cfg <module>` for the module a run names in
`PROJECT.json`; `tlapm <module>.tla` for the modules with theorems.
