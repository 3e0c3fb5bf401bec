----------------------------- MODULE LiteralOcr -----------------------------
(***************************************************************************)
(* The paid literal OCR of the pages a census could not verify             *)
(* (backend/scripts/scj_ling_literal_ocr.py, run by the workflow           *)
(* scj-principales-ling-literal-ocr.yml): a plan is frozen from the latest *)
(* completed census, every target page is transcribed (pass 1) and the     *)
(* transcription verified against the image (pass 2), each pass an         *)
(* immutable object, and a success marker closes the plan.                 *)
(*                                                                         *)
(* A plan is the dataset of its census, whose archives determine its pages. *)
(* Evidence carries the attempt that made it, how the page was rendered, and *)
(* in pass 2 the hash of the pass 1 it has seen.  A rendering is the profile *)
(* of a worker and the pixels it makes of a page: the plan does not name it,  *)
(* it is that of the worker, and the workers of one attempt share it.        *)
(***************************************************************************)
EXTENDS TextCensus

CONSTANTS Expected,    \* EXPECTED_DOCUMENTS
          Cap,         \* requests in flight, and pages in a batch
          Renderings,  \* by attempt: profiles its workers may have, with their pixels
          Unrecorded,  \* the rendering of evidence that predates its record
          MaxOcr       \* bound: OCR attempts

AnyRendering == (UNION {Renderings[n] : n \in 1 .. MaxOcr}) \cup {Unrecorded}
ASSUME OcrBounds == Expected \in Nat /\ Cap \in Nat \ {0} /\ MaxOcr \in Nat

VARIABLES ocr,      \* the attempt: ordinal, phase, plan, pages, rendering
          task,     \* the state of each page of the running phase
          covered,  \* phases whose summary covers every page of the plan
          lucky     \* no accident in this attempt

ocrVars == <<ocr, task, covered, lucky>>
pageVars == <<corpus, completed, census, job, scan, receipt, spotless>>

Evidence(ds, p, pass) == <<"pass", ds, p, pass>>
(* Mutant: the key of the marker leaves out the plan.                       *)
OcrSuccessOfAny(ds) == <<"ocr-success", Documents>>

OcrSuccess(ds) == <<"ocr-success", ds>>
PagesIn(ds) == {p \in AllPages : p[1] \in ds[1]}
TargetPages(ds) == {p \in PagesIn(ds) : objects[Archive(ds, p[1])][p[2]] \in Targets}

NoPages == [p \in AllPages |-> "none"]
OcrInit ==
    /\ CensusInit
    /\ ocr = [attempt |-> 0, phase |-> "idle",
              plan |-> Missing, pages |-> {}, rendering |-> Unrecorded]
    /\ task = NoPages
    /\ covered = {} /\ lucky = TRUE

Mishap == accidents < MaxAccidents /\ accidents' = accidents + 1 /\ lucky' = FALSE
Calm == UNCHANGED <<accidents, lucky>>

-----------------------------------------------------------------------------
(* build_plan: the latest success marker, and a full inventory.             *)
LatestCensus == completed[Len(completed)]
Plannable(ds) == Cardinality(ds[1]) = Expected

(* A canary takes a range of pages; without one, all are selected.          *)
Selections(ds) == {TargetPages(ds)} \cup {{p} : p \in TargetPages(ds)}

Begin(mode, pages, rendering) ==
    /\ ocr' = [attempt |-> ocr.attempt + 1,
               phase |-> IF mode = "workflow" THEN "pass1" ELSE "both",
               plan |-> LatestCensus, pages |-> pages, rendering |-> rendering]
    /\ task' = [p \in AllPages |-> IF p \in pages THEN "waiting" ELSE "none"]

(* Runs of the workflow exclude each other; a worker started by hand with    *)
(* phase "both" is taken to respect that.  A resume names the plan it means. *)
StartOcr(mode, resume) ==
    /\ ocr.phase = "idle" /\ ocr.attempt < MaxOcr /\ completed # <<>>
    /\ Plannable(LatestCensus)
    /\ resume => ocr.plan = LatestCensus
    /\ \E pages \in Selections(LatestCensus) \ {{}},
          rendering \in Renderings[ocr.attempt + 1] :
          Begin(mode, pages, rendering)
    /\ covered' = {} /\ lucky' = TRUE
    /\ UNCHANGED <<pageVars, objects, accidents>>

-----------------------------------------------------------------------------
(* _run_worker_async: documents in order, a batch of pages at a time.       *)
Working == ocr.phase \in {"pass1", "pass2", "both"}
InState(s) == {p \in ocr.pages : task[p] \in s}
Waiting == InState({"waiting"})
Settled == InState({"waiting", "done", "failed"}) = ocr.pages
Failed == InState({"failed"})

Before(p, q) == p[1] < q[1] \/ (p[1] = q[1] /\ p[2] < q[2])
NextPage == CHOOSE p \in Waiting : \A q \in Waiting \ {p} : Before(p, q)
Batch == {p \in Waiting : p[1] = NextPage[1]
                          /\ Cardinality({q \in Waiting : Before(q, p)}) < Cap}

StartBatch ==
    /\ Working /\ Settled /\ Failed = {} /\ Waiting # {}
    /\ task' = [p \in AllPages |-> IF p \in Batch THEN "load" ELSE task[p]]
    /\ Calm /\ UNCHANGED <<pageVars, objects, ocr, covered>>

Move(p, s) == task' = [task EXCEPT ![p] = s]
First(p) == Evidence(ocr.plan, p, 1)
Second(p) == Evidence(ocr.plan, p, 2)

(* _verify_render_pair: profile and pixels agree where both are recorded.    *)
SameRaster(a, b) == a = b \/ Unrecorded \in {a, b}

(* A pass 2 is accepted with the pass 1 it has seen, of the same rendering.  *)
PairHolds(first, second) == second[2] = first /\ SameRaster(first[2], second[3])

(* A pass 1 without its pass 2 is gone on with as it was rendered.           *)
Resumes(p) == SameRaster(objects[First(p)][2], ocr.rendering)

(* Mutant: a page with a pass 2 is none of the first phase's business.      *)
AfterLoadStrict(p) ==
    CASE Has(Second(p)) -> IF ocr.phase = "pass1" THEN "failed" ELSE "done"
      [] Has(First(p)) /\ ~Has(Second(p)) ->
            IF ocr.phase = "pass1" THEN "done" ELSE IF Resumes(p) THEN "call2" ELSE "failed"
      [] OTHER -> IF ocr.phase = "pass2" THEN "failed" ELSE "call1"

(* Mutant: only the second pass is looked up before a page is worked on.    *)
AfterLoadBlind(p) == IF Has(Second(p)) THEN "done"
                     ELSE IF ocr.phase = "pass2" THEN "call2" ELSE "call1"

(* What _process_page does of a page, by the evidence it finds: a pass 2 is   *)
(* done with the pass 1 it belongs to and refused without it; a pass 1 alone *)
(* is all the first phase asks for, and refused by a later one that renders  *)
(* the page in another way; without either, the page begins with pass 1.     *)
AfterLoad(p) ==
    CASE Has(Second(p)) ->
            IF Has(First(p)) /\ PairHolds(objects[First(p)], objects[Second(p)])
            THEN "done" ELSE "failed"
      [] Has(First(p)) /\ ~Has(Second(p)) ->
            IF ocr.phase = "pass1" THEN "done" ELSE IF Resumes(p) THEN "call2" ELSE "failed"
      [] OTHER -> IF ocr.phase = "pass2" THEN "failed" ELSE "call1"

LoadPage(p) ==
    /\ Working /\ task[p] = "load"
    /\ Move(p, AfterLoad(p)) /\ Calm
    /\ UNCHANGED <<pageVars, objects, ocr, covered>>

(* _call_ling: the answer is paid for, and held in memory only.             *)
CallPage(p) ==
    /\ Working /\ task[p] \in {"call1", "call2"}
    /\ Move(p, IF task[p] = "call1" THEN "put1" ELSE "put2") /\ Calm
    /\ UNCHANGED <<pageVars, objects, ocr, covered>>

(* A call, a render or a read that fails after its attempts.                *)
PageFails(p) ==
    /\ Working /\ task[p] \in {"load", "call1", "call2"}
    /\ Move(p, "failed") /\ Mishap
    /\ UNCHANGED <<pageVars, objects, ocr, covered>>

Payload(p) == IF task[p] = "put1" THEN <<ocr.attempt, ocr.rendering>>
              ELSE <<ocr.attempt, objects[First(p)], ocr.rendering>>
KeyOf(p) == IF task[p] = "put1" THEN First(p) ELSE Second(p)
AfterPut(p) == IF task[p] = "put1" /\ ocr.phase = "both" THEN "call2" ELSE "done"

PutPage(p) ==
    /\ Working /\ task[p] \in {"put1", "put2"}
    /\ IF Accepted(KeyOf(p), Payload(p))
       THEN objects' = With(KeyOf(p), Payload(p)) /\ Move(p, AfterPut(p))
       ELSE Move(p, "failed") /\ UNCHANGED objects
    /\ Calm /\ UNCHANGED <<pageVars, ocr, covered>>

PutPageLost(p) ==
    /\ Working /\ task[p] \in {"put1", "put2"}
    /\ objects' \in {objects, With(KeyOf(p), Payload(p))}
    /\ Move(p, "failed") /\ Mishap
    /\ UNCHANGED <<pageVars, ocr, covered>>

(* A phase whose pages are all done exits 0 and the next job follows; one    *)
(* with failures ends the attempt after its batch.  Of an attempt that has   *)
(* ended the plan is left, which a resume may name.                          *)
NextPhase == CASE ocr.phase = "pass1" -> "pass2"
               [] ocr.phase = "pass2" /\ ocr.pages = TargetPages(ocr.plan) -> "aggregate"
               [] OTHER -> "idle"
Enter(phase) == ocr' = IF phase = "idle"
                       THEN [ocr EXCEPT !.phase = "idle", !.pages = {},
                                        !.rendering = Unrecorded]
                       ELSE [ocr EXCEPT !.phase = phase]

EndPhase ==
    /\ Working /\ Settled /\ (Waiting = {} \/ Failed # {})
    /\ Enter(IF Failed = {} THEN NextPhase ELSE "idle")
    /\ covered' = IF Failed = {} /\ ocr.pages = TargetPages(ocr.plan)
                  THEN covered \cup {ocr.phase} ELSE covered
    /\ task' = IF ocr'.phase = "pass2"
               THEN [p \in AllPages |-> IF p \in ocr.pages THEN "waiting" ELSE "none"]
               ELSE NoPages
    /\ Calm /\ UNCHANGED <<pageVars, objects>>

(* The runner is lost, the source PDF cannot be read or has drifted.        *)
WorkerDies ==
    /\ ocr.phase # "idle" /\ Mishap
    /\ Enter("idle") /\ task' = NoPages
    /\ UNCHANGED <<pageVars, objects, covered>>

-----------------------------------------------------------------------------
(* aggregate: both passes of every page of the plan verified in the store.  *)
EvidenceVerified(ds) ==
    \A p \in TargetPages(ds) :
        /\ Has(Evidence(ds, p, 1)) /\ Has(Evidence(ds, p, 2))
        /\ PairHolds(objects[Evidence(ds, p, 1)], objects[Evidence(ds, p, 2)])

(* The costs and models in the marker are those of the evidence.            *)
AggregateOcr ==
    /\ ocr.phase = "aggregate"
    /\ Enter("idle")
    /\ LET marker == [p \in TargetPages(ocr.plan) |-> objects[Second(p)]] IN
       IF EvidenceVerified(ocr.plan) /\ covered = {"pass1", "pass2"}
          /\ Accepted(OcrSuccess(ocr.plan), marker)
       THEN objects' = With(OcrSuccess(ocr.plan), marker)
       ELSE UNCHANGED objects
    /\ Calm /\ UNCHANGED <<pageVars, task, covered>>

PageStep(p) == LoadPage(p) \/ CallPage(p) \/ PutPage(p)
PageAccident(p) == PageFails(p) \/ PutPageLost(p)
WorkerStep == StartBatch \/ EndPhase \/ AggregateOcr

OcrNext == \/ CensusNext /\ UNCHANGED ocrVars
           \/ \E mode \in {"workflow", "both"}, resume \in BOOLEAN :
                 StartOcr(mode, resume)
           \/ \E p \in AllPages : PageStep(p) \/ PageAccident(p)
           \/ WorkerStep \/ WorkerDies

OcrProgress == WorkerStep \/ \E p \in AllPages : PageStep(p)

ocrAll == <<censusVars, ocrVars>>
OcrSpec == OcrInit /\ [][OcrNext]_ocrAll

-----------------------------------------------------------------------------
OcrTypeOK ==
    /\ CensusTypeOK
    /\ ocr \in [attempt : 0 .. MaxOcr,
                phase : {"idle", "pass1", "pass2", "both", "aggregate"},
                plan : Datasets \cup {Missing}, pages : SUBSET AllPages,
                rendering : AnyRendering]
    /\ task \in [AllPages -> {"none", "waiting", "load", "call1", "put1",
                              "call2", "put2", "done", "failed"}]
    /\ covered \subseteq {"pass1", "pass2", "both"} /\ lucky \in BOOLEAN

(* The success marker of a plan covers its census: every page the census     *)
(* could not verify has a pass 1 and a pass 2 that has seen it, of renderings *)
(* that agree where both are recorded, and its census is the one whose       *)
(* archives the plan was frozen from (aggregate).                            *)
OcrCoversCensus ==
    \A ds \in Datasets : Has(OcrSuccess(ds)) =>
        /\ \E i \in DOMAIN completed : completed[i] = ds
        /\ \A p \in TargetPages(ds) :
              /\ Has(Evidence(ds, p, 1)) /\ Has(Evidence(ds, p, 2))
              /\ PairHolds(objects[Evidence(ds, p, 1)], objects[Evidence(ds, p, 2)])

(* A generation is never bought for evidence that exists, whatever attempt,  *)
(* mode or phase left it there; and pass 2 is bought on a durable pass 1.    *)
NeverPaidTwice ==
    [][\A p \in AllPages :
          /\ task[p] = "call1" /\ task'[p] = "put1" => ~Has(First(p))
          /\ task[p] = "call2" /\ task'[p] = "put2" =>
                ~Has(Second(p)) /\ Has(First(p))]_ocrAll

(* A full attempt without an accident of its own ends with the success       *)
(* marker, whatever pages, passes, canaries and renderings earlier attempts  *)
(* left behind, as long as it renders the pages they left half done as they  *)
(* did.  That is a condition: evidence is immutable, and _process_page        *)
(* refuses to go on with a pass 1 of another rendering in every attempt.      *)
(* Pages with both passes set no condition, of whatever rendering they are.  *)
FullAttempt == ocr.phase = "pass1" /\ ocr.pages = TargetPages(ocr.plan)
Resumable == \A p \in ocr.pages : Has(First(p)) /\ ~Has(Second(p)) => Resumes(p)
OcrAttemptSucceeds ==
    FullAttempt /\ Resumable
        ~> (~lucky \/ (ocr.phase = "idle" /\ Has(OcrSuccess(ocr.plan))))
=============================================================================
