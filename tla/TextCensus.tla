----------------------------- MODULE TextCensus -----------------------------
(***************************************************************************)
(* The verification census of the scanned corpus: every PDF of one frozen  *)
(* inventory is scanned page by page, its evidence is archived as an       *)
(* immutable object, and a success marker is written once the archives     *)
(* cover the inventory (backend/scripts/scj_principales_corpus_inventory,  *)
(* _text_layer_census and _corpus_publish.py, run by the workflow          *)
(* scj-principales-text-layer-census.yml).                                 *)
(*                                                                         *)
(* Objects are a function from the keys that exist to their payloads.  A   *)
(* dataset is the prefix of a census: its inventory and the code revision  *)
(* (the policy is that of the revision).  A scan maps the pages it reached *)
(* to their classification.                                                *)
(***************************************************************************)
EXTENDS Naturals, Sequences, FiniteSets

CONSTANTS Documents,   \* PDF keys, in the order of the listing
          PageCount,   \* the number of pages of a document
          Readings,    \* classifications a page may get: the OCR is not pinned
          Revisions,   \* code revisions that run a census
          Missing,     \* no document.json
          MaxCensus,   \* bound: census dispatches
          MaxAccidents \* bound: failures of storage, scan or runner

ASSUME CensusDocuments == Documents \subseteq Nat /\ Documents # {}
ASSUME CensusPages == PageCount \in [Documents -> Nat \ {0}]
ASSUME CensusBounds == MaxCensus \in Nat /\ MaxAccidents \in Nat

Targets == {"misaligned", "no_native_text"}
Classes == Targets \cup {"aligned", "low_information", "processing_error"}
PagesOf(d) == 1 .. PageCount[d]
Scans(d) == UNION {[1 .. n -> Classes] : n \in 0 .. PageCount[d]}
AllPages == UNION {{d} \X PagesOf(d) : d \in Documents}

ASSUME CensusReadings ==
    \A p \in AllPages : Readings[p] \subseteq Classes \ {"processing_error"}
ASSUME CensusMissing == \A d \in Documents : Missing \notin Scans(d)

VARIABLES corpus,     \* documents under the corpus prefix
          objects,    \* what the evidence prefixes hold: key to payload
          completed,  \* datasets in the order of their success markers
          census,     \* the census run: dispatches so far, stage, dataset
          job,        \* the step each document's job is at
          scan,       \* the document.json a job leaves
          receipt,    \* jobs that leave a publish.json
          accidents,  \* accidents so far
          spotless    \* no accident in this census run

censusVars == <<corpus, objects, completed, census, job, scan, receipt,
                accidents, spotless>>

Has(key) == key \in DOMAIN objects
Archive(ds, d) == <<"archive", ds, d>>
CensusSuccess(ds) == <<"success", ds>>

CensusInit ==
    /\ corpus = {CHOOSE d \in Documents : \A e \in Documents : d <= e}
    /\ objects = <<>> /\ completed = <<>>
    /\ census = [runs |-> 0, stage |-> "idle", ds |-> Missing]
    /\ job = [d \in Documents |-> "none"]
    /\ scan = [d \in Documents |-> Missing]
    /\ receipt = {}
    /\ accidents = 0 /\ spotless = TRUE

Accident == accidents < MaxAccidents /\ accidents' = accidents + 1
                                     /\ spotless' = FALSE
Smooth == UNCHANGED <<accidents, spotless>>

(* _put_immutable: the same bytes again are accepted, other bytes refused.  *)
Accepted(key, payload) == Has(key) => objects[key] = payload
With(key, payload) ==
    IF Has(key) THEN objects
    ELSE [k \in DOMAIN objects \cup {key} |-> IF k = key THEN payload ELSE objects[k]]

(* The acquisition scripts add documents to the corpus prefix.              *)
AddDocument(d) ==
    /\ d \notin corpus /\ corpus' = corpus \cup {d}
    /\ UNCHANGED <<objects, completed, census, job, scan, receipt, accidents,
                   spotless>>

(* workflow_dispatch: the inventory is frozen from the listing, and a job is *)
(* started for each of its documents.  One census runs at a time.           *)
DispatchCensus(rev) ==
    /\ census.stage = "idle" /\ census.runs < MaxCensus
    /\ census' = [runs |-> census.runs + 1, stage |-> "documents",
                  ds |-> <<corpus, rev>>]
    /\ job' = [d \in Documents |-> IF d \in corpus THEN "restore" ELSE "none"]
    /\ scan' = [d \in Documents |-> Missing]
    /\ receipt' = {} /\ spotless' = TRUE
    /\ UNCHANGED <<corpus, objects, completed, accidents>>

-----------------------------------------------------------------------------
(* One document's job: restore, scan, publish, upload of what is there.     *)
At(d, step) == census.stage = "documents" /\ job[d] = step
Then(d, step) == job' = [job EXCEPT ![d] = step]
LeaveScan(d, s) == scan' = [scan EXCEPT ![d] = s]

(* Mutant: an archived scan is not looked for.                              *)
RestoreNothing(d) ==
    /\ At(d, "restore") /\ Smooth /\ Then(d, "scan")
    /\ UNCHANGED <<corpus, objects, completed, census, scan, receipt>>

(* restore_document: an archived scan is taken over with its receipt.       *)
RestoreDocument(d) ==
    /\ At(d, "restore") /\ Smooth
    /\ IF Has(Archive(census.ds, d))
       THEN /\ LeaveScan(d, objects[Archive(census.ds, d)])
            /\ receipt' = receipt \cup {d} /\ Then(d, "ended")
       ELSE Then(d, "scan") /\ UNCHANGED <<scan, receipt>>
    /\ UNCHANGED <<corpus, objects, completed, census>>

(* run_document: every page is classified against an OCR of its image.      *)
ScanDocument(d) ==
    /\ At(d, "scan") /\ Smooth /\ Then(d, "publish")
    /\ \E s \in [PagesOf(d) -> Classes] :
          /\ \A n \in PagesOf(d) : s[n] \in Readings[<<d, n>>]
          /\ LeaveScan(d, s)
    /\ UNCHANGED <<corpus, objects, completed, census, receipt>>

(* A page that raises is a processing error and a signal stops the scan: the *)
(* script exits non-zero, nothing is published, document.json is uploaded.  *)
ScanFails(d) ==
    /\ At(d, "scan") /\ Accident /\ Then(d, "ended")
    /\ \/ \E n \in PagesOf(d) :
             LeaveScan(d, [m \in PagesOf(d) |-> IF m = n THEN "processing_error"
                                                ELSE "aligned"])
       \/ \E n \in PagesOf(d) : LeaveScan(d, [m \in 1 .. n - 1 |-> "aligned"])
    /\ UNCHANGED <<corpus, objects, completed, census, receipt>>

(* publish_document: the archive is put, and the receipt written.           *)
PublishDocument(d) ==
    /\ At(d, "publish") /\ Smooth /\ Then(d, "ended")
    /\ IF Accepted(Archive(census.ds, d), scan[d])
       THEN /\ objects' = With(Archive(census.ds, d), scan[d])
            /\ receipt' = receipt \cup {d}
       ELSE UNCHANGED <<objects, receipt>>
    /\ UNCHANGED <<corpus, completed, census, scan>>

(* The put fails or its answer is lost: the scan is uploaded, no receipt is; *)
(* when the runner is lost with it, neither is.                              *)
PublishLost(d) ==
    /\ At(d, "publish") /\ Accident /\ Then(d, "ended")
    /\ objects' \in {objects, With(Archive(census.ds, d), scan[d])}
    /\ scan' \in {scan, [scan EXCEPT ![d] = Missing]}
    /\ UNCHANGED <<corpus, completed, census, receipt>>

(* A job that fails before its scan, or loses its runner, uploads nothing.   *)
JobLost(d) ==
    /\ census.stage = "documents" /\ job[d] \in {"restore", "scan"}
    /\ Accident /\ Then(d, "ended")
    /\ UNCHANGED <<corpus, objects, completed, census, scan, receipt>>

-----------------------------------------------------------------------------
(* The aggregate job runs always, over whatever the jobs uploaded.          *)
Inventory == census.ds[1]
Reported == {d \in Documents : scan[d] # Missing}
Complete(d) == DOMAIN scan[d] = PagesOf(d)
Errorless(d) == \A n \in DOMAIN scan[d] : scan[d][n] # "processing_error"
Valid == Reported = Inventory /\ \A d \in Reported : Complete(d) /\ Errorless(d)

(* Mutant: the receipts of the documents are not asked for.                 *)
CoveredByReports == Reported = Inventory

(* publish_summary: one receipt for each document of the summary.           *)
Covered == receipt = Reported

Aggregate ==
    /\ census.stage = "documents" /\ \A d \in Inventory : job[d] = "ended"
    /\ census' = [census EXCEPT !.stage = IF Valid /\ Covered THEN "inventory"
                                          ELSE "idle"]
    /\ Smooth
    /\ UNCHANGED <<corpus, objects, completed, job, scan, receipt>>

(* The three puts of publish_summary, in this order.                        *)
PutMarker(stage, key, payload, next) ==
    /\ census.stage = stage /\ Smooth
    /\ IF Accepted(key, payload)
       THEN objects' = With(key, payload)
            /\ census' = [census EXCEPT !.stage = next]
       ELSE UNCHANGED objects /\ census' = [census EXCEPT !.stage = "idle"]
    /\ UNCHANGED <<corpus, job, scan, receipt>>

PutInventory == /\ PutMarker("inventory", <<"inventory", census.ds>>, Inventory,
                             "summary")
                /\ UNCHANGED completed
PutSummary ==
    /\ PutMarker("summary", <<"summary", census.ds>>,
                 [d \in Inventory |-> scan[d]], "success")
    /\ UNCHANGED completed
PutSuccess ==
    /\ PutMarker("success", CensusSuccess(census.ds), Cardinality(Inventory), "idle")
    /\ completed' = IF Has(CensusSuccess(census.ds)) THEN completed
                    ELSE Append(completed, census.ds)

AggregateDies ==
    /\ census.stage \in {"inventory", "summary", "success"} /\ Accident
    /\ census' = [census EXCEPT !.stage = "idle"]
    /\ UNCHANGED <<corpus, objects, completed, job, scan, receipt>>

DocumentStep(d) == RestoreDocument(d) \/ ScanDocument(d) \/ PublishDocument(d)
DocumentAccident(d) == ScanFails(d) \/ PublishLost(d) \/ JobLost(d)
Markers == Aggregate \/ PutInventory \/ PutSummary \/ PutSuccess

CensusProgress == Markers \/ \E d \in Documents : DocumentStep(d)
CensusNext == \/ \E d \in Documents : \/ AddDocument(d)
                                      \/ DocumentStep(d) \/ DocumentAccident(d)
              \/ \E rev \in Revisions : DispatchCensus(rev)
              \/ Markers \/ AggregateDies

-----------------------------------------------------------------------------
Datasets == (SUBSET Documents) \X Revisions
CensusTypeOK ==
    /\ corpus \subseteq Documents
    /\ \A i \in DOMAIN completed : completed[i] \in Datasets
    /\ census \in [runs : 0 .. MaxCensus, ds : Datasets \cup {Missing},
                   stage : {"idle", "documents", "inventory", "summary", "success"}]
    /\ job \in [Documents -> {"none", "restore", "scan", "publish", "ended"}]
    /\ \A d \in Documents : scan[d] \in Scans(d) \cup {Missing}
    /\ DOMAIN scan = Documents
    /\ receipt \subseteq Documents
    /\ accidents \in 0 .. MaxAccidents /\ spotless \in BOOLEAN

(* A success marker means a whole census: its inventory and summary are      *)
(* there, and the archive of every document of the inventory holds a        *)
(* complete scan without errors, the one the summary reports, however the   *)
(* runs that built it were interrupted (publish_summary).                    *)
CensusIsWhole ==
    \A i \in DOMAIN completed :
        LET ds == completed[i] IN
        /\ Has(<<"inventory", ds>>) /\ objects[<<"inventory", ds>>] = ds[1]
        /\ Has(<<"summary", ds>>)
        /\ \A d \in ds[1] :
              /\ Has(Archive(ds, d))
              /\ objects[Archive(ds, d)] = objects[<<"summary", ds>>][d]
              /\ DOMAIN objects[Archive(ds, d)] = PagesOf(d)
              /\ \A n \in PagesOf(d) :
                    objects[Archive(ds, d)][n] # "processing_error"

(* A census without an accident of its own ends with its success marker:     *)
(* archives, an inventory or a summary left by interrupted runs of the same *)
(* dataset are taken over, although the OCR may read a page differently now. *)
CensusSucceeds ==
    census.stage = "documents" ~>
        ~spotless \/ (census.stage = "idle" /\ Has(CensusSuccess(census.ds)))
=============================================================================
