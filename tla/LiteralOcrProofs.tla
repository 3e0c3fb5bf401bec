--------------------------- MODULE LiteralOcrProofs ---------------------------
(***************************************************************************)
(* The census and the paid OCR for any documents, pages, readings, code    *)
(* revisions and number of dispatches, attempts and accidents: what the    *)
(* success markers stand for, and what is never bought.                    *)
(***************************************************************************)
EXTENDS LiteralOcr, WellFoundedInduction, TLAPS

(* The type invariant of the census, with completed as the sequence it is,  *)
(* and the dataset of a census under way.                                   *)
Stages == {"idle", "documents", "inventory", "summary", "success"}
JobSteps == {"none", "restore", "scan", "publish", "ended"}
AnyScan == (UNION {Scans(d) : d \in Documents}) \cup {Missing}
CensusTypes ==
  /\ corpus \subseteq Documents
  /\ completed \in Seq(Datasets)
  /\ census \in [runs : 0 .. MaxCensus, stage : Stages,
                 ds : Datasets \cup {Missing}]
  /\ census.stage # "idle" => census.ds \in Datasets
  /\ job \in [Documents -> JobSteps]
  /\ scan \in [Documents -> AnyScan]
  /\ \A d \in Documents : scan[d] \in Scans(d) \cup {Missing}
  /\ receipt \subseteq Documents
  /\ accidents \in 0 .. MaxAccidents /\ spotless \in BOOLEAN

(* An archive is only made of a whole scan: a job that comes to publish has  *)
(* one, and a receipt says that the archive holds the scan that is reported. *)
WholeScans(d) == {s \in [PagesOf(d) -> Classes] :
                    \A n \in PagesOf(d) : s[n] # "processing_error"}
ArchivesAreWhole ==
  \A ds \in Datasets, d \in Documents :
    Has(Archive(ds, d)) => objects[Archive(ds, d)] \in WholeScans(d)
PublishedIsWhole ==
  \A d \in Documents : job[d] = "publish" => scan[d] \in WholeScans(d)
ReceiptsAreTrue ==
  \A d \in receipt :
    /\ job[d] = "ended" /\ Has(Archive(census.ds, d))
    /\ objects[Archive(census.ds, d)] = scan[d]
JobsInv == ArchivesAreWhole /\ PublishedIsWhole /\ ReceiptsAreTrue

(* How far the markers of a census have come.                               *)
SummaryOf(inventory) == [d \in inventory |-> scan[d]]
MarkersInv ==
  /\ census.stage \in {"inventory", "summary", "success"} =>
       receipt = Inventory
  /\ census.stage \in {"summary", "success"} =>
       /\ Has(<<"inventory", census.ds>>)
       /\ objects[<<"inventory", census.ds>>] = Inventory
  /\ census.stage = "success" =>
       /\ Has(<<"summary", census.ds>>)
       /\ objects[<<"summary", census.ds>>] = SummaryOf(Inventory)

CensusInv == CensusTypes /\ JobsInv /\ MarkersInv /\ CensusIsWhole

(* The attempt works on the plan of a completed census, and what a page is   *)
(* at says which of its two passes exist.                                   *)
OcrTypes ==
  /\ ocr \in [attempt : 0 .. MaxOcr,
              phase : {"idle", "pass1", "pass2", "both", "aggregate"},
              plan : Datasets \cup {Missing}, pages : SUBSET AllPages,
              rendering : AnyRendering]
  /\ task \in [AllPages -> {"none", "waiting", "load", "call1", "put1",
                            "call2", "put2", "done", "failed"}]
  /\ covered \subseteq {"pass1", "pass2", "both"} /\ lucky \in BOOLEAN
PlanIsCompleted ==
  ocr.phase # "idle" => \E i \in DOMAIN completed : completed[i] = ocr.plan
TasksInv ==
  \A p \in AllPages :
    /\ task[p] \in {"call1", "put1"} => ~Has(First(p))
    /\ task[p] \in {"call2", "put2"} => Has(First(p)) /\ (Working => Resumes(p))
    /\ task[p] \in {"call1", "put1", "call2", "put2"} => ~Has(Second(p))

(* A second pass is the second pass of the first that is there, rendered as  *)
(* that was.                                                                 *)
SecondsSeeFirsts ==
  \A ds \in Datasets, p \in AllPages :
    Has(Evidence(ds, p, 2)) =>
      /\ Has(Evidence(ds, p, 1))
      /\ PairHolds(objects[Evidence(ds, p, 1)], objects[Evidence(ds, p, 2)])

OcrInv == OcrTypes /\ PlanIsCompleted /\ TasksInv /\ SecondsSeeFirsts
          /\ OcrCoversCensus
Inv == CensusInv /\ OcrInv

-----------------------------------------------------------------------------
(* Objects: keys do not collide, and nothing is replaced or removed.        *)
LEMMA SmallestOfNat ==
  ASSUME NEW S, S \subseteq Nat, S # {}
  PROVE  \E x \in S : \A y \in S : x <= y
<1>1. PICK x \in S : \A y \in S : ~(<<y, x>> \in OpToRel(<, Nat))
  BY NatLessThanWellFounded, WFMin
<1>2. \A y \in S : ~(y < x)
  BY <1>1 DEF OpToRel
<1>3. \A y \in S : x <= y
  BY <1>2
<1> QED
  BY <1>3

LEMMA KeysDiffer ==
  ASSUME NEW a, NEW b, NEW c, NEW d, NEW e, NEW f
  PROVE  /\ Archive(a, b) = Archive(c, d) => a = c /\ b = d
         /\ Evidence(a, b, e) = Evidence(c, d, f) => a = c /\ b = d /\ e = f
         /\ OcrSuccess(a) = OcrSuccess(c) => a = c
         /\ Archive(a, b) \notin {Evidence(c, d, e), OcrSuccess(c),
              CensusSuccess(c), <<"inventory", c>>, <<"summary", c>>}
         /\ Evidence(a, b, e) \notin {OcrSuccess(c), CensusSuccess(c),
              <<"inventory", c>>, <<"summary", c>>}
         /\ OcrSuccess(a) \notin {CensusSuccess(c), <<"inventory", c>>,
              <<"summary", c>>}
  BY DEF Archive, Evidence, OcrSuccess, CensusSuccess

Grows == \A k \in DOMAIN objects :
           k \in DOMAIN objects' /\ objects'[k] = objects[k]
Adds(key) == Grows /\ \A k \in DOMAIN objects' : k \in DOMAIN objects \/ k = key

LEMMA PutAdds ==
  ASSUME NEW key, NEW payload, objects' \in {objects, With(key, payload)}
  PROVE  Adds(key)
  BY DEF With, Has, Adds, Grows

LEMMA PutStores ==
  ASSUME NEW key, NEW payload, Accepted(key, payload),
         objects' = With(key, payload)
  PROVE  key \in DOMAIN objects' /\ objects'[key] = payload
  BY DEF With, Has, Accepted

(* What a step of the census puts, if anything.                             *)
CensusKeys == {Archive(census.ds, d) : d \in Documents}
              \cup {<<"inventory", census.ds>>, <<"summary", census.ds>>,
                    CensusSuccess(census.ds)}
LEMMA CensusAdds ==
  ASSUME CensusNext PROVE \E key \in CensusKeys : Adds(key)
<1>1. ASSUME NEW d \in Documents, NEW s,
             objects' \in {objects, With(Archive(census.ds, d), s)}
      PROVE  \E key \in CensusKeys : Adds(key)
  BY <1>1, PutAdds DEF CensusKeys
<1>2. ASSUME NEW key \in CensusKeys, NEW payload,
             objects' \in {objects, With(key, payload)}
      PROVE  \E k \in CensusKeys : Adds(k)
  BY <1>2, PutAdds
<1>3. ASSUME UNCHANGED objects PROVE \E key \in CensusKeys : Adds(key)
  BY <1>2, <1>3 DEF CensusKeys
<1>4. CASE PutInventory \/ PutSummary \/ PutSuccess
  BY <1>2, <1>4 DEF PutInventory, PutSummary, PutSuccess, PutMarker, CensusKeys
<1>5. ASSUME NEW d \in Documents, DocumentStep(d) \/ DocumentAccident(d)
      PROVE  \E key \in CensusKeys : Adds(key)
  BY <1>1, <1>3, <1>5 DEF DocumentStep, DocumentAccident, RestoreDocument,
     ScanDocument, PublishDocument, ScanFails, PublishLost, JobLost
<1>6. ASSUME NEW d \in Documents, AddDocument(d) PROVE UNCHANGED objects
  BY <1>6 DEF AddDocument
<1>7. ASSUME NEW rev \in Revisions, DispatchCensus(rev) PROVE UNCHANGED objects
  BY <1>7 DEF DispatchCensus
<1>8. CASE Aggregate \/ AggregateDies
  BY <1>3, <1>8 DEF Aggregate, AggregateDies
<1> QED
  BY <1>3, <1>4, <1>5, <1>6, <1>7, <1>8 DEF CensusNext, Markers

(* What a step of the OCR puts, if anything.                                *)
OcrKeys == {First(p) : p \in AllPages} \cup {Second(p) : p \in AllPages}
           \cup {OcrSuccess(ocr.plan)}
OcrStep == \/ \E mode \in {"workflow", "both"}, resume \in BOOLEAN :
                 StartOcr(mode, resume)
           \/ \E p \in AllPages : PageStep(p) \/ PageAccident(p)
           \/ WorkerStep \/ WorkerDies
LEMMA OcrAdds ==
  ASSUME OcrStep PROVE \E key \in OcrKeys : Adds(key)
<1>1. OcrSuccess(ocr.plan) \in OcrKeys
  BY DEF OcrKeys
<1>2. ASSUME UNCHANGED objects PROVE \E key \in OcrKeys : Adds(key)
  BY <1>1, <1>2, PutAdds
<1>3. ASSUME NEW p \in AllPages, PutPage(p) \/ PutPageLost(p)
      PROVE  \E key \in OcrKeys : Adds(key)
  <2>1. KeyOf(p) \in OcrKeys
    BY DEF KeyOf, OcrKeys
  <2>2. objects' \in {objects, With(KeyOf(p), Payload(p))}
    BY <1>3 DEF PutPage, PutPageLost
  <2> QED
    BY <2>1, <2>2, PutAdds
<1>4. ASSUME NEW p \in AllPages, LoadPage(p) \/ CallPage(p) \/ PageFails(p)
      PROVE  UNCHANGED objects
  BY <1>4 DEF LoadPage, CallPage, PageFails
<1>5. ASSUME AggregateOcr PROVE \E key \in OcrKeys : Adds(key)
  BY <1>1, <1>5, PutAdds DEF AggregateOcr
<1>6. CASE StartBatch \/ EndPhase \/ WorkerDies
  BY <1>2, <1>6 DEF StartBatch, EndPhase, WorkerDies
<1>7. ASSUME NEW mode, NEW resume, StartOcr(mode, resume) PROVE UNCHANGED objects
  BY <1>7 DEF StartOcr
<1> QED
  BY <1>2, <1>3, <1>4, <1>5, <1>6, <1>7
     DEF OcrStep, PageStep, PageAccident, WorkerStep

-----------------------------------------------------------------------------
(* Types of the census.                                                     *)
LEMMA ScanTypes ==
  ASSUME NEW d \in Documents
  PROVE  /\ PageCount[d] \in Nat \ {0}
         /\ WholeScans(d) \subseteq Scans(d)
         /\ Missing \notin Scans(d)
         /\ \A n \in PagesOf(d) : [m \in 1 .. n - 1 |-> "aligned"] \in Scans(d)
         /\ [PagesOf(d) -> Classes] \subseteq Scans(d)
<1>1. PageCount[d] \in Nat \ {0} /\ Missing \notin Scans(d)
  BY CensusPages, CensusMissing
<1>2. \A n \in 0 .. PageCount[d] : [1 .. n -> Classes] \subseteq Scans(d)
  BY DEF Scans
<1>3. [PagesOf(d) -> Classes] \subseteq Scans(d)
  BY <1>1, <1>2 DEF PagesOf
<1>4. ASSUME NEW n \in PagesOf(d)
      PROVE  [m \in 1 .. n - 1 |-> "aligned"] \in Scans(d)
  <2>1. n - 1 \in 0 .. PageCount[d]
    BY <1>1 DEF PagesOf
  <2>2. [m \in 1 .. n - 1 |-> "aligned"] \in [1 .. n - 1 -> Classes]
    BY DEF Classes
  <2> QED
    BY <1>2, <2>1, <2>2
<1> QED
  BY <1>1, <1>3, <1>4 DEF WholeScans

LEMMA CensusTypesInit == OcrInit => CensusTypes
<1> SUFFICES ASSUME OcrInit PROVE CensusTypes
  OBVIOUS
<1>1. corpus \subseteq Documents
  <2>1. \E d \in Documents : \A e \in Documents : d <= e
    BY SmallestOfNat, CensusDocuments
  <2> QED
    BY <2>1 DEF OcrInit, CensusInit
<1>2. 0 \in 0 .. MaxCensus /\ 0 \in 0 .. MaxAccidents
  BY CensusBounds
<1> QED
  BY <1>1, <1>2 DEF OcrInit, CensusInit, CensusTypes, Stages, JobSteps, AnyScan

LEMMA AccidentTypes ==
  ASSUME CensusTypes, Smooth \/ Accident
  PROVE  accidents' \in 0 .. MaxAccidents /\ spotless' \in BOOLEAN
<1>1. CASE Smooth
  BY <1>1 DEF Smooth, CensusTypes
<1>2. CASE Accident
  <2>1. accidents \in 0 .. MaxAccidents
    BY DEF CensusTypes
  <2>2. accidents' \in 0 .. MaxAccidents
    BY <1>2, <2>1, CensusBounds DEF Accident
  <2>3. spotless' = FALSE
    BY <1>2 DEF Accident
  <2> QED
    BY <2>2, <2>3
<1> QED
  BY <1>1, <1>2

(* A job's step and scan change, or the stage does.                         *)
LEMMA JobTypes ==
  ASSUME CensusTypes, JobsInv, NEW d \in Documents,
         DocumentStep(d) \/ DocumentAccident(d)
  PROVE  CensusTypes'
<1> USE DEF CensusTypes
<1>1. \A step \in JobSteps : Then(d, step) => job' \in [Documents -> JobSteps]
  BY DEF Then
<1>2. ASSUME NEW s \in Scans(d) \cup {Missing}, scan' = [scan EXCEPT ![d] = s]
      PROVE  /\ scan' \in [Documents -> AnyScan]
             /\ \A e \in Documents : scan'[e] \in Scans(e) \cup {Missing}
  BY <1>2 DEF AnyScan
<1>3. accidents' \in 0 .. MaxAccidents /\ spotless' \in BOOLEAN
  BY AccidentTypes DEF DocumentStep, DocumentAccident, RestoreDocument,
     ScanDocument, PublishDocument, ScanFails, PublishLost, JobLost
<1>4. UNCHANGED <<corpus, completed, census>> /\ receipt' \subseteq Documents
  BY DEF DocumentStep, DocumentAccident, RestoreDocument,
     ScanDocument, PublishDocument, ScanFails, PublishLost, JobLost
<1>5. job' \in [Documents -> JobSteps]
  BY <1>1 DEF DocumentStep, DocumentAccident, RestoreDocument, ScanDocument,
     PublishDocument, ScanFails, PublishLost, JobLost, JobSteps
<1>6. /\ scan' \in [Documents -> AnyScan]
      /\ \A e \in Documents : scan'[e] \in Scans(e) \cup {Missing}
  <2>1. CASE RestoreDocument(d)
    <3>1. census.ds \in Datasets
      BY <2>1 DEF RestoreDocument, At
    <3>2. CASE UNCHANGED scan
      BY <3>2
    <3>3. CASE Has(Archive(census.ds, d))
               /\ LeaveScan(d, objects[Archive(census.ds, d)])
      BY <1>2, <3>1, <3>3, ScanTypes DEF JobsInv, ArchivesAreWhole, LeaveScan
    <3> QED
      BY <2>1, <3>2, <3>3 DEF RestoreDocument
  <2>2. CASE ScanDocument(d)
    BY <1>2, <2>2, ScanTypes DEF ScanDocument, LeaveScan
  <2>3. CASE ScanFails(d)
    <3>1. \A n \in PagesOf(d) :
            [m \in PagesOf(d) |-> IF m = n THEN "processing_error" ELSE "aligned"]
              \in [PagesOf(d) -> Classes]
      BY DEF Classes
    <3> QED
      BY <1>2, <2>3, <3>1, ScanTypes DEF ScanFails, LeaveScan
  <2>4. CASE PublishLost(d)
    BY <1>2, <2>4 DEF PublishLost
  <2>5. CASE PublishDocument(d) \/ JobLost(d)
    BY <2>5 DEF PublishDocument, JobLost
  <2> QED
    BY <2>1, <2>2, <2>3, <2>4, <2>5 DEF DocumentStep, DocumentAccident
<1> QED
  BY <1>3, <1>4, <1>5, <1>6

LEMMA StageTypes ==
  ASSUME CensusTypes,
         Markers \/ AggregateDies
  PROVE  CensusTypes'
<1> USE DEF CensusTypes
<1>1. UNCHANGED <<corpus, job, scan, receipt>>
  BY DEF Markers, Aggregate, PutInventory, PutSummary, PutSuccess, PutMarker,
         AggregateDies
<1>2. accidents' \in 0 .. MaxAccidents /\ spotless' \in BOOLEAN
  BY AccidentTypes DEF Markers, Aggregate, PutInventory, PutSummary,
     PutSuccess, PutMarker, AggregateDies
<1>3. /\ census.stage # "idle"
      /\ \E stage \in Stages : census' = [census EXCEPT !.stage = stage]
  BY DEF Markers, Aggregate, PutInventory, PutSummary, PutSuccess, PutMarker,
         AggregateDies, Stages
<1>4. /\ census' \in [runs : 0 .. MaxCensus, stage : Stages,
                      ds : Datasets \cup {Missing}]
      /\ census'.ds = census.ds
  BY <1>3
<1>5. completed' \in Seq(Datasets)
  <2>1. completed' \in {completed, Append(completed, census.ds)}
    BY DEF Markers, Aggregate, PutInventory, PutSummary, PutSuccess,
       PutMarker, AggregateDies
  <2> QED
    BY <1>3, <2>1
<1> QED
  BY <1>1, <1>2, <1>3, <1>4, <1>5

LEMMA CensusTypesStep ==
  ASSUME CensusTypes, JobsInv, CensusNext PROVE CensusTypes'
<1>1. ASSUME NEW d \in Documents, AddDocument(d) PROVE CensusTypes'
  BY <1>1 DEF AddDocument, CensusTypes
<1>2. ASSUME NEW rev \in Revisions, DispatchCensus(rev) PROVE CensusTypes'
  <2>1. <<corpus, rev>> \in Datasets
    BY DEF CensusTypes, Datasets
  <2>2. census' \in [runs : 0 .. MaxCensus, stage : Stages,
                     ds : Datasets \cup {Missing}]
        /\ census'.ds \in Datasets
    BY <1>2, <2>1, CensusBounds DEF DispatchCensus, CensusTypes, Stages
  <2>3. job' \in [Documents -> JobSteps] /\ scan' \in [Documents -> AnyScan]
        /\ \A d \in Documents : scan'[d] \in Scans(d) \cup {Missing}
    BY <1>2 DEF DispatchCensus, JobSteps, AnyScan
  <2> QED
    BY <1>2, <2>2, <2>3 DEF DispatchCensus, CensusTypes
<1> QED
  BY <1>1, <1>2, JobTypes, StageTypes DEF CensusNext

-----------------------------------------------------------------------------
(* What the jobs and the markers leave behind stays true.                   *)

(* Objects that grow by no archive leave the invariant of the jobs alone.   *)
NoNewArchive ==
  \A ds \in Datasets, d \in Documents :
    Archive(ds, d) \in DOMAIN objects' => Archive(ds, d) \in DOMAIN objects

LEMMA JobsUndisturbed ==
  ASSUME JobsInv, Grows, NoNewArchive, census'.ds = census.ds,
         UNCHANGED <<job, scan, receipt>>
  PROVE  JobsInv'
<1>1. ArchivesAreWhole'
  BY DEF JobsInv, ArchivesAreWhole, NoNewArchive, Grows, Has
<1>2. PublishedIsWhole'
  BY DEF JobsInv, PublishedIsWhole
<1>3. ASSUME NEW d \in receipt
      PROVE  /\ job[d] = "ended" /\ Has(Archive(census.ds, d))'
             /\ objects'[Archive(census.ds, d)'] = scan[d]
  <2>1. Archive(census.ds, d)' = Archive(census.ds, d)
    BY DEF Archive
  <2> QED
    BY <1>3, <2>1 DEF JobsInv, ReceiptsAreTrue, Grows, Has
<1> QED
  BY <1>1, <1>2, <1>3 DEF JobsInv, ReceiptsAreTrue

LEMMA RestoreJobs ==
  ASSUME CensusTypes, JobsInv, NEW d \in Documents, RestoreDocument(d)
  PROVE  JobsInv'
<1> USE DEF RestoreDocument, At, Then, LeaveScan, CensusTypes
<1>0. census.ds \in Datasets /\ UNCHANGED <<objects, census>>
  OBVIOUS
<1>1. ArchivesAreWhole'
  BY <1>0 DEF JobsInv, ArchivesAreWhole, Has, Archive
<1>2. PublishedIsWhole'
  BY DEF JobsInv, PublishedIsWhole
<1>3. ReceiptsAreTrue'
  BY <1>0 DEF JobsInv, ReceiptsAreTrue, Has, Archive
<1> QED
  BY <1>1, <1>2, <1>3 DEF JobsInv

(* A scan that comes to publish reached every page and raised on none.      *)
LEMMA ScanJobs ==
  ASSUME CensusTypes, JobsInv, NEW d \in Documents,
         ScanDocument(d) \/ ScanFails(d) \/ JobLost(d)
  PROVE  JobsInv'
<1>0. UNCHANGED <<objects, census, receipt>> /\ job[d] \in {"restore", "scan"}
  BY DEF ScanDocument, ScanFails, JobLost, At
<1>1. /\ \A e \in Documents \ {d} : job'[e] = job[e] /\ scan'[e] = scan[e]
      /\ job'[d] = "publish" => scan'[d] \in WholeScans(d)
  <2>1. CASE ScanDocument(d)
    <3>1. PICK s \in [PagesOf(d) -> Classes] :
            /\ \A n \in PagesOf(d) : s[n] \in Readings[<<d, n>>]
            /\ scan' = [scan EXCEPT ![d] = s]
            /\ job' = [job EXCEPT ![d] = "publish"]
      BY <2>1 DEF ScanDocument, LeaveScan, Then
    <3>2. \A n \in PagesOf(d) : <<d, n>> \in AllPages
      BY DEF AllPages
    <3>3. s \in WholeScans(d)
      BY <3>1, <3>2, CensusReadings DEF WholeScans
    <3> QED
      BY <3>1, <3>3 DEF CensusTypes
  <2>2. CASE ScanFails(d)
    BY <2>2 DEF ScanFails, LeaveScan, Then, CensusTypes
  <2>3. CASE JobLost(d)
    BY <2>3 DEF JobLost, Then, CensusTypes
  <2> QED
    BY <2>1, <2>2, <2>3
<1>2. ArchivesAreWhole'
  BY <1>0 DEF JobsInv, ArchivesAreWhole, Has, Archive
<1>3. PublishedIsWhole'
  BY <1>1 DEF JobsInv, PublishedIsWhole
<1>4. d \notin receipt
  BY <1>0 DEF JobsInv, ReceiptsAreTrue
<1>5. ReceiptsAreTrue'
  BY <1>0, <1>1, <1>4 DEF JobsInv, ReceiptsAreTrue, Has, Archive, CensusTypes
<1> QED
  BY <1>2, <1>3, <1>5 DEF JobsInv

LEMMA PublishJobs ==
  ASSUME CensusTypes, JobsInv, NEW d \in Documents,
         PublishDocument(d) \/ PublishLost(d)
  PROVE  JobsInv'
<1> DEFINE key == Archive(census.ds, d)
<1>0. /\ census.ds \in Datasets /\ census' = census /\ job[d] = "publish"
      /\ job' = [job EXCEPT ![d] = "ended"]
      /\ objects' \in {objects, With(key, scan[d])}
      /\ scan[d] \in WholeScans(d)
  BY DEF PublishDocument, PublishLost, At, Then, CensusTypes, JobsInv,
         PublishedIsWhole
<1>1. Adds(key)
  BY <1>0, PutAdds
<1>2. key \in DOMAIN objects' /\ key \notin DOMAIN objects =>
        objects'[key] = scan[d]
  BY <1>0 DEF With, Has
<1>3. ArchivesAreWhole'
  <2> SUFFICES ASSUME NEW ds \in Datasets, NEW e \in Documents,
                      Archive(ds, e) \in DOMAIN objects'
               PROVE  objects'[Archive(ds, e)] \in WholeScans(e)
    BY DEF ArchivesAreWhole, Has, Archive
  <2>1. CASE Archive(ds, e) \in DOMAIN objects
    BY <1>1, <2>1 DEF Adds, Grows, JobsInv, ArchivesAreWhole, Has
  <2>2. CASE Archive(ds, e) \notin DOMAIN objects
    <3>1. Archive(ds, e) = key
      BY <1>1, <2>2 DEF Adds
    <3>2. e = d
      BY <3>1, KeysDiffer
    <3> QED
      BY <1>0, <1>2, <2>2, <3>1, <3>2
  <2> QED
    BY <2>1, <2>2
<1>4. PublishedIsWhole'
  <2>1. \A e \in Documents \ {d} : scan'[e] = scan[e]
    BY DEF PublishDocument, PublishLost, CensusTypes
  <2> QED
    BY <1>0, <2>1 DEF JobsInv, PublishedIsWhole, CensusTypes
<1>5. d \notin receipt
  BY <1>0 DEF JobsInv, ReceiptsAreTrue
<1>6. ReceiptsAreTrue'
  <2>1. ASSUME NEW e \in receipt
        PROVE  /\ job'[e] = "ended" /\ Archive(census.ds, e) \in DOMAIN objects'
               /\ objects'[Archive(census.ds, e)] = scan'[e]
    <3>1. e # d /\ e \in Documents /\ scan'[e] = scan[e]
      BY <1>5, <2>1 DEF PublishDocument, PublishLost, CensusTypes
    <3> QED
      BY <1>0, <1>1, <2>1, <3>1
         DEF JobsInv, ReceiptsAreTrue, Adds, Grows, Has, CensusTypes
  <2>2. CASE receipt' = receipt
    BY <1>0, <2>1, <2>2 DEF ReceiptsAreTrue, Has, Archive
  <2>3. CASE /\ receipt' = receipt \cup {d} /\ UNCHANGED scan
             /\ Accepted(key, scan[d]) /\ objects' = With(key, scan[d])
    <3>1. key \in DOMAIN objects' /\ objects'[key] = scan'[d] /\ job'[d] = "ended"
      BY <1>0, <2>3, PutStores DEF CensusTypes
    <3> QED
      BY <1>0, <2>1, <2>3, <3>1 DEF ReceiptsAreTrue, Has, Archive
  <2> QED
    BY <2>2, <2>3 DEF PublishDocument, PublishLost
<1> QED
  BY <1>3, <1>4, <1>6 DEF JobsInv

LEMMA MarkersAddNoArchive ==
  ASSUME Markers \/ AggregateDies PROVE Grows /\ NoNewArchive
<1>1. ASSUME NEW key, Adds(key),
             \A ds \in Datasets, d \in Documents : Archive(ds, d) # key
      PROVE  Grows /\ NoNewArchive
  BY <1>1 DEF Adds, NoNewArchive
<1>2. ASSUME NEW key \in {<<"inventory", census.ds>>, <<"summary", census.ds>>,
                          CensusSuccess(census.ds)}
      PROVE  \A ds \in Datasets, d \in Documents : Archive(ds, d) # key
  BY <1>2, KeysDiffer
<1>3. CASE UNCHANGED objects
  BY <1>3 DEF Grows, NoNewArchive
<1>4. CASE PutInventory \/ PutSummary \/ PutSuccess
  <2>1. PICK key \in {<<"inventory", census.ds>>, <<"summary", census.ds>>,
                      CensusSuccess(census.ds)} :
          \E payload : objects' \in {objects, With(key, payload)}
    BY <1>4 DEF PutInventory, PutSummary, PutSuccess, PutMarker
  <2>2. Adds(key)
    BY <2>1, PutAdds
  <2>3. \A ds \in Datasets, d \in Documents : Archive(ds, d) # key
    BY <1>2
  <2> QED
    BY <1>1, <2>2, <2>3
<1> QED
  BY <1>3, <1>4 DEF Markers, Aggregate, AggregateDies

LEMMA JobsInvStep ==
  ASSUME CensusTypes, JobsInv, CensusNext PROVE JobsInv'
<1>1. CASE Markers \/ AggregateDies
  <2>1. UNCHANGED <<job, scan, receipt>> /\ census'.ds = census.ds
    BY <1>1 DEF Markers, Aggregate, PutInventory, PutSummary, PutSuccess,
       PutMarker, AggregateDies, CensusTypes
  <2> QED
    BY <1>1, <2>1, JobsUndisturbed, MarkersAddNoArchive
<1>2. ASSUME NEW d \in Documents, AddDocument(d) PROVE JobsInv'
  BY <1>2, JobsUndisturbed DEF AddDocument, Grows, NoNewArchive
<1>3. ASSUME NEW rev \in Revisions, DispatchCensus(rev) PROVE JobsInv'
  <2>1. UNCHANGED objects /\ receipt' = {}
        /\ \A d \in Documents : job'[d] # "publish"
    BY <1>3 DEF DispatchCensus
  <2> QED
    BY <2>1 DEF JobsInv, ArchivesAreWhole, PublishedIsWhole, ReceiptsAreTrue,
       Has, Archive
<1> QED
  BY <1>1, <1>2, <1>3, RestoreJobs, ScanJobs, PublishJobs
     DEF CensusNext, DocumentStep, DocumentAccident

LEMMA MarkersInvStep ==
  ASSUME CensusTypes, MarkersInv, CensusNext PROVE MarkersInv'
<1>1. ASSUME census'.stage \in {"idle", "documents"} PROVE MarkersInv'
  BY <1>1 DEF MarkersInv
<1>2. ASSUME NEW d \in Documents, AddDocument(d) PROVE MarkersInv'
  BY <1>2 DEF AddDocument, MarkersInv, Has, Inventory, SummaryOf
<1>3. ASSUME NEW d \in Documents, DocumentStep(d) \/ DocumentAccident(d)
      PROVE  census'.stage = "documents"
  BY <1>3 DEF DocumentStep, DocumentAccident, RestoreDocument, ScanDocument,
     PublishDocument, ScanFails, PublishLost, JobLost, At
<1>4. ASSUME NEW rev \in Revisions, DispatchCensus(rev)
      PROVE  census'.stage = "documents"
  BY <1>4 DEF DispatchCensus
<1>5. CASE Aggregate
  BY <1>1, <1>5 DEF Aggregate, MarkersInv, Valid, Covered, Inventory, CensusTypes
<1>6. CASE PutInventory
  <2>1. CASE census'.stage = "idle"
    BY <1>1, <2>1
  <2>2. CASE census'.stage # "idle"
    <3>1. /\ census.stage = "inventory" /\ census'.stage = "summary"
          /\ census'.ds = census.ds /\ UNCHANGED <<scan, receipt>>
          /\ Accepted(<<"inventory", census.ds>>, Inventory)
          /\ objects' = With(<<"inventory", census.ds>>, Inventory)
      BY <1>6, <2>2 DEF PutInventory, PutMarker, CensusTypes
    <3>2. /\ <<"inventory", census.ds>> \in DOMAIN objects'
          /\ objects'[<<"inventory", census.ds>>] = Inventory
      BY <3>1, PutStores
    <3> QED
      BY <3>1, <3>2 DEF MarkersInv, Has, Inventory
  <2> QED
    BY <2>1, <2>2
<1>7. CASE PutSummary
  <2>1. CASE census'.stage = "idle"
    BY <1>1, <2>1
  <2>2. CASE census'.stage # "idle"
    <3>1. /\ census.stage = "summary" /\ census'.stage = "success"
          /\ census'.ds = census.ds /\ UNCHANGED <<scan, receipt>>
          /\ Accepted(<<"summary", census.ds>>, SummaryOf(Inventory))
          /\ objects' = With(<<"summary", census.ds>>, SummaryOf(Inventory))
      BY <1>7, <2>2 DEF PutSummary, PutMarker, CensusTypes, SummaryOf
    <3>2. /\ <<"summary", census.ds>> \in DOMAIN objects'
          /\ objects'[<<"summary", census.ds>>] = SummaryOf(Inventory)
          /\ Grows
      BY <3>1, PutStores, PutAdds DEF Adds
    <3> QED
      BY <3>1, <3>2 DEF MarkersInv, Has, Inventory, SummaryOf, Grows
  <2> QED
    BY <2>1, <2>2
<1>8. CASE PutSuccess \/ AggregateDies
  BY <1>1, <1>8 DEF PutSuccess, PutMarker, AggregateDies, CensusTypes
<1> QED
  BY <1>1, <1>2, <1>3, <1>4, <1>5, <1>6, <1>7, <1>8 DEF CensusNext, Markers

(* A completed census stays whole, whatever is put afterwards.              *)
WholeCensus(ds) ==
  /\ Has(<<"inventory", ds>>) /\ objects[<<"inventory", ds>>] = ds[1]
  /\ Has(<<"summary", ds>>)
  /\ \A d \in ds[1] :
        /\ Has(Archive(ds, d))
        /\ objects[Archive(ds, d)] = objects[<<"summary", ds>>][d]
        /\ DOMAIN objects[Archive(ds, d)] = PagesOf(d)
        /\ \A n \in PagesOf(d) : objects[Archive(ds, d)][n] # "processing_error"

LEMMA CompletedStaysWhole ==
  ASSUME CensusIsWhole, Grows, UNCHANGED completed PROVE CensusIsWhole'
<1>1. ASSUME NEW i \in DOMAIN completed PROVE WholeCensus(completed[i])'
  <2>1. WholeCensus(completed[i])
    BY DEF CensusIsWhole, WholeCensus
  <2> QED
    BY <2>1 DEF WholeCensus, Grows, Has, Archive
<1> QED
  BY <1>1 DEF CensusIsWhole, WholeCensus

LEMMA CensusIsWholeStep ==
  ASSUME CensusInv, CensusNext PROVE CensusIsWhole'
<1>0. Grows
  BY CensusAdds DEF Adds
<1>1. CASE UNCHANGED completed
  BY <1>0, <1>1, CompletedStaysWhole DEF CensusInv
<1>2. CASE PutSuccess /\ completed' = Append(completed, census.ds)
  <2>1. /\ census.stage = "success" /\ census.ds \in Datasets
        /\ completed \in Seq(Datasets)
    BY <1>2 DEF PutSuccess, PutMarker, CensusInv, CensusTypes
  <2>2. WholeCensus(census.ds)
    <3>1. ASSUME NEW d \in Inventory
          PROVE  /\ Has(Archive(census.ds, d))
                 /\ objects[Archive(census.ds, d)] = SummaryOf(Inventory)[d]
                 /\ objects[Archive(census.ds, d)] \in WholeScans(d)
      <4>1. d \in receipt /\ d \in Documents
        BY <2>1, <3>1 DEF CensusInv, MarkersInv, CensusTypes
      <4> QED
        BY <2>1, <3>1, <4>1
           DEF CensusInv, JobsInv, ReceiptsAreTrue, ArchivesAreWhole, SummaryOf
    <3> QED
      BY <2>1, <3>1 DEF WholeCensus, CensusInv, MarkersInv, Inventory, WholeScans
  <2>3. ASSUME NEW i \in DOMAIN completed' PROVE WholeCensus(completed[i])'
    <3>1. CASE i \in DOMAIN completed
      <4>1. completed'[i] = completed[i]
        BY <1>2, <2>1, <3>1
      <4>2. WholeCensus(completed[i])
        BY <3>1 DEF CensusInv, CensusIsWhole, WholeCensus
      <4> QED
        BY <1>0, <4>1, <4>2 DEF WholeCensus, Grows, Has, Archive
    <3>2. CASE i \notin DOMAIN completed
      <4>1. completed'[i] = census.ds
        BY <1>2, <2>1, <2>3, <3>2
      <4> QED
        BY <1>0, <2>2, <4>1 DEF WholeCensus, Grows, Has, Archive
    <3> QED
      BY <3>1, <3>2
  <2> QED
    BY <2>3 DEF CensusIsWhole, WholeCensus
<1>3. CASE PutSuccess
  BY <1>1, <1>2, <1>3 DEF PutSuccess
<1>4. CASE Aggregate \/ PutInventory \/ PutSummary \/ AggregateDies
  BY <1>1, <1>4 DEF Aggregate, PutInventory, PutSummary, AggregateDies
<1>5. ASSUME NEW d \in Documents,
             AddDocument(d) \/ DocumentStep(d) \/ DocumentAccident(d)
      PROVE  UNCHANGED completed
  BY <1>5 DEF AddDocument, DocumentStep, DocumentAccident, RestoreDocument,
     ScanDocument, PublishDocument, ScanFails, PublishLost, JobLost
<1>6. ASSUME NEW rev \in Revisions, DispatchCensus(rev) PROVE UNCHANGED completed
  BY <1>6 DEF DispatchCensus
<1> QED
  BY <1>1, <1>3, <1>4, <1>5, <1>6 DEF CensusNext, Markers

LEMMA CensusInvStep ==
  ASSUME CensusInv, CensusNext PROVE CensusInv'
  BY CensusTypesStep, JobsInvStep, MarkersInvStep, CensusIsWholeStep DEF CensusInv

-----------------------------------------------------------------------------
(* The OCR leaves the census alone, and the census the evidence of the OCR. *)
LEMMA OcrLeavesPages ==
  ASSUME OcrStep
  PROVE  /\ UNCHANGED pageVars
         /\ \/ UNCHANGED accidents
            \/ accidents < MaxAccidents /\ accidents' = accidents + 1
<1>1. ASSUME NEW p \in AllPages, PageStep(p) \/ PageAccident(p)
      PROVE  /\ UNCHANGED pageVars
             /\ \/ UNCHANGED accidents
                \/ accidents < MaxAccidents /\ accidents' = accidents + 1
  BY <1>1 DEF PageStep, PageAccident, LoadPage, CallPage, PutPage, PageFails,
     PutPageLost, Calm, Mishap
<1>2. CASE WorkerStep \/ WorkerDies
  BY <1>2 DEF WorkerStep, WorkerDies, StartBatch, EndPhase, AggregateOcr, Calm,
     Mishap
<1>3. ASSUME NEW mode, NEW resume, StartOcr(mode, resume)
      PROVE  UNCHANGED <<pageVars, accidents>>
  BY <1>3 DEF StartOcr
<1> QED
  BY <1>1, <1>2, <1>3 DEF OcrStep

LEMMA OcrAddsNoArchive ==
  ASSUME OcrStep PROVE Grows /\ NoNewArchive
<1>1. PICK key \in OcrKeys : Adds(key)
  BY OcrAdds
<1>2. \A ds \in Datasets, d \in Documents : Archive(ds, d) # key
  BY KeysDiffer DEF OcrKeys, First, Second
<1> QED
  BY <1>1, <1>2 DEF Adds, NoNewArchive

LEMMA CensusInvUnderOcr ==
  ASSUME CensusInv, OcrStep PROVE CensusInv'
<1>1. Grows /\ NoNewArchive /\ UNCHANGED pageVars
  BY OcrAddsNoArchive, OcrLeavesPages
<1>2. CensusTypes'
  <2>1. accidents \in 0 .. MaxAccidents
    BY DEF CensusInv, CensusTypes
  <2>2. accidents' \in 0 .. MaxAccidents
    BY <2>1, OcrLeavesPages, CensusBounds
  <2> QED
    BY <1>1, <2>2 DEF CensusInv, CensusTypes, pageVars
<1>3. JobsInv'
  BY <1>1, JobsUndisturbed DEF CensusInv, pageVars
<1>4. MarkersInv'
  BY <1>1 DEF CensusInv, MarkersInv, pageVars, Grows, Has, Inventory, SummaryOf
<1>5. CensusIsWhole'
  BY <1>1, CompletedStaysWhole DEF CensusInv, pageVars
<1> QED
  BY <1>2, <1>3, <1>4, <1>5 DEF CensusInv

(* The pages a census could not verify are settled once it is completed.    *)
LEMMA TargetsStay ==
  ASSUME CensusInv, Grows, NEW ds, \E i \in DOMAIN completed : completed[i] = ds
  PROVE  TargetPages(ds)' = TargetPages(ds)
<1>1. \A d \in ds[1] : Archive(ds, d) \in DOMAIN objects
  BY DEF CensusInv, CensusIsWhole, Has
<1>2. \A p \in PagesIn(ds) : objects'[Archive(ds, p[1])] = objects[Archive(ds, p[1])]
  BY <1>1 DEF PagesIn, Grows
<1> QED
  BY <1>2 DEF TargetPages, PagesIn, Archive

CompletedGrows ==
  \A i \in DOMAIN completed : i \in DOMAIN completed' /\ completed'[i] = completed[i]
NoNewEvidence ==
  /\ \A ds, p, pass : Evidence(ds, p, pass) \in DOMAIN objects' =>
                        Evidence(ds, p, pass) \in DOMAIN objects
  /\ \A ds : OcrSuccess(ds) \in DOMAIN objects' => OcrSuccess(ds) \in DOMAIN objects

LEMMA CensusAddsNoEvidence ==
  ASSUME CensusTypes, CensusNext PROVE Grows /\ NoNewEvidence /\ CompletedGrows
<1>1. PICK key \in CensusKeys : Adds(key)
  BY CensusAdds
<1>2. \A ds, p, pass : Evidence(ds, p, pass) # key
  BY KeysDiffer DEF CensusKeys
<1>3. \A ds : OcrSuccess(ds) # key
  BY DEF CensusKeys, OcrSuccess, CensusSuccess, Archive
<1>4. Grows /\ NoNewEvidence
  BY <1>1, <1>2, <1>3 DEF Adds, NoNewEvidence
<1>5. CompletedGrows
  <2>1. ASSUME NEW d \in Documents,
               AddDocument(d) \/ DocumentStep(d) \/ DocumentAccident(d)
        PROVE  UNCHANGED completed
    BY <2>1 DEF AddDocument, DocumentStep, DocumentAccident, RestoreDocument,
       ScanDocument, PublishDocument, ScanFails, PublishLost, JobLost
  <2>2. CASE Markers \/ AggregateDies \/ \E rev \in Revisions : DispatchCensus(rev)
    <3>1. completed' \in {completed, Append(completed, census.ds)}
      BY <2>2 DEF Markers, Aggregate, AggregateDies, PutInventory, PutSummary,
         PutSuccess, DispatchCensus
    <3>2. completed \in Seq(Datasets)
      BY DEF CensusTypes
    <3>3. CASE completed' = completed
      BY <3>3 DEF CompletedGrows
    <3>4. CASE completed' = Append(completed, census.ds)
      BY <3>2, <3>4 DEF CompletedGrows
    <3> QED
      BY <3>1, <3>3, <3>4
  <2> QED
    BY <2>1, <2>2 DEF CensusNext, CompletedGrows
<1> QED
  BY <1>4, <1>5

LEMMA OcrInvUnderCensus ==
  ASSUME CensusInv, OcrInv, Grows, NoNewEvidence, CompletedGrows, UNCHANGED ocrVars
  PROVE  OcrInv'
<1> USE DEF ocrVars
<1>1. OcrTypes'
  BY DEF OcrInv, OcrTypes
<1>2. PlanIsCompleted'
  BY DEF OcrInv, PlanIsCompleted, CompletedGrows
<1>3. TasksInv'
  BY DEF OcrInv, TasksInv, NoNewEvidence, Grows, Has, First, Second, Evidence,
     Resumes, Working
<1>4. SecondsSeeFirsts'
  BY DEF OcrInv, SecondsSeeFirsts, NoNewEvidence, Grows, Has, Evidence
<1>5. ASSUME NEW ds \in Datasets, OcrSuccess(ds) \in DOMAIN objects'
      PROVE  /\ \E i \in DOMAIN completed' : completed'[i] = ds
             /\ \A p \in TargetPages(ds)' :
                  /\ Evidence(ds, p, 1) \in DOMAIN objects'
                  /\ Evidence(ds, p, 2) \in DOMAIN objects'
                  /\ PairHolds(objects'[Evidence(ds, p, 1)],
                               objects'[Evidence(ds, p, 2)])
  <2>1. Has(OcrSuccess(ds))
    BY <1>5 DEF NoNewEvidence, Has
  <2>2. \E i \in DOMAIN completed : completed[i] = ds
    BY <2>1 DEF OcrInv, OcrCoversCensus
  <2>3. TargetPages(ds)' = TargetPages(ds)
    BY <2>2, TargetsStay
  <2> QED
    BY <2>1, <2>2, <2>3 DEF OcrInv, OcrCoversCensus, CompletedGrows, Grows, Has
<1>6. OcrCoversCensus'
  BY <1>5 DEF OcrCoversCensus, Has, OcrSuccess, Evidence
<1> QED
  BY <1>1, <1>2, <1>3, <1>4, <1>6 DEF OcrInv

-----------------------------------------------------------------------------
(* The steps of the OCR.                                                    *)
LEMMA MishapTypes ==
  ASSUME OcrTypes, Calm \/ Mishap PROVE lucky' \in BOOLEAN
<1>1. CASE Calm
  BY <1>1 DEF Calm, OcrTypes
<1>2. CASE Mishap
  BY <1>2 DEF Mishap
<1> QED
  BY <1>1, <1>2

LEMMA PageTypes ==
  ASSUME OcrTypes, NEW p \in AllPages, PageStep(p) \/ PageAccident(p)
  PROVE  OcrTypes'
<1>1. UNCHANGED <<ocr, covered>>
  BY DEF PageStep, PageAccident, LoadPage, CallPage, PutPage, PageFails, PutPageLost
<1>2. \E s \in {"call1", "put1", "call2", "put2", "done", "failed"} :
        task' = [task EXCEPT ![p] = s]
  BY DEF PageStep, PageAccident, LoadPage, CallPage, PutPage, PageFails,
     PutPageLost, Move, AfterLoad, AfterPut
<1>3. lucky' \in BOOLEAN
  BY MishapTypes DEF PageStep, PageAccident, LoadPage, CallPage, PutPage,
     PageFails, PutPageLost
<1> QED
  BY <1>1, <1>2, <1>3 DEF OcrTypes

LEMMA StartTypes ==
  ASSUME CensusTypes, OcrTypes, NEW mode \in {"workflow", "both"}, NEW resume,
         StartOcr(mode, resume)
  PROVE  OcrTypes' /\ completed # <<>> /\ ocr'.plan = LatestCensus
         /\ LatestCensus \in Datasets /\ Len(completed) \in DOMAIN completed
<1>1. /\ completed \in Seq(Datasets) /\ completed # <<>>
      /\ ocr.attempt \in 0 .. MaxOcr /\ ocr.attempt < MaxOcr
  BY DEF CensusTypes, OcrTypes, StartOcr
<1>2. Len(completed) \in DOMAIN completed /\ LatestCensus \in Datasets
  BY <1>1 DEF LatestCensus
<1>3. PICK pages \in Selections(LatestCensus),
           rendering \in Renderings[ocr.attempt + 1] : Begin(mode, pages, rendering)
  BY DEF StartOcr
<1>4. pages \in SUBSET AllPages
  BY <1>3 DEF Selections, TargetPages, PagesIn
<1>5. ocr.attempt + 1 \in 0 .. MaxOcr
  BY <1>1, OcrBounds
<1>6. ocr' = [attempt |-> ocr.attempt + 1,
              phase |-> IF mode = "workflow" THEN "pass1" ELSE "both",
              plan |-> LatestCensus, pages |-> pages, rendering |-> rendering]
  BY <1>3 DEF Begin
<1>a. ocr.attempt + 1 \in 1 .. MaxOcr /\ rendering \in AnyRendering
  BY <1>1, <1>3, OcrBounds DEF AnyRendering
<1>7. task' \in [AllPages -> {"none", "waiting"}]
  BY <1>3 DEF Begin
<1>8. covered' = {} /\ lucky' = TRUE
  BY DEF StartOcr
<1>9. ocr' \in [attempt : 0 .. MaxOcr,
                phase : {"idle", "pass1", "pass2", "both", "aggregate"},
                plan : Datasets \cup {Missing}, pages : SUBSET AllPages,
                rendering : AnyRendering]
  BY <1>2, <1>4, <1>5, <1>6, <1>a
<1>10. OcrTypes'
  BY <1>7, <1>8, <1>9 DEF OcrTypes
<1> QED
  BY <1>1, <1>2, <1>6, <1>10

(* The steps of the worker change the phase of the attempt at most.         *)
LEMMA WorkerTypes ==
  ASSUME OcrTypes, WorkerStep \/ WorkerDies
  PROVE  OcrTypes' /\ ocr'.plan = ocr.plan
<1>1. lucky' \in BOOLEAN
  BY MishapTypes DEF WorkerStep, WorkerDies, StartBatch, EndPhase, AggregateOcr
<1>2. ocr' = ocr \/ \E phase \in {"idle", "pass2", "aggregate"} : Enter(phase)
  <2>1. NextPhase \in {"idle", "pass2", "aggregate"}
    BY DEF NextPhase
  <2> QED
    BY <2>1 DEF WorkerStep, WorkerDies, StartBatch, EndPhase, AggregateOcr
<1>3. /\ ocr' \in [attempt : 0 .. MaxOcr,
                   phase : {"idle", "pass1", "pass2", "both", "aggregate"},
                   plan : Datasets \cup {Missing}, pages : SUBSET AllPages,
                   rendering : AnyRendering]
      /\ ocr'.plan = ocr.plan
  <2>1. CASE ocr' = ocr
    BY <2>1 DEF OcrTypes
  <2>2. ASSUME NEW phase \in {"idle", "pass2", "aggregate"}, Enter(phase)
        PROVE  /\ ocr' \in [attempt : 0 .. MaxOcr,
                     phase : {"idle", "pass1", "pass2", "both", "aggregate"},
                     plan : Datasets \cup {Missing}, pages : SUBSET AllPages,
                     rendering : AnyRendering]
               /\ ocr'.plan = ocr.plan
    <3>1. Unrecorded \in AnyRendering
      BY DEF AnyRendering
    <3> QED
      BY <2>2, <3>1 DEF OcrTypes, Enter
  <2> QED
    BY <1>2, <2>1, <2>2
<1>4. task' \in [AllPages -> {"none", "waiting", "load", "call1", "put1",
                              "call2", "put2", "done", "failed"}]
  BY DEF WorkerStep, WorkerDies, StartBatch, EndPhase, AggregateOcr, OcrTypes,
     NoPages
<1>5. covered' \subseteq {"pass1", "pass2", "both"}
  <2>1. CASE UNCHANGED covered
    BY <2>1 DEF OcrTypes
  <2>2. CASE Working /\ covered' = covered \cup {ocr.phase}
    BY <2>2 DEF OcrTypes, Working
  <2> QED
    BY <2>1, <2>2 DEF WorkerStep, WorkerDies, StartBatch, EndPhase, AggregateOcr
<1> QED
  BY <1>1, <1>3, <1>4, <1>5 DEF OcrTypes

(* An object that is new after the step of a page is the one it put.        *)
LEMMA PagePuts ==
  ASSUME NEW p \in AllPages, PutPage(p) \/ PutPageLost(p)
  PROVE  /\ Adds(KeyOf(p))
         /\ KeyOf(p) \in DOMAIN objects' /\ KeyOf(p) \notin DOMAIN objects
              => objects'[KeyOf(p)] = Payload(p)
<1>1. objects' \in {objects, With(KeyOf(p), Payload(p))}
  BY DEF PutPage, PutPageLost
<1>2. Adds(KeyOf(p))
  BY <1>1, PutAdds
<1>3. KeyOf(p) \in DOMAIN objects' /\ KeyOf(p) \notin DOMAIN objects
        => objects'[KeyOf(p)] = Payload(p)
  BY <1>1 DEF With, Has
<1> QED
  BY <1>2, <1>3

LEMMA PageTasks ==
  ASSUME OcrTypes, TasksInv, NEW p \in AllPages, PageStep(p) \/ PageAccident(p)
  PROVE  TasksInv'
<1>0. ocr' = ocr /\ Working /\ Working'
  BY DEF PageStep, PageAccident, LoadPage, CallPage, PutPage, PageFails,
     PutPageLost, Working
<1>1. \A q \in AllPages \ {p} : task'[q] = task[q]
  BY DEF PageStep, PageAccident, LoadPage, CallPage, PutPage, PageFails,
     PutPageLost, Move, OcrTypes
<1>2. task' = [task EXCEPT ![p] = task'[p]]
  BY DEF PageStep, PageAccident, LoadPage, CallPage, PutPage, PageFails,
     PutPageLost, Move, OcrTypes
<1>3. \A q \in AllPages : First(q)' = First(q) /\ Second(q)' = Second(q)
  BY <1>0 DEF First, Second, Evidence
<1>4. ASSUME UNCHANGED objects,
             /\ task'[p] \in {"call1", "put1"} => ~Has(First(p))
             /\ task'[p] \in {"call2", "put2"} => Has(First(p)) /\ Resumes(p)
             /\ task'[p] \in {"call1", "put1", "call2", "put2"} => ~Has(Second(p))
      PROVE  TasksInv'
  BY <1>0, <1>1, <1>3, <1>4 DEF TasksInv, Has, Resumes
<1>5. CASE LoadPage(p)
  <2>1. task'[p] = AfterLoad(p) /\ UNCHANGED objects
    BY <1>5 DEF LoadPage, Move, OcrTypes
  <2> QED
    BY <1>4, <2>1 DEF AfterLoad
<1>6. CASE CallPage(p)
  <2>1. task'[p] = (IF task[p] = "call1" THEN "put1" ELSE "put2")
        /\ task[p] \in {"call1", "call2"} /\ UNCHANGED objects
    BY <1>6 DEF CallPage, Move, OcrTypes
  <2> QED
    BY <1>0, <1>4, <2>1 DEF TasksInv
<1>7. CASE PageFails(p)
  <2>1. task'[p] = "failed" /\ UNCHANGED objects
    BY <1>7 DEF PageFails, Move, OcrTypes
  <2> QED
    BY <1>4, <2>1
<1>8. CASE PutPage(p) \/ PutPageLost(p)
  <2>1. Adds(KeyOf(p)) /\ KeyOf(p) \in {First(p), Second(p)}
    BY <1>8, PagePuts DEF KeyOf
  <2>2. \A q \in AllPages \ {p} : KeyOf(p) \notin {First(q), Second(q)}
    BY <2>1, KeysDiffer DEF First, Second
  <2>3. \A q \in AllPages \ {p} :
          /\ First(q) \in DOMAIN objects' <=> First(q) \in DOMAIN objects
          /\ Second(q) \in DOMAIN objects' <=> Second(q) \in DOMAIN objects
    BY <2>1, <2>2 DEF Adds, Grows
  <2>a. ASSUME NEW q \in AllPages, Has(First(q)), Resumes(q) PROVE Resumes(q)'
    BY <1>0, <1>3, <2>1, <2>a DEF Resumes, Adds, Grows, Has
  <2>4. CASE task'[p] \in {"done", "failed"}
    BY <1>0, <1>1, <1>3, <2>3, <2>4, <2>a DEF TasksInv, Has
  <2>5. CASE /\ task'[p] = "call2" /\ task[p] = "put1"
             /\ Accepted(First(p), Payload(p))
             /\ objects' = With(First(p), Payload(p))
    <3>1. /\ First(p) \in DOMAIN objects' /\ Resumes(p)'
      <4>1. First(p) \in DOMAIN objects' /\ objects'[First(p)] = Payload(p)
        BY <2>5, PutStores
      <4>2. Payload(p)[2] = ocr.rendering
        BY <2>5 DEF Payload
      <4> QED
        BY <1>0, <1>3, <4>1, <4>2 DEF Resumes, SameRaster
    <3>2. Second(p) # First(p) /\ ~Has(Second(p)) /\ KeyOf(p) = First(p)
      BY <2>5, KeysDiffer DEF First, Second, TasksInv, KeyOf
    <3>3. Second(p) \notin DOMAIN objects'
      BY <2>1, <3>2 DEF Adds, Has
    <3> QED
      BY <1>0, <1>1, <1>3, <2>3, <2>5, <2>a, <3>1, <3>3 DEF TasksInv, Has
  <2> QED
    BY <1>8, <2>4, <2>5 DEF PutPage, PutPageLost, Move, AfterPut, KeyOf, OcrTypes
<1> QED
  BY <1>5, <1>6, <1>7, <1>8 DEF PageStep, PageAccident

LEMMA PageSeconds ==
  ASSUME CensusTypes, OcrTypes, PlanIsCompleted, TasksInv, SecondsSeeFirsts,
         NEW p \in AllPages, PageStep(p) \/ PageAccident(p)
  PROVE  SecondsSeeFirsts'
<1>1. CASE UNCHANGED objects
  BY <1>1 DEF SecondsSeeFirsts, Has, Evidence
<1>2. CASE PutPage(p) \/ PutPageLost(p)
  <2>1. Adds(KeyOf(p)) /\ Grows
    BY <1>2, PagePuts DEF Adds
  <2>2. SUFFICES ASSUME NEW ds \in Datasets, NEW q \in AllPages,
                        Evidence(ds, q, 2) \in DOMAIN objects'
                 PROVE  /\ Evidence(ds, q, 1) \in DOMAIN objects'
                        /\ PairHolds(objects'[Evidence(ds, q, 1)],
                                     objects'[Evidence(ds, q, 2)])
    BY DEF SecondsSeeFirsts, Has, Evidence
  <2>3. CASE Has(Evidence(ds, q, 2))
    BY <2>1, <2>3 DEF SecondsSeeFirsts, Grows, Has
  <2>4. CASE ~Has(Evidence(ds, q, 2))
    <3>1. Evidence(ds, q, 2) = KeyOf(p)
      BY <2>1, <2>2, <2>4 DEF Adds, Has
    <3>2. task[p] = "put2" /\ ds = ocr.plan /\ q = p
      <4>1. KeyOf(p) \in {First(p), Second(p)} /\ Evidence(ds, q, 2) # First(p)
        BY KeysDiffer DEF KeyOf, First
      <4> QED
        BY <1>2, <3>1, <4>1, KeysDiffer DEF KeyOf, Second, PutPage, PutPageLost
    <3>3. /\ Has(First(p)) /\ Resumes(p)
          /\ objects'[KeyOf(p)] = <<ocr.attempt, objects[First(p)], ocr.rendering>>
      <4>1. Working
        BY <1>2 DEF PutPage, PutPageLost
      <4> QED
        BY <1>2, <2>2, <2>4, <3>1, <3>2, <4>1, PagePuts DEF TasksInv, Payload, Has
    <3>4. PairHolds(objects[First(p)], objects'[KeyOf(p)])
      BY <3>3 DEF PairHolds, Resumes
    <3> QED
      BY <2>1, <3>1, <3>2, <3>3, <3>4 DEF Grows, Has, First
  <2> QED
    BY <2>3, <2>4
<1>3. CASE LoadPage(p) \/ CallPage(p) \/ PageFails(p)
  BY <1>1, <1>3 DEF LoadPage, CallPage, PageFails
<1> QED
  BY <1>2, <1>3 DEF PageStep, PageAccident

(* A page without a task is fit for any plan.                               *)
LEMMA IdleTasks ==
  ASSUME \A p \in AllPages : task'[p] \notin {"call1", "put1", "call2", "put2"}
  PROVE  TasksInv'
  BY DEF TasksInv

LEMMA WorkerTasks ==
  ASSUME OcrTypes, TasksInv, WorkerStep \/ WorkerDies PROVE TasksInv'
<1>1. CASE StartBatch
  <2>1. /\ UNCHANGED <<objects, ocr>>
        /\ \A p \in AllPages : task'[p] \in {"load", task[p]}
    BY <1>1 DEF StartBatch
  <2> QED
    BY <2>1 DEF TasksInv, Has, First, Second, Evidence, Resumes, Working
<1>2. CASE EndPhase \/ WorkerDies
  <2>1. \A p \in AllPages : task'[p] \in {"none", "waiting"}
    BY <1>2 DEF EndPhase, WorkerDies, NoPages
  <2> QED
    BY <2>1, IdleTasks
<1>3. CASE AggregateOcr
  <2>1. UNCHANGED task /\ ocr'.plan = ocr.plan /\ ~Working'
    BY <1>3 DEF AggregateOcr, OcrTypes, Enter, Working
  <2>2. objects' \in {objects, With(OcrSuccess(ocr.plan),
                        [p \in TargetPages(ocr.plan) |-> objects[Second(p)]])}
    BY <1>3 DEF AggregateOcr
  <2>3. Adds(OcrSuccess(ocr.plan))
    BY <2>2, PutAdds
  <2>4. ASSUME NEW p \in AllPages
        PROVE  /\ First(p) \in DOMAIN objects' <=> First(p) \in DOMAIN objects
               /\ Second(p) \in DOMAIN objects' <=> Second(p) \in DOMAIN objects
    BY <2>3, KeysDiffer DEF Adds, Grows, First, Second
  <2>5. ASSUME NEW p \in AllPages
        PROVE  First(p)' = First(p) /\ Second(p)' = Second(p)
    BY <2>1 DEF First, Second, Evidence
  <2> QED
    BY <2>1, <2>4, <2>5 DEF TasksInv, Has
<1> QED
  BY <1>1, <1>2, <1>3 DEF WorkerStep

LEMMA WorkerSeconds ==
  ASSUME SecondsSeeFirsts, WorkerStep \/ WorkerDies PROVE SecondsSeeFirsts'
<1>1. CASE UNCHANGED objects
  BY <1>1 DEF SecondsSeeFirsts, Has, Evidence
<1>2. CASE AggregateOcr
  <2>1. Adds(OcrSuccess(ocr.plan))
    BY <1>2, PutAdds DEF AggregateOcr, Adds, Grows
  <2>2. \A ds \in Datasets, p \in AllPages, pass \in {1, 2} :
          Evidence(ds, p, pass) # OcrSuccess(ocr.plan)
    BY KeysDiffer
  <2> QED
    BY <2>1, <2>2 DEF Adds, Grows, SecondsSeeFirsts, Has, Evidence
<1> QED
  BY <1>1, <1>2 DEF WorkerStep, StartBatch, EndPhase, WorkerDies

(* What a success marker covers stays covered; a new one is that of the plan *)
(* whose evidence has just been verified.                                   *)
CoversPlan(ds) ==
  /\ \E i \in DOMAIN completed : completed[i] = ds
  /\ \A p \in TargetPages(ds) :
       /\ Has(Evidence(ds, p, 1)) /\ Has(Evidence(ds, p, 2))
       /\ PairHolds(objects[Evidence(ds, p, 1)], objects[Evidence(ds, p, 2)])

LEMMA CoveredStays ==
  ASSUME CensusInv, Grows, UNCHANGED completed, NEW ds, CoversPlan(ds)
  PROVE  CoversPlan(ds)'
<1>1. TargetPages(ds)' = TargetPages(ds)
  BY TargetsStay DEF CoversPlan
<1> QED
  BY <1>1 DEF CoversPlan, Grows, Has, Evidence

LEMMA OcrCoversStep ==
  ASSUME CensusInv, OcrInv, OcrStep PROVE OcrCoversCensus'
<1>1. Grows /\ UNCHANGED completed
  BY OcrAddsNoArchive, OcrLeavesPages DEF pageVars
<1>2. SUFFICES ASSUME NEW ds \in Datasets, OcrSuccess(ds) \in DOMAIN objects'
               PROVE  CoversPlan(ds)'
  BY DEF OcrCoversCensus, CoversPlan, Has, OcrSuccess
<1>3. CASE Has(OcrSuccess(ds))
  <2>1. CoversPlan(ds)
    BY <1>3 DEF OcrInv, OcrCoversCensus, CoversPlan
  <2> QED
    BY <1>1, <2>1, CoveredStays
<1>4. CASE ~Has(OcrSuccess(ds))
  <2>1. AggregateOcr /\ EvidenceVerified(ocr.plan) /\ ds = ocr.plan
    <3>1. ASSUME UNCHANGED objects PROVE FALSE
      BY <1>2, <1>4, <3>1 DEF Has
    <3>2. ASSUME NEW p \in AllPages, PageStep(p) \/ PageAccident(p) PROVE FALSE
      <4>1. PutPage(p) \/ PutPageLost(p)
        BY <3>1, <3>2 DEF PageStep, PageAccident, LoadPage, CallPage, PageFails
      <4>2. OcrSuccess(ds) # KeyOf(p)
        BY KeysDiffer DEF KeyOf, First, Second
      <4> QED
        BY <1>2, <1>4, <4>1, <4>2, PagePuts DEF Adds, Has
    <3>3. AggregateOcr
      BY <3>1, <3>2 DEF OcrStep, WorkerStep, StartBatch, EndPhase, WorkerDies,
         StartOcr
    <3>4. /\ EvidenceVerified(ocr.plan)
          /\ objects' = With(OcrSuccess(ocr.plan),
                             [p \in TargetPages(ocr.plan) |-> objects[Second(p)]])
      BY <3>1, <3>3 DEF AggregateOcr
    <3>5. OcrSuccess(ds) = OcrSuccess(ocr.plan)
      BY <1>2, <1>4, <3>4, PutAdds DEF Adds, Has
    <3> QED
      BY <3>3, <3>4, <3>5, KeysDiffer
  <2>2. CoversPlan(ds)
    BY <2>1 DEF AggregateOcr, EvidenceVerified, OcrInv, PlanIsCompleted, CoversPlan
  <2> QED
    BY <1>1, <2>2, CoveredStays
<1> QED
  BY <1>3, <1>4

LEMMA OcrInvStep ==
  ASSUME CensusInv, OcrInv, OcrStep PROVE OcrInv'
<1>0. UNCHANGED completed
  BY OcrLeavesPages DEF pageVars
<1>1. OcrCoversCensus'
  BY OcrCoversStep
<1>2. ASSUME NEW mode \in {"workflow", "both"}, NEW resume \in BOOLEAN,
             StartOcr(mode, resume)
      PROVE  OcrTypes' /\ PlanIsCompleted' /\ TasksInv' /\ SecondsSeeFirsts'
  <2>1. OcrTypes' /\ ocr'.plan = LatestCensus /\ Len(completed) \in DOMAIN completed
    BY <1>2, StartTypes DEF CensusInv, OcrInv
  <2>2. PlanIsCompleted'
    BY <1>0, <2>1 DEF PlanIsCompleted, LatestCensus
  <2>3. \A p \in AllPages : task'[p] \in {"none", "waiting"}
    BY <1>2 DEF StartOcr, Begin
  <2>4. TasksInv'
    BY <2>3, IdleTasks
  <2>5. SecondsSeeFirsts'
    BY <1>2 DEF StartOcr, OcrInv, SecondsSeeFirsts, Has, Evidence
  <2> QED
    BY <2>1, <2>2, <2>4, <2>5
<1>3. ASSUME NEW p \in AllPages, PageStep(p) \/ PageAccident(p)
      PROVE  OcrTypes' /\ PlanIsCompleted' /\ TasksInv' /\ SecondsSeeFirsts'
  <2>1. UNCHANGED ocr
    BY <1>3 DEF PageStep, PageAccident, LoadPage, CallPage, PutPage, PageFails,
       PutPageLost
  <2>2. PlanIsCompleted'
    BY <1>0, <2>1 DEF OcrInv, PlanIsCompleted
  <2> QED
    BY <1>3, <2>2, PageTypes, PageTasks, PageSeconds DEF CensusInv, OcrInv
<1>4. ASSUME WorkerStep \/ WorkerDies
      PROVE  OcrTypes' /\ PlanIsCompleted' /\ TasksInv' /\ SecondsSeeFirsts'
  <2>1. ocr.phase # "idle"
    BY <1>4 DEF WorkerStep, WorkerDies, StartBatch, EndPhase, AggregateOcr, Working
  <2>2. PlanIsCompleted'
    BY <1>0, <1>4, <2>1, WorkerTypes DEF OcrInv, PlanIsCompleted
  <2> QED
    BY <1>4, <2>2, WorkerTypes, WorkerTasks, WorkerSeconds DEF OcrInv
<1> QED
  BY <1>1, <1>2, <1>3, <1>4 DEF OcrStep, OcrInv

-----------------------------------------------------------------------------
LEMMA InvInit == OcrInit => Inv
<1> SUFFICES ASSUME OcrInit PROVE Inv
  OBVIOUS
<1>1. CensusTypes
  BY CensusTypesInit
<1>2. objects = <<>> /\ completed = <<>> /\ receipt = {} /\ census.stage = "idle"
      /\ \A d \in Documents : job[d] = "none"
  BY DEF OcrInit, CensusInit
<1>3. JobsInv /\ MarkersInv /\ CensusIsWhole
  BY <1>2 DEF JobsInv, ArchivesAreWhole, PublishedIsWhole, ReceiptsAreTrue,
     MarkersInv, CensusIsWhole, Has
<1>4. OcrTypes /\ PlanIsCompleted /\ TasksInv
  <2>1. Unrecorded \in AnyRendering
    BY DEF AnyRendering
  <2> QED
    BY <2>1, OcrBounds DEF OcrInit, OcrTypes, PlanIsCompleted, TasksInv, NoPages
<1>5. SecondsSeeFirsts /\ OcrCoversCensus
  BY <1>2 DEF SecondsSeeFirsts, OcrCoversCensus, Has
<1> QED
  BY <1>1, <1>3, <1>4, <1>5 DEF Inv, CensusInv, OcrInv

LEMMA InvStep == Inv /\ [OcrNext]_ocrAll => Inv'
<1> SUFFICES ASSUME Inv, [OcrNext]_ocrAll PROVE Inv'
  OBVIOUS
<1> USE DEF Inv
<1>1. CASE CensusNext /\ UNCHANGED ocrVars
  BY <1>1, CensusInvStep, CensusAddsNoEvidence, OcrInvUnderCensus DEF CensusInv
<1>2. CASE OcrStep
  BY <1>2, CensusInvUnderOcr, OcrInvStep
<1>3. CASE UNCHANGED ocrAll
  <2>1. UNCHANGED <<censusVars, ocrVars>> /\ Grows /\ NoNewEvidence /\ CompletedGrows
    BY <1>3 DEF ocrAll, censusVars, Grows, NoNewEvidence, CompletedGrows
  <2>2. CensusInv'
    BY <2>1 DEF censusVars, CensusInv, CensusTypes, JobsInv, ArchivesAreWhole,
       PublishedIsWhole, ReceiptsAreTrue, MarkersInv, CensusIsWhole, Has,
       Inventory, SummaryOf, Archive
  <2> QED
    BY <2>1, <2>2, OcrInvUnderCensus
<1> QED
  BY <1>1, <1>2, <1>3 DEF OcrNext, OcrStep

LEMMA InvAlways == OcrSpec => []Inv
  BY InvInit, InvStep, PTL DEF OcrSpec

(* Whatever jobs, runners and puts fail, census and OCR stay in the states   *)
(* their records are declared with (the documents of the run_document,       *)
(* publish_document and publish_summary scripts and of scj_ling_literal_ocr). *)
THEOREM TypeCorrect == OcrSpec => []OcrTypeOK
<1>1. Inv => OcrTypeOK
  BY DEF Inv, CensusInv, CensusTypes, OcrInv, OcrTypes, OcrTypeOK, CensusTypeOK,
     Stages, JobSteps, AnyScan
<1> QED
  BY <1>1, InvAlways, PTL

(* publish_summary: a success marker of a census stands for an inventory, a  *)
(* summary and the archive of a whole scan of every document, however many   *)
(* interrupted runs they were put together by.                               *)
THEOREM CompletedCensusesAreWhole == OcrSpec => []CensusIsWhole
<1>1. Inv => CensusIsWhole
  BY DEF Inv, CensusInv
<1> QED
  BY <1>1, InvAlways, PTL

(* aggregate: a success marker of the OCR stands for a completed census and   *)
(* both passes of every page that census could not verify.                   *)
THEOREM MarkersCoverTheCensus == OcrSpec => []OcrCoversCensus
<1>1. Inv => OcrCoversCensus
  BY DEF Inv, OcrInv
<1> QED
  BY <1>1, InvAlways, PTL

(* _process_page: no attempt buys a generation for evidence that is there,    *)
(* and a second pass is bought on a durable first.                           *)
THEOREM NothingIsPaidTwice == OcrSpec => NeverPaidTwice
<1>1. TasksInv => [\A p \in AllPages :
          /\ task[p] = "call1" /\ task'[p] = "put1" => ~Has(First(p))
          /\ task[p] = "call2" /\ task'[p] = "put2" =>
                ~Has(Second(p)) /\ Has(First(p))]_ocrAll
  BY DEF TasksInv
<1>2. Inv => TasksInv
  BY DEF Inv, OcrInv
<1> QED
  BY <1>1, <1>2, InvAlways, PTL DEF NeverPaidTwice
=============================================================================
