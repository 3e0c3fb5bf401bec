---------------------------- MODULE AcquisitionRun ----------------------------
(***************************************************************************)
(* Durable acquisition runs of the control API, over the source catalogue. *)
(* A run selects documents of an enabled collection; an executor claims it *)
(* once, reads its pending items, and for each fetches the document,       *)
(* stores the bytes under a content-addressed key, and registers artifact, *)
(* locations, link and outcome in one transaction.  No lease and no        *)
(* transaction spans the fetch: executors die, answers of the database and *)
(* of the object store get lost, and the catalogue changes meanwhile.  The *)
(* batch crawler and the inventory write the same artifact tables.         *)
(***************************************************************************)
EXTENDS SourceCatalog

CONSTANTS
  Runs,       \* run identifiers
  Executors,  \* requests executing a run
  Contents,   \* distinct PDF contents, named by their SHA-256
  StoragePath \* the prefix of a collection's keys: two codes of one source
              \* (scj, supreme_court) share it

AcquisitionAssumption ==
  /\ CatalogAssumption
  /\ None \notin Runs \cup Contents
  /\ None \notin {"queued", "running", "pending", "acquired",
                  "already_present", "succeeded", "completed_with_errors",
                  "failed"}

ASSUME AcquisitionConstantsOK == AcquisitionAssumption

VARIABLES
  run,       \* corpus.acquisition_runs
  item,      \* corpus.acquisition_run_items, by run and document
  artifact,  \* corpus.source_artifacts: the registry of each content
  location,  \* corpus.source_artifact_locations <<content, locator>>
  link,      \* corpus.source_document_artifacts <<document, content>>
  stored,    \* keys of the object store
  executor   \* locals of execute_acquisition_run

runVars == <<run, item>>
artifactVars == <<artifact, location, link>>
vars == <<catalogVars, runVars, artifactVars, stored, executor>>

Final == {"succeeded", "completed_with_errors", "failed"}
Obtained == {"acquired", "already_present"}

NoRun == [status |-> None, collection |-> None, selected |-> 0,
          acquired |-> 0, present |-> 0, failed |-> 0]
NoItem == [status |-> None, artifact |-> None]

Target == [document : Documents, url : Urls]
Idle == [step |-> "idle", run |-> None, todo |-> {}, target |-> None,
         content |-> None]

Key(c, content) == <<StoragePath[c], content>>
Keys == {StoragePath[c] : c \in Collections} \X Contents
KeyOf(t, content) == Key(CollectionOf[t.document], content)

Init ==
  /\ CatalogInit
  /\ run = [r \in Runs |-> NoRun]
  /\ item = [r \in Runs |-> [d \in Documents |-> NoItem]]
  /\ artifact = [x \in Contents |-> None]
  /\ location = {} /\ link = {} /\ stored = {}
  /\ executor = [e \in Executors |-> Idle]

-----------------------------------------------------------------------------
Linked(d) == \E x \in Contents : <<d, x>> \in link

Eligible(c) ==
  {d \in Documents : /\ CollectionOf[d] = c
                     /\ document[d] # None
                     /\ document[d].available /\ document[d].url # None}

Count(r, status) == Cardinality({d \in Documents : item[r][d].status = status})

(* The selection is what the request names, or the first documents up to   *)
(* its limit.  The collection's row is locked until the run is committed.  *)
CreateRun(r, c, selection) ==
  /\ run[r] = NoRun
  /\ Exists(c) /\ source[SourceOf[c]] = "active"
  /\ collection[c].policy = "enabled"
  /\ selection # {} /\ selection \subseteq Eligible(c)
  /\ run' = [run EXCEPT
       ![r] = [NoRun EXCEPT
         !.status = "queued", !.collection = c,
         !.selected = Cardinality(selection),
         !.present = Cardinality({d \in selection : Linked(d)})]]
  /\ item' = [item EXCEPT
       ![r] = [d \in Documents |->
         IF d \notin selection THEN NoItem
         ELSE [status |-> IF Linked(d) THEN "already_present" ELSE "pending",
               artifact |-> None]]]
  /\ UNCHANGED <<catalogVars, artifactVars, stored, executor>>

(* Mutant: a run that is being executed can be claimed again.              *)
ClaimableAgain(r) == run[r].status \in {"queued", "running"}
Claimable(r) == run[r].status = "queued"
ClaimRun(e, r) ==
  /\ executor[e].step = "idle" /\ Claimable(r)
  /\ run' = [run EXCEPT ![r].status = "running"]
  /\ executor' = [executor EXCEPT ![e] = [Idle EXCEPT !.step = "read", !.run = r]]
  /\ UNCHANGED <<catalogVars, item, artifactVars, stored>>

(* Documents are read as the catalogue has them now; one that lost its URL *)
(* is not a target.                                                        *)
PendingTargets(e) ==
  /\ executor[e].step = "read"
  /\ executor' = [executor EXCEPT
       ![e].step = "next",
       ![e].todo = {t \in Target :
         /\ item[executor[e].run][t.document].status = "pending"
         /\ document[t.document].url = t.url}]
  /\ UNCHANGED <<catalogVars, runVars, artifactVars, stored>>

(* Mutant: the target stays on the list.                                   *)
StartItemAgain(e) ==
  /\ executor[e].step = "next"
  /\ \E t \in executor[e].todo :
       executor' = [executor EXCEPT ![e].step = "fetch", ![e].target = t]
  /\ UNCHANGED <<catalogVars, runVars, artifactVars, stored>>
StartItem(e) ==
  /\ executor[e].step = "next"
  /\ \E t \in executor[e].todo :
       executor' = [executor EXCEPT
         ![e].step = "fetch", ![e].target = t, ![e].todo = @ \ {t}]
  /\ UNCHANGED <<catalogVars, runVars, artifactVars, stored>>

(* The source answers with some PDF, or the fetch fails: no answer, a      *)
(* status, a foreign host, bytes that are not a PDF.                       *)
Fetch(e) ==
  /\ executor[e].step = "fetch"
  /\ \/ \E x \in Contents :
          executor' = [executor EXCEPT ![e].step = "store", ![e].content = x]
     \/ executor' = [executor EXCEPT ![e].step = "fail"]
  /\ UNCHANGED <<catalogVars, runVars, artifactVars, stored>>

(* exists, then put; either may raise, put also after the object is there. *)
(* Mutant: the answer of the store is not looked at.                       *)
MyKey(e) == KeyOf(executor[e].target, executor[e].content)
StoreUnchecked(e) ==
  /\ executor[e].step = "store"
  /\ stored' \in {stored, stored \cup {MyKey(e)}}
  /\ executor' = [executor EXCEPT ![e].step = "register"]
  /\ UNCHANGED <<catalogVars, runVars, artifactVars>>
Store(e) ==
  /\ executor[e].step = "store"
  /\ \/ /\ stored' = stored \cup {MyKey(e)}
        /\ executor' = [executor EXCEPT ![e].step = "register"]
     \/ /\ stored' \in {stored, stored \cup {MyKey(e)}}
        /\ executor' = [executor EXCEPT ![e].step = "fail"]
  /\ UNCHANGED <<catalogVars, runVars, artifactVars>>

(* The upserts of an artifact and its two locations, as the executor and   *)
(* the batch crawler's catalogue issue them: the registry that showed the  *)
(* content first keeps it.                                                 *)
Registry(x, s) == IF artifact[x] = None THEN s ELSE artifact[x]
UpsertArtifact(c, url, x) ==
  /\ artifact' = [artifact EXCEPT ![x] = Registry(x, SourceOf[c])]
  /\ location' = location \cup {<<x, url>>, <<x, Key(c, x)>>}

(* One transaction; without an answer it was rolled back or committed.     *)
RegisterArtifact(e, next) ==
  LET t == executor[e].target
      x == executor[e].content
      r == executor[e].run IN
  /\ UpsertArtifact(CollectionOf[t.document], t.url, x)
  /\ link' = link \cup {<<t.document, x>>}
  /\ item' = [item EXCEPT
       ![r][t.document] = IF @.status = "pending"
                          THEN [status |-> "acquired", artifact |-> x] ELSE @]
  /\ executor' = [executor EXCEPT ![e].step = next]
  /\ UNCHANGED <<catalogVars, run, stored>>
Register(e) ==
  /\ executor[e].step = "register"
  /\ \/ \E next \in {"next", "fail"} : RegisterArtifact(e, next)
     \/ /\ executor' = [executor EXCEPT ![e].step = "fail"]
        /\ UNCHANGED <<catalogVars, runVars, artifactVars, stored>>

(* Mutant: a failure is recorded over whatever the item became.            *)
FailedAlways(row) == [row EXCEPT !.status = "failed"]
Failed(row) ==
  IF row.status = "pending" THEN [row EXCEPT !.status = "failed"] ELSE row
MarkItemFailed(e) ==
  /\ executor[e].step = "fail"
  /\ item' = [item EXCEPT
       ![executor[e].run][executor[e].target.document] = Failed(@)]
  /\ executor' = [executor EXCEPT ![e].step = "next"]
  /\ UNCHANGED <<catalogVars, run, artifactVars, stored>>

(* Mutant: a status the table does not know.                               *)
VerdictPartial(r) == IF Count(r, "failed") = 0 THEN "succeeded" ELSE "partial"
Verdict(r) ==
  IF Count(r, "failed") = 0 THEN "succeeded"
  ELSE IF Count(r, "acquired") + Count(r, "already_present") > 0
       THEN "completed_with_errors" ELSE "failed"

(* Finalizing with an item pending raises and leaves the run running.      *)
(* Mutant: it closes the run all the same.                                 *)
NothingRequired(r) == TRUE
NothingPending(r) == Count(r, "pending") = 0
FinalizeRun(e) ==
  LET r == executor[e].run IN
  /\ executor[e].step = "next" /\ executor[e].todo = {}
  /\ run' = IF NothingPending(r) /\ run[r].status = "running"
            THEN [run EXCEPT
                   ![r].status = Verdict(r),
                   ![r].acquired = Count(r, "acquired"),
                   ![r].present = Count(r, "already_present"),
                   ![r].failed = Count(r, "failed")]
            ELSE run
  /\ executor' = [executor EXCEPT ![e] = Idle]
  /\ UNCHANGED <<catalogVars, item, artifactVars, stored>>

(* The process ends, or a statement outside the item's try raises.         *)
Die(e) ==
  /\ executor[e].step # "idle"
  /\ executor' = [executor EXCEPT ![e] = Idle]
  /\ UNCHANGED <<catalogVars, runVars, artifactVars, stored>>

-----------------------------------------------------------------------------
(* The batch crawler stores an object, then catalogues it; the inventory   *)
(* links a registered artifact to the document it belongs to.              *)
CrawlerStores(c, x) ==
  /\ SourceOf[c] \in Official
  /\ stored' = stored \cup {Key(c, x)}
  /\ UNCHANGED <<catalogVars, runVars, artifactVars, executor>>

CatalogArtifact(c, url, x) ==
  /\ Key(c, x) \in stored
  /\ EnsureRegistry(SourceOf[c])
  /\ UpsertArtifact(c, url, x)
  /\ UNCHANGED <<collection, document, seen, runVars, link, stored, executor>>

LinkArtifact(d, x) ==
  /\ document[d] # None /\ artifact[x] # None
  /\ link' = link \cup {<<d, x>>}
  /\ UNCHANGED <<catalogVars, runVars, artifact, location, stored, executor>>

Step(e) ==
  \/ PendingTargets(e) \/ StartItem(e) \/ Fetch(e) \/ Store(e)
  \/ Register(e) \/ MarkItemFailed(e) \/ FinalizeRun(e)

Next ==
  \/ CatalogNext /\ UNCHANGED <<runVars, artifactVars, stored, executor>>
  \/ \E r \in Runs, c \in Collections, selection \in SUBSET Documents :
       CreateRun(r, c, selection)
  \/ \E e \in Executors, r \in Runs : ClaimRun(e, r)
  \/ \E e \in Executors : Step(e) \/ Die(e)
  \/ \E c \in Collections, x \in Contents :
       CrawlerStores(c, x) \/ \E url \in Urls : CatalogArtifact(c, url, x)
  \/ \E d \in Documents, x \in Contents : LinkArtifact(d, x)

Spec == Init /\ [][Next]_vars

(* A live executor goes on: it is a loop in a request handler.             *)
FairSpec == Spec /\ \A e \in Executors : WF_vars(Step(e))

-----------------------------------------------------------------------------
RunRow ==
  [status : {"queued", "running"} \cup Final, collection : Collections,
   selected : Nat, acquired : Nat, present : Nat, failed : Nat]
ItemRow ==
  [status : {"pending", "failed"} \cup Obtained,
   artifact : Contents \cup {None}]
ExecutorState ==
  [step : {"idle", "read", "next", "fetch", "store", "register", "fail"},
   run : Runs \cup {None}, todo : SUBSET Target, target : Target \cup {None},
   content : Contents \cup {None}]

TypeOK ==
  /\ CatalogTypeOK
  /\ run \in [Runs -> RunRow \cup {NoRun}]
  /\ item \in [Runs -> [Documents -> ItemRow \cup {NoItem}]]
  /\ artifact \in [Contents -> Sources \cup {None}]
  /\ location \subseteq Contents \X (Urls \cup Keys)
  /\ link \subseteq Documents \X Contents
  /\ stored \subseteq Keys
  /\ executor \in [Executors -> ExecutorState]

(* A run is executed once and by one request at a time, and once it has a  *)
(* verdict nobody works on it any more, whoever died or retried before     *)
(* (claim_run is the only lease there is).                                 *)
RunHasOneExecutor ==
  \A e \in Executors : executor[e].step # "idle" =>
    /\ run[executor[e].run].status = "running"
    /\ \A f \in Executors \ {e} : executor[f].run # executor[e].run

(* The counts and the verdict of a finished run are those of its items,    *)
(* every selected document has an outcome, although documents lose their   *)
(* URL and answers are lost meanwhile (finalize_run).                      *)
ClosedRunAddsUp ==
  \A r \in Runs : run[r].status \in Final =>
    /\ run[r].acquired = Count(r, "acquired")
    /\ run[r].present = Count(r, "already_present")
    /\ run[r].failed = Count(r, "failed")
    /\ run[r].selected = run[r].acquired + run[r].present + run[r].failed
    /\ run[r].status = Verdict(r)

(* What the ledger calls obtained can be read: the item's document has an  *)
(* artifact (the item's own if it was acquired) with an official locator,  *)
(* and a storage locator whose object is in the store, whichever of the    *)
(* executor, the crawler or the inventory put it there and whatever failed *)
(* in between (execute_acquisition_run).                                   *)
Readable(x) ==
  /\ artifact[x] # None
  /\ \E url \in Urls : <<x, url>> \in location
  /\ \E key \in stored : <<x, key>> \in location
ObtainedIsStored ==
  \A r \in Runs, d \in Documents : item[r][d].status \in Obtained =>
    /\ \E x \in Contents : <<d, x>> \in link /\ Readable(x)
    /\ item[r][d].status = "acquired" =>
         <<d, item[r][d].artifact>> \in link /\ Readable(item[r][d].artifact)

(* An outcome is final: neither a commit whose answer was lost, nor an     *)
(* error raised after it, nor an executor still holding the item's target  *)
(* turns one outcome into another (the guards on status pending).          *)
OutcomesStay ==
  [][\A r \in Runs, d \in Documents :
       item[r][d].status \in {"failed"} \cup Obtained =>
         item'[r][d] = item[r][d]]_vars

(* A run that is being executed comes to an end, unless its request dies   *)
(* or gives up on it because a document lost its URL.                      *)
HeldRunEnds ==
  \A r \in Runs :
    (\E e \in Executors : executor[e].run = r) ~>
      ~\E e \in Executors : executor[e].run = r
=============================================================================
