---------------------------- MODULE MCSourceCatalog ----------------------------
(***************************************************************************)
(* Small instances, for TLC, of the catalogue of sources and of the        *)
(* inventories taken of them.  They share no state: a behaviour is one     *)
(* scene, chosen at the start, in which one part runs.                     *)
(***************************************************************************)
EXTENDS SourceCatalog, PortalInventory, PageInventory, SourceReconciliation, TLC

CONSTANTS official, seeded, created, bootstrapped
VARIABLE scene  \* the part that runs

(* The inventory's source with a collection an operator creates, and the    *)
(* bootstrap's source with the collection it seeds.                         *)
TwoSources == [c \in Collections |->
                 IF c = bootstrapped THEN seeded ELSE official]
InCreated == [d \in Documents |-> created]
SeedOne == [c \in {bootstrapped} |-> "enabled"]
Revisions == [c \in Collections |-> 3]

(* The portal: two records of one document, one without a document.         *)
PortalYears == 1 :> {1, 2, 3} @@ 2 :> {4}
PortalUrls == 1 :> "a" @@ 2 :> "b" @@ 3 :> "a" @@ 4 :> NoLocator

(* The store: two directories of one shard, and an object in none.          *)
InDirectories == "x" :> 0 @@ "y" :> 2 @@ "w" :> 3

(* The court: two sentences share a URL, and one URL changes what it serves. *)
SentenceUrl == 1 :> 1 @@ 2 :> 2 @@ 3 :> 2
ServedFormat == "pdf 1" :> "pdf" @@ "pdf 2" :> "pdf" @@ "doc 1" :> "doc" @@ "page" :> "html"
AtFirst == {1 :> "pdf 1" @@ 2 :> x : x \in {"pdf 1", "doc 1"}}
SecondChanges == 1 :> 1 @@ 2 :> 2

inventoryVars == <<portalVars, pageVars, reconciliationVars>>
sceneVars == <<catalogVars, inventoryVars, scene>>

SourcesInit == /\ scene \in {"catalog", "portal", "pages", "reconciliation"}
               /\ CatalogInit /\ PortalInit /\ PageInit /\ ReconciliationInit
               /\ scene # "reconciliation" => \A u \in Links : served[u] = <<"pdf 1">>

SourcesNext ==
    \/ scene = "catalog" /\ CatalogNext /\ UNCHANGED <<inventoryVars, scene>>
    \/ /\ scene = "portal" /\ PortalNext
       /\ UNCHANGED <<catalogVars, pageVars, reconciliationVars, scene>>
    \/ /\ scene = "pages" /\ PageNext
       /\ UNCHANGED <<catalogVars, portalVars, reconciliationVars, scene>>
    \/ /\ scene = "reconciliation" /\ ReconciliationNext
       /\ UNCHANGED <<catalogVars, portalVars, pageVars, scene>>

SourcesSpec == SourcesInit /\ [][SourcesNext]_sceneVars

(* What an inventory of a source that changes meanwhile publishes is one     *)
(* state of that source: a year as it was when its reading began, and        *)
(* together, complete and of one certification what the backfill starts      *)
(* from; and the pages of exactly the decisions the plan listed.             *)
InventoriesAreSnapshots == /\ PortalTypeOK /\ SnapshotIsCertified
                           /\ PageTypeOK /\ PagesAreOfThePlan
=============================================================================
