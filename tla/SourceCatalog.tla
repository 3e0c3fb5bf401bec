----------------------------- MODULE SourceCatalog -----------------------------
(***************************************************************************)
(* The catalogue an operator steers acquisition with: official sources,    *)
(* their collections with an acquisition policy, and the documents the     *)
(* inventory has seen at each source.  The operator API, the database      *)
(* bootstrap and the inventory write the same three tables; every command  *)
(* is one transaction.  Names, URLs' text, agent visibility and the        *)
(* observation history are left out: no guard of this code reads them.     *)
(***************************************************************************)
EXTENDS Naturals, FiniteSets

CONSTANTS
  Sources,      \* source registries, by code
  Official,     \* the sources the crawlers' upserts are written for
  Collections,  \* source collections, by source and code
  SourceOf,     \* the source of a collection
  SeedPolicy,   \* collections the bootstrap seeds, with their policy
  Policies,     \* acquisition policies; "enabled" stands for an active
                \* collection, an inactive one is one more value
  Documents,    \* source documents, by their identity at the source
  CollectionOf, \* the source and collection code a document was seen under
  Urls,
  Operators,
  MaxRevision,  \* bound on the revisions of each collection
  None

CatalogAssumption ==
  /\ Official \subseteq Sources
  /\ SourceOf \in [Collections -> Sources]
  /\ CollectionOf \in [Documents -> Collections]
  /\ DOMAIN SeedPolicy \subseteq Collections
  /\ \A c \in DOMAIN SeedPolicy : SeedPolicy[c] \in Policies
  /\ "enabled" \in Policies
  /\ MaxRevision \in [Collections -> Nat]
  /\ \A c \in DOMAIN SeedPolicy : MaxRevision[c] > 0
  /\ IsFiniteSet(Documents)
  /\ None \notin Urls \cup Policies \cup Sources

ASSUME CatalogConstantsOK == CatalogAssumption

VARIABLES
  source,      \* corpus.source_registries: absent, active or inactive
  collection,  \* corpus.source_collections
  document,    \* corpus.source_documents
  seen         \* what an operator last read: [collection, row] or None

catalogVars == <<source, collection, document, seen>>

CollectionRow == [policy : Policies, revision : Nat]
NoCollection == [policy |-> None, revision |-> 0]

(* SourceDocumentObservation: what is available has a URL.                 *)
DocumentRow ==
  {row \in [url : Urls \cup {None}, available : BOOLEAN] :
     row.available => row.url # None}

Exists(c) == collection[c] # NoCollection

CatalogInit ==
  /\ source = [s \in Sources |-> "absent"]
  /\ collection = [c \in Collections |-> NoCollection]
  /\ document = [d \in Documents |-> None]
  /\ seen = [o \in Operators |-> None]

-----------------------------------------------------------------------------
(* Operator commands.                                                      *)
CreateSource(s, active) ==
  /\ source[s] = "absent"
  /\ source' = [source EXCEPT ![s] = IF active THEN "active" ELSE "inactive"]
  /\ UNCHANGED <<collection, document, seen>>

SetSourceActive(s, active) ==
  /\ source[s] # "absent"
  /\ source' = [source EXCEPT ![s] = IF active THEN "active" ELSE "inactive"]
  /\ UNCHANGED <<collection, document, seen>>

CreateCollection(c, policy) ==
  /\ source[SourceOf[c]] # "absent" /\ ~Exists(c) /\ MaxRevision[c] > 0
  /\ collection' = [collection EXCEPT ![c] = [policy |-> policy, revision |-> 1]]
  /\ UNCHANGED <<source, document, seen>>

ListCollections(o, c) ==
  /\ Exists(c)
  /\ seen' = [seen EXCEPT ![o] = [collection |-> c, row |-> collection[c]]]
  /\ UNCHANGED <<source, collection, document>>

(* The UPDATE applies to the revision the operator names; otherwise the    *)
(* command is a revision conflict and changes nothing.  What was read      *)
(* stays with the operator, who may send the same command again.           *)
CurrentRevisionAlways(o) == TRUE
CurrentRevision(o) ==
  collection[seen[o].collection].revision = seen[o].row.revision

SetCollectionPolicy(o, policy) ==
  /\ seen[o] # None
  /\ CurrentRevision(o)
  /\ collection[seen[o].collection].revision < MaxRevision[seen[o].collection]
  /\ collection' = [collection EXCEPT
       ![seen[o].collection] =
         [policy |-> policy, revision |-> @.revision + 1]]
  /\ UNCHANGED <<source, document, seen>>

-----------------------------------------------------------------------------
(* The bootstrap inserts what is missing and leaves the policy of what     *)
(* exists to the operator.                                                 *)
Seeded == DOMAIN SeedPolicy
Bootstrap ==
  /\ source' = [s \in Sources |->
       IF source[s] = "absent" /\ \E c \in Seeded : SourceOf[c] = s
       THEN "active" ELSE source[s]]
  /\ collection' = [c \in Collections |->
       IF c \in Seeded /\ ~Exists(c)
       THEN [policy |-> SeedPolicy[c], revision |-> 1]
       ELSE collection[c]]
  /\ UNCHANGED <<document, seen>>

(* The crawlers' upsert of a registry sets it active, whatever an operator *)
(* had set.                                                                *)
EnsureRegistry(s) ==
  /\ s \in Official
  /\ source' = [source EXCEPT ![s] = "active"]

(* The inventory sees a document again, possibly moved or withdrawn.       *)
Observe(d, row) ==
  /\ EnsureRegistry(SourceOf[CollectionOf[d]])
  /\ document' = [document EXCEPT ![d] = row]
  /\ UNCHANGED <<collection, seen>>

CatalogNext ==
  \/ \E s \in Sources, active \in BOOLEAN :
       CreateSource(s, active) \/ SetSourceActive(s, active)
  \/ \E c \in Collections, policy \in Policies : CreateCollection(c, policy)
  \/ \E o \in Operators, c \in Collections : ListCollections(o, c)
  \/ \E o \in Operators, policy \in Policies : SetCollectionPolicy(o, policy)
  \/ Bootstrap
  \/ \E d \in Documents, row \in DocumentRow : Observe(d, row)

CatalogTypeOK ==
  /\ source \in [Sources -> {"absent", "active", "inactive"}]
  /\ collection \in [Collections -> CollectionRow \cup {NoCollection}]
  /\ document \in [Documents -> DocumentRow \cup {None}]
  /\ seen \in [Operators ->
       [collection : Collections, row : CollectionRow] \cup {None}]

(* An operator's decision is never overwritten unseen: whoever changes a   *)
(* collection (two operators, one operator twice, the bootstrap) starts    *)
(* from the row as it stands, not from one read before another change      *)
(* (set_collection_policy's revision, apply_database_bootstrap).           *)
ChangesStartFromWhatWasRead ==
  [][\A c \in Collections :
       Exists(c) /\ collection'[c] # collection[c] =>
         \E o \in Operators :
           seen[o] = [collection |-> c, row |-> collection[c]]]_catalogVars

CatalogSpec == CatalogInit /\ [][CatalogNext]_catalogVars
=============================================================================
