----------------------------- MODULE LegalCorpus -----------------------------
(***************************************************************************)
(* The writers of the canonical corpus: the commit of an audited judicial  *)
(* decision (corpus/canonical_commit.py, corpus/access.py) and the legal   *)
(* graph (corpus/legal_graph.py), over the PostgreSQL schema of            *)
(* migrations/baseline.sql.                                                *)
(*                                                                         *)
(* Promotions of relations run in transactions of several statements under *)
(* READ COMMITTED: what a transaction wrote is seen by others after its    *)
(* commit, row locks are held to its end, and an INSERT waits for another  *)
(* transaction's uncommitted row with the same key.  A request carries a   *)
(* scope, the artifact, the bound pages in order, and whether the audits   *)
(* passed and the texts agree with the durable pages.                      *)
(***************************************************************************)
EXTENDS Naturals, Sequences, FiniteSets

CONSTANTS Connections,   \* database sessions that promote relations
          Observations,  \* relation observations
          Relation,      \* the relation an observation resolves to
          Paged,         \* observations with an evidence page
          Unresolved,    \* the relation of a citation without a target
          GlobalRelations, \* those of a type that needs no issue or proposition
          Organizations, \* tenants of private scopes
          Artifacts, ArtifactScope,
          Norms,         \* norm assertions, by the text they state
          MaxDecisions   \* bound: judicial decisions committed

PublicScope == "public"
Scopes == {PublicScope} \cup Organizations
Relations == {Relation[o] : o \in Observations} \ {Unresolved}

ASSUME LegalRelation == DOMAIN Relation = Observations
ASSUME LegalPaged == Paged \subseteq Observations
ASSUME LegalScope == ArtifactScope \in [Artifacts -> Scopes]

VARIABLES observation,  \* status of an observation row, "absent" before it
          asserted,     \* rows of current assertions: <<relation, origin>>
          evidence,     \* rows of assertion evidence: <<assertion, observation>>
          tx,           \* the promotion a connection is in
          decisions,    \* committed decisions with their requests
          norm, source  \* status of a norm, and of the sources attached to it

graphVars == <<observation, asserted, evidence, tx>>
legalVars == <<graphVars, decisions, norm, source>>

NoTx == [step |-> "none", obs |-> Unresolved, row |-> {}]
LegalInit ==
    /\ observation = [o \in Observations |-> "absent"]
    /\ asserted = {} /\ evidence = <<>>
    /\ tx = [c \in Connections |-> NoTx]
    /\ decisions = <<>>
    /\ norm = [n \in Norms |-> "absent"] /\ source = [n \in Norms |-> {}]

-----------------------------------------------------------------------------
(* record_relation_observation: an upsert by the observation's key, which    *)
(* leaves the status alone; it waits for a promotion that locked the row.   *)
Locked(o) == \E c \in Connections : tx[c].step # "none" /\ tx[c].obs = o

RecordObservation(o) ==
    /\ ~Locked(o) /\ observation[o] = "absent"
    /\ observation' = [observation EXCEPT ![o] = "observed"]
    /\ UNCHANGED <<asserted, evidence, tx, decisions, norm, source>>

(* External: curation outside this repository, of observations that were not *)
(* promoted: nothing here takes an acceptance, or its assertion, back.       *)
Curate(o) ==
    /\ ~Locked(o) /\ observation[o] = "observed"
    /\ \E s \in {"rejected", "superseded", "conflicting"} :
          observation' = [observation EXCEPT ![o] = s]
    /\ UNCHANGED <<asserted, evidence, tx, decisions, norm, source>>

(* Mutant: a citation without a target document may be promoted, and so may  *)
(* a relation whose type needs a context.                                    *)
PromotableUnresolved(o) == observation[o] \notin {"absent", "rejected", "superseded"}

(* promote_relation: the observation is locked and may be promoted ...       *)
Promotable(o) == /\ observation[o] \notin {"absent", "rejected", "superseded"}
                 /\ Relation[o] # Unresolved /\ Relation[o] \in GlobalRelations

BeginPromotion(c, o) ==
    /\ tx[c].step = "none" /\ ~Locked(o) /\ Promotable(o)
    /\ tx' = [tx EXCEPT ![c] = [step |-> "identity", obs |-> o, row |-> {}]]
    /\ UNCHANGED <<observation, asserted, evidence, decisions, norm, source>>

(* ... the identity of the relation is inserted, or found once the          *)
(* transaction that inserted it has ended.  An identity is committed with   *)
(* its assertion, and until then only its inserter goes on ...              *)
Inserting(c, r) == tx[c].step \in {"assertion", "write"} /\ tx[c].row # {}
                   /\ Relation[tx[c].obs] = r
ResolveIdentity(c) ==
    LET r == Relation[tx[c].obs] IN
    /\ tx[c].step = "identity"
    /\ \A b \in Connections \ {c} : ~Inserting(b, r)
    /\ tx' = [tx EXCEPT ![c] = [@ EXCEPT
                 !.step = "assertion",
                 !.row = IF \E a \in asserted : a[1] = r THEN {} ELSE {<<r, tx[c].obs>>}]]
    /\ UNCHANGED <<observation, asserted, evidence, decisions, norm, source>>

(* ... the current assertion is locked, or inserted ...                     *)
Holds(c, r) == tx[c].step = "write" /\ Relation[tx[c].obs] = r
LockAssertion(c) ==
    /\ tx[c].step = "assertion"
    /\ \A b \in Connections \ {c} : ~Holds(b, Relation[tx[c].obs])
    /\ tx' = [tx EXCEPT ![c].step = "write"]
    /\ UNCHANGED <<observation, asserted, evidence, decisions, norm, source>>

Rows(table) == {table[i] : i \in DOMAIN table}
Current(r, rows) == CHOOSE a \in rows : a[1] = r

(* Mutant: the evidence row is inserted without looking for it.             *)
WithEvidenceAgain(o, a) == IF o \in Paged THEN Append(evidence, <<a, o>>) ELSE evidence

(* ... evidence with a page is inserted where there is none of it yet ...    *)
WithEvidence(o, a) == IF o \in Paged /\ <<a, o>> \notin Rows(evidence)
                      THEN Append(evidence, <<a, o>>) ELSE evidence

(* ... the observation is accepted, and the transaction commits.             *)
CommitPromotion(c) ==
    LET o == tx[c].obs rows == asserted \cup tx[c].row IN
    /\ tx[c].step = "write"
    /\ asserted' = rows
    /\ observation' = [observation EXCEPT ![o] = "accepted"]
    /\ evidence' = WithEvidence(o, Current(Relation[o], rows))
    /\ tx' = [tx EXCEPT ![c] = NoTx]
    /\ UNCHANGED <<decisions, norm, source>>

(* The statement fails or the session is lost: everything is rolled back.    *)
Rollback(c) ==
    /\ tx[c].step # "none" /\ tx' = [tx EXCEPT ![c] = NoTx]
    /\ UNCHANGED <<observation, asserted, evidence, decisions, norm, source>>

-----------------------------------------------------------------------------
(* A principal is a member of organizations and may commit to the public     *)
(* corpus or not; a request binds pages <<artifact, number>>.               *)
Principals == [orgs : SUBSET Organizations, public : BOOLEAN]
Bindings == UNION {[1 .. n -> Artifacts \X (1 .. 2)] : n \in 1 .. 2}
Requests == [scope : Scopes, artifact : Artifacts, pages : Bindings]

(* authorize_scope_write.                                                    *)
MayWrite(p, scope) == IF scope = PublicScope THEN p.public ELSE scope \in p.orgs

(* validate_source_bindings: the approved pages, each of them once.          *)
BindsApproved(q, approved) ==
    /\ {q.pages[i] : i \in DOMAIN q.pages} = approved
    /\ Cardinality(approved) = Len(q.pages)

(* Mutant: the artifact is taken to belong to the scope of the request.     *)
ArtifactAnywhere(q) == q.artifact \in Artifacts

ArtifactInScope(q) == ArtifactScope[q.artifact] = q.scope

(* _validate_artifact_pages: pages of that artifact, with the durable text,  *)
(* in increasing physical order.                                             *)
PagesValid(q, faithful) ==
    /\ \A i \in DOMAIN q.pages : q.pages[i][1] = q.artifact
    /\ faithful
    /\ \A i, j \in DOMAIN q.pages : i < j => q.pages[i][2] < q.pages[j][2]

(* authorize_canonical_commit and the structure audit admit the states        *)
(* VERIFIED and APPROVED, with or without amendments ("audited").  One       *)
(* transaction writes the decision, its occurrence, pages and passages.  A  *)
(* request that is repeated, its answer lost, makes another decision.        *)
CommitDecision(p, q, approved, audited, faithful) ==
    /\ Len(decisions) < MaxDecisions
    /\ MayWrite(p, q.scope) /\ audited /\ BindsApproved(q, approved)
    /\ ArtifactInScope(q) /\ PagesValid(q, faithful)
    /\ decisions' = Append(decisions, [by |-> p, request |-> q])
    /\ UNCHANGED <<graphVars, norm, source>>

-----------------------------------------------------------------------------
(* create_legal_norm, attach_norm_source and verify_legal_norm.             *)
CreateNorm(n) ==
    /\ norm[n] = "absent" /\ norm' = [norm EXCEPT ![n] = "candidate"]
    /\ UNCHANGED <<graphVars, decisions, source>>

AttachSource(n, status) ==
    /\ norm[n] # "absent"
    /\ source' = [source EXCEPT ![n] = @ \cup {status}]
    /\ UNCHANGED <<graphVars, decisions, norm>>

(* validate_verified_norm_sources, a trigger: a verified source is there.    *)
VerifyNorm(n) ==
    /\ norm[n] # "absent" /\ "verified" \in source[n]
    /\ norm' = [norm EXCEPT ![n] = "verified"]
    /\ UNCHANGED <<graphVars, decisions, source>>

GraphNext ==
    \/ \E o \in Observations : \/ RecordObservation(o) \/ Curate(o)
                               \/ \E c \in Connections : BeginPromotion(c, o)
    \/ \E c \in Connections : \/ ResolveIdentity(c) \/ LockAssertion(c)
                              \/ CommitPromotion(c) \/ Rollback(c)
CanonNext ==
    \/ \E p \in Principals, q \in Requests, audited, faithful \in BOOLEAN :
          \E approved \in {{q.pages[i] : i \in DOMAIN q.pages}, {}} :
              CommitDecision(p, q, approved, audited, faithful)
    \/ \E n \in Norms : \/ CreateNorm(n) \/ VerifyNorm(n)
                        \/ \E s \in {"candidate", "verified"} : AttachSource(n, s)
LegalNext == GraphNext \/ CanonNext
LegalSpec == LegalInit /\ [][LegalNext]_legalVars

-----------------------------------------------------------------------------
Assertions == Relations \X Observations
LegalTypeOK ==
    /\ observation \in [Observations -> {"absent", "observed", "accepted",
                                         "rejected", "superseded", "conflicting"}]
    /\ asserted \subseteq Assertions
    /\ Rows(evidence) \subseteq Assertions \X Observations
    /\ tx \in [Connections -> [step : {"none", "identity", "assertion", "write"},
                               obs : Observations \cup {Unresolved},
                               row : SUBSET Assertions]]
    /\ \A i \in DOMAIN decisions : decisions[i] \in [by : Principals, request : Requests]
    /\ norm \in [Norms -> {"absent", "candidate", "verified"}]
    /\ source \in [Norms -> SUBSET {"candidate", "verified"}]

(* Whatever promotions of the same relation overlap, are repeated or rolled  *)
(* back: a relation has one current assertion, the origin of an assertion    *)
(* was accepted, and an accepted observation with a page is evidence of the  *)
(* current assertion of its relation, once, as no other is (promote_relation). *)
PromotionsAgree ==
    /\ \A a, b \in asserted : a[1] = b[1] => a = b
    /\ \A a \in asserted : observation[a[2]] = "accepted"
    /\ \A o \in Paged :
          observation[o] = "accepted" <=>
              \E a \in asserted : a[1] = Relation[o] /\ <<a, o>> \in Rows(evidence)
    /\ \A i, j \in DOMAIN evidence : evidence[i] = evidence[j] => i = j

(* Nothing canonical stands without its ground: a decision was committed by  *)
(* a principal of its scope from an artifact of that scope, in whole pages   *)
(* in order, and a verified norm has a verified source.                      *)
KnowledgeIsGrounded ==
    /\ \A i \in DOMAIN decisions :
          LET q == decisions[i].request IN
          /\ q.scope = PublicScope \/ q.scope \in decisions[i].by.orgs
          /\ \A k \in DOMAIN q.pages :
                /\ ArtifactScope[q.pages[k][1]] = q.scope
                /\ k > 1 => q.pages[k - 1][2] < q.pages[k][2]
    /\ \A n \in Norms : norm[n] = "verified" => "verified" \in source[n]
=============================================================================
