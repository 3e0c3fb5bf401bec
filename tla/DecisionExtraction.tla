-------------------------- MODULE DecisionExtraction --------------------------
(***************************************************************************)
(* From the view of a document to one audited decision: the structure agent *)
(* and its auditor, the reconstruction of a bounded decision, the          *)
(* extraction agent and its auditor, and the citations bridged to the legal *)
(* graph (ingestion/sdk_*.py, decision_reconstruction.py,                  *)
(* evidence_validation.py, legal_relation_observations.py).                *)
(*                                                                         *)
(* What the models read and answer is arbitrary; the caller keeps the       *)
(* results and may repeat any stage.  A claim binds a page of the view to   *)
(* a printed number and the page's sheets; a span is a range of a page's    *)
(* text with a quotation, exact or not.                                     *)
(***************************************************************************)
EXTENDS ScannedView

CONSTANTS Claims,        \* [page, printed, source]: bindings a model may cite
          Spans,         \* [page, from, to, exact, reference]: ranges a model
                         \* may quote, for a reference or another annotation
          NoSource,      \* a claim without source_reference
          Answers,       \* audits a model may answer, coherent or not
          MaxTurns, MaxToolOutput

ASSUME ExtractionClaims == \A c \in Claims : c.page \in Nat /\ c.printed \in Nat
ASSUME ExtractionSpans ==
    \A s \in Spans : s.from < s.to /\ {s.exact, s.reference} \subseteq BOOLEAN
ASSUME ExtractionBounds == MaxTurns \in Nat

VARIABLES agent,        \* the agent that runs: role, turns, pages it was shown
          hypothesis,   \* claims of the structure hypothesis
          decision,     \* pages of the source-faithful decision
          annotations,  \* spans of the extraction, {} without one
          audit,        \* the last audit: of what, whether it lets go on
          bridged       \* spans recorded as citations

extractionVars == <<agent, hypothesis, decision, annotations, audit, bridged>>

Roles == {"structure", "structure auditor", "extraction", "extraction auditor"}
Idle == [role |-> "none", turns |-> 0, shown |-> {}]
NoAudit == [of |-> "none", allows |-> FALSE, decision |-> {}, annotations |-> {}]

ExtractionInit ==
    /\ agent = Idle /\ hypothesis = {} /\ decision = {}
    /\ annotations = {} /\ audit = NoAudit /\ bridged = {}

-----------------------------------------------------------------------------
(* The deterministic validators.                                            *)
Sourced(c) == c.source = NoSource \/ c.source = view[c.page].sources

(* validate_index_reference_evidence, validate_structure_audit_evidence.     *)
ClaimHolds(c) == /\ c.page \in DOMAIN view /\ Sourced(c)
                 /\ view[c.page].printed # NoNumber
                 /\ view[c.page].printed = c.printed

(* validate_extraction_annotations: the quotation is the text of a whole      *)
(* page of the decision.                                                     *)
SpanHolds(s, pages) == s.page \in pages /\ s.to <= view[s.page].text /\ s.exact

(* validate_extraction_audit_evidence: the auditor's excerpt is looked up in  *)
(* the page as an agent sees it.                                             *)
ExcerptHolds(c, s) ==
    /\ c.page \in DOMAIN view /\ s.page = c.page /\ Sourced(c)
    /\ view[c.page].printed = c.printed
    /\ s.exact /\ s.to <= Visible(c.page)

(* StructureAuditResult, ExtractionAuditResult: which answers are coherent.   *)
CheckStatuses == {"supported", "contradicted", "unresolved", "not_applicable"}
AuditStates == {"approved", "amended", "investigate", "rejected", "blocked"}
ASSUME ExtractionAnswers ==
    Answers \subseteq [state : AuditStates, statuses : SUBSET CheckStatuses,
                      amended : BOOLEAN, followUp : BOOLEAN]
Allows(a) == a.state \in {"approved", "amended"}
Material(a) == a.statuses \cap {"contradicted", "unresolved"}
Coherent(a) ==
    /\ Allows(a) => a.statuses # {}
    /\ a.state = "approved" => Material(a) = {} /\ ~a.amended
    /\ a.state = "amended" => a.amended
    /\ a.state = "investigate" => "unresolved" \in a.statuses /\ a.followUp
    /\ a.state = "rejected" => "contradicted" \in a.statuses
    /\ a.state = "blocked" => a.followUp
(* Supported and contradicted checks cite evidence.                          *)
Backed(a, evidence) ==
    a.statuses \cap {"supported", "contradicted"} # {} => evidence # {}

-----------------------------------------------------------------------------
(* The runs of the agents.                                                  *)
(* Mutant: the annotations are taken to fit the decision under audit.        *)
MayStartUnchecked(role) ==
    /\ role = "structure auditor" => hypothesis # {}
    /\ role \in {"extraction", "extraction auditor"} => decision # {}

(* run_extraction_auditor validates the annotations it is given first: they   *)
(* may be those of another decision.                                          *)
MayStart(role) ==
    /\ role = "structure auditor" => hypothesis # {}
    /\ role \in {"extraction", "extraction auditor"} => decision # {}
    /\ role = "extraction auditor" => \A s \in annotations : SpanHolds(s, decision)

StartAgent(role) ==
    /\ view # <<>> /\ agent = Idle /\ MayStart(role)
    /\ agent' = [role |-> role, turns |-> 0,
                 shown |-> IF role = "structure" THEN {1} ELSE {}]
    /\ UNCHANGED <<hypothesis, decision, annotations, audit, bridged>>

Shows(pages) ==
    /\ agent.turns < MaxTurns
    /\ agent' = [agent EXCEPT !.turns = @ + 1, !.shown = @ \cup pages]
    /\ UNCHANGED <<hypothesis, decision, annotations, audit, bridged>>

(* The tools over the environment, within the output budget.                 *)
Output(pages) == MapThenSumSet(Visible, pages)
ReadSource(a, b) ==
    /\ agent.role \in Roles \ {"extraction"}
    /\ a <= b /\ {a, b} \subseteq DOMAIN view /\ Output(a .. b) <= MaxToolOutput
    /\ Shows(a .. b)

(* Mutant: the tool opens any page of the view.                             *)
ReadAnyPage(p) ==
    /\ agent.role \in {"extraction", "extraction auditor"}
    /\ view[p].text <= MaxToolOutput /\ Shows({p})

(* render_decision_page, search_bounded_decision: whole pages of the decision. *)
ReadDecision(p) ==
    /\ agent.role \in {"extraction", "extraction auditor"}
    /\ p \in decision /\ view[p].text <= MaxToolOutput /\ Shows({p})

(* A tool that raises, the last turn, a provider error, an answer of another *)
(* type or one that does not validate: the run raises and leaves nothing.    *)
AgentFails ==
    /\ agent # Idle /\ agent' = Idle
    /\ UNCHANGED <<hypothesis, decision, annotations, audit, bridged>>

Answering(role) == agent.role = role /\ agent' = Idle

AnswerHypothesis(claims) ==
    /\ Answering("structure") /\ \A c \in claims : ClaimHolds(c)
    /\ hypothesis' = claims
    /\ UNCHANGED <<decision, annotations, audit, bridged>>

AnswerStructureAudit(a, claims) ==
    /\ Answering("structure auditor")
    /\ Coherent(a) /\ Backed(a, claims) /\ \A c \in claims : ClaimHolds(c)
    /\ audit' = [NoAudit EXCEPT !.of = "structure", !.allows = Allows(a)]
    /\ UNCHANGED <<hypothesis, decision, annotations, bridged>>

(* reconstruct_source_faithful_decision: the pages of a boundary, in full.    *)
Reconstruct(a, b) ==
    /\ agent = Idle /\ a <= b /\ {a, b} \subseteq DOMAIN view
    /\ decision' = a .. b
    /\ UNCHANGED <<agent, hypothesis, annotations, audit, bridged>>

AnswerAnnotations(spans) ==
    /\ Answering("extraction") /\ \A s \in spans : SpanHolds(s, decision)
    /\ annotations' = spans
    /\ UNCHANGED <<hypothesis, decision, audit, bridged>>

AnswerExtractionAudit(a, claims, s) ==
    /\ Answering("extraction auditor")
    /\ Coherent(a) /\ Backed(a, claims) /\ \A c \in claims : ExcerptHolds(c, s)
    /\ audit' = [of |-> "extraction", allows |-> Allows(a), decision |-> decision,
                 annotations |-> annotations]
    /\ UNCHANGED <<hypothesis, decision, annotations, bridged>>

(* reference_observations_from_extraction: a citation for each span that is   *)
(* quoted as the evidence of a reference.                                    *)
Bridge ==
    /\ agent = Idle /\ annotations # {}
    /\ bridged' = {s \in annotations : s.reference}
    /\ UNCHANGED <<agent, hypothesis, decision, annotations, audit>>

AtMostOne(S) == {{}} \cup {{x} : x \in S}
ExtractionNext ==
    \/ AgentFails \/ Bridge
    \/ \E role \in Roles : StartAgent(role)
    \/ \E a, b \in DOMAIN view : ReadSource(a, b) \/ Reconstruct(a, b)
    \/ \E p \in DOMAIN view : ReadDecision(p)
    \/ \E claims \in AtMostOne(Claims) :
          \/ AnswerHypothesis(claims)
          \/ \E a \in Answers : AnswerStructureAudit(a, claims)
    \/ /\ agent.role = "extraction auditor"
       /\ \E claims \in AtMostOne(Claims), a \in Answers, s \in Spans :
             AnswerExtractionAudit(a, claims, s)
    \/ \E spans \in AtMostOne(Spans) : AnswerAnnotations(spans)

ExtractionStep == \/ Materialize /\ UNCHANGED extractionVars
                  \/ ExtractionNext /\ UNCHANGED viewVars
ExtractionSpec == /\ ViewInit /\ ExtractionInit
                  /\ [][ExtractionStep]_<<viewVars, extractionVars>>

-----------------------------------------------------------------------------
ExtractionTypeOK ==
    /\ agent.role \in Roles \cup {"none"} /\ agent.turns \in 0 .. MaxTurns
    /\ agent.shown \subseteq DOMAIN view
    /\ hypothesis \subseteq Claims
    /\ decision \subseteq DOMAIN view
    /\ annotations \subseteq Spans /\ bridged \subseteq Spans
    /\ audit.of \in {"none", "structure", "extraction"} /\ audit.allows \in BOOLEAN

(* Whatever the models answer and however the stages are repeated: the        *)
(* extraction agent is shown the pages of the decision only, an audit that   *)
(* lets the decision be committed is one of annotations that quote the very  *)
(* decision it was given, and a citation or a claim leads back to a sheet of *)
(* the scan that shows the text, or the number, it speaks of, in a view that *)
(* has each region of the scan once.                                         *)
EvidenceIsSourced ==
    /\ ViewIsFaithful
    /\ agent.role = "extraction" => agent.shown \subseteq decision
    /\ audit.of = "extraction" /\ audit.allows =>
          \A s \in audit.annotations : s.page \in audit.decision
    /\ \A s \in bridged :
          LET p == view[s.page] IN
          s.exact /\ s.to <= sheets[p.shows].regions[p.side].text
    /\ \A c \in hypothesis :
          \E i \in view[c.page].sources :
              c.printed \in sheets[i].regions[view[c.page].side].marks
=============================================================================
