------------------------------ MODULE MCEvidence ------------------------------
(***************************************************************************)
(* Small instances, for TLC, of parts that share no state: a behaviour is  *)
(* one scene, chosen at the start, in which one part runs and the others   *)
(* stand still.                                                            *)
(***************************************************************************)
EXTENDS LiteralOcr, LegalCorpus, DocumentDiscovery, DecisionExtraction, TLC

CONSTANTS r1, c1, c2, n1, p1, p2
VARIABLE scene  \* the part that runs

ShortDocuments == 1 :> 2 @@ 2 :> 1
UncertainPage == <<1, 1>> :> {"misaligned"} @@ <<2, 1>> :> {"misaligned"}
                 @@ <<1, 2>> :> {"aligned", "no_native_text"}
AnyThenPinned == <<{p1, p2, Unrecorded}, {p1}>>
TwoOfOneRelation == "o1" :> "r1" @@ "o2" :> "r1" @@ "o3" :> "unresolved"
                    @@ "o4" :> "treatment"
PublicAndPrivate == "a1" :> PublicScope @@ "a2" :> "orgA"

(* Scans: two spreads scanned twice, one with a number lost, three copies of *)
(* one sheet, and margins that agree on no offset.                          *)
Half == <<1, 2>>
Padded(visible, text, marks) == [text |-> text, visible |-> visible, marks |-> marks]
Region(text, marks) == Padded(text, text, marks)
Sheet(left, right, next) == [regions |-> <<left, right>>, next |-> next]
Blank == Region(0, {})
Spread == <<Sheet(Region(2, {5}), Region(7, {6}), "same"),
            Sheet(Region(1, {5}), Region(2, {6}), "other")>>
LostNumber == <<Sheet(Region(2, {5}), Region(2, {6}), "same"),
                Sheet(Region(1, {5}), Padded(2, 3, {6}), "other"),
                Sheet(Region(3, {4}), Region(2, {8}), "other")>>
ThreeCopies == [i \in 1 .. 3 |-> Sheet(Region(2, {5}), Blank, "same")]
Tied == <<Sheet(Region(2, {5}), Region(2, {9}), "other")>>
Scanned == {Spread, LostNumber, ThreeCopies, Tied}

Ask(tool, from, to) == [tool |-> tool, from |-> from, to |-> to]
SomeAsks == {Ask("pages", 2, 4), Ask("pages", 3, 9), Ask("printed page", 7, 7),
             Ask("delegate", 5, 8), Ask("sample", "even", 3)}

Claim(page, printed, of) == [page |-> page, printed |-> printed, source |-> of]
SomeClaims == {Claim(1, 5, NoSource), Claim(2, 6, {1, 2}), Claim(1, 6, NoSource),
               Claim(2, 6, {1}), Claim(3, 0, NoSource)}
Span(page, to, exact, of) == [page |-> page, from |-> 0, to |-> to, exact |-> exact,
                              reference |-> of = "reference"]
SomeSpans == {Span(1, 2, TRUE, "reference"), Span(2, 7, TRUE, "reference"),
              Span(2, 6, TRUE, "metadata"), Span(1, 3, TRUE, "reference"),
              Span(1, 1, FALSE, "reference")}
Answer(state, statuses, amended, followUp) ==
    [state |-> state, statuses |-> statuses, amended |-> amended, followUp |-> followUp]
SomeAnswers == {Answer("approved", {"supported"}, FALSE, FALSE),
                Answer("approved", {"not_applicable"}, FALSE, FALSE),
                Answer("approved", {"supported", "unresolved"}, FALSE, FALSE),
                Answer("amended", {"supported", "contradicted"}, TRUE, FALSE),
                Answer("investigate", {"unresolved"}, FALSE, TRUE),
                Answer("rejected", {"supported"}, FALSE, FALSE),
                Answer("blocked", {}, FALSE, TRUE)}

readingVars == <<viewVars, discoveryVars, extractionVars>>
evidenceVars == <<ocrAll, legalVars, readingVars, scene>>

EvidenceInit == /\ scene \in {"ocr", "graph", "canon", "discovery", "extraction"}
                /\ OcrInit /\ LegalInit
                /\ ViewInit /\ DiscoveryInit /\ ExtractionInit
                /\ scene # "discovery" => sheets = Spread

InOcr(A) == scene = "ocr" /\ A /\ UNCHANGED <<legalVars, readingVars, scene>>
InLegal(s, A) == scene = s /\ A /\ UNCHANGED <<ocrAll, readingVars, scene>>
InReading(s, A) == scene = s /\ A /\ UNCHANGED <<ocrAll, legalVars, scene>>

EvidenceNext ==
    \/ InOcr(OcrNext) \/ InLegal("graph", GraphNext) \/ InLegal("canon", CanonNext)
    \/ InReading("discovery", DiscoveryStep /\ UNCHANGED extractionVars)
    \/ InReading("extraction", ExtractionStep /\ UNCHANGED discoveryVars)
EvidenceSpec == /\ EvidenceInit /\ [][EvidenceNext]_evidenceVars
                /\ WF_evidenceVars(InOcr(OcrProgress))
                /\ WF_evidenceVars(InOcr(CensusProgress /\ UNCHANGED ocrVars))

EvidenceTypeOK == OcrTypeOK /\ LegalTypeOK /\ DiscoveryTypeOK /\ ExtractionTypeOK
=============================================================================
