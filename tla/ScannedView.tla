----------------------------- MODULE ScannedView -----------------------------
(***************************************************************************)
(* The document an agent reads of a scanned compilation: adjacent rescans  *)
(* are found and grouped, each region with enough text becomes a page of   *)
(* the view, and the printed numbers are resolved by the one offset most   *)
(* pages agree on (ingestion/scanned_page_materialization.py,              *)
(* logical_document_view.py and document_environment.py).                  *)
(*                                                                         *)
(* A sheet is a physical page: its left and right region, each with the    *)
(* length of its text, how much of it is visible (not white space) and the *)
(* numbers printed in its margin, and how alike its words are to those of  *)
(* the next sheet.                                                         *)
(***************************************************************************)
EXTENDS Integers, Sequences, FiniteSetsExt

CONSTANTS ScannedDocuments,    \* sequences of sheets
          MinimumCharacters, MinimumSupport,
          MinimumShare,        \* <<numerator, denominator>>
          MaxPageChars         \* what an agent is shown of a page

Sides == 1 .. 2  \* left and right
Regions == [text : Nat, visible : Nat, marks : SUBSET (Nat \ {0})]
Likeness == {"same", "close", "other"}

ASSUME ViewDocuments ==
    ScannedDocuments \subseteq Seq([regions : [Sides -> Regions], next : Likeness])
ASSUME ViewParameters ==
    /\ {MinimumCharacters, MinimumSupport, MaxPageChars} \subseteq Nat \ {0}
    /\ MinimumShare \in Nat \X (Nat \ {0})

VARIABLES sheets,  \* the scanned document
          view     \* its pages: what they show, of which sheets, which number

viewVars == <<sheets, view>>
NoNumber == 0  \* no printed number resolved

-----------------------------------------------------------------------------
(* detect_adjacent_duplicate_scans.                                         *)
MarksOf(sheet) == sheet.regions[1].marks \cup sheet.regions[2].marks

Rescanned(s, i) ==
    LET a == MarksOf(s[i]) b == MarksOf(s[i + 1]) IN
    /\ a = {} \/ b = {} \/ a \cap b # {}
    /\ s[i].next = "same" \/ (s[i].next = "close" /\ a # {} /\ a = b)

Rescans(s) == {i \in 1 .. Len(s) - 1 : Rescanned(s, i)}

(* _build_scan_groups: a third copy in a row is ambiguous, and refused.      *)
Ambiguous(s) == \E i \in Rescans(s) : i + 1 \in Rescans(s)
Groups(s) == {{i} \cup ({i + 1} \cap {j + 1 : j \in Rescans(s)}) :
                 i \in DOMAIN s \ {j + 1 : j \in Rescans(s)}}

(* _representative_region: the copy that reads best, the first of equals.   *)
ReadsBetter(a, b) == \/ a.visible > b.visible
                     \/ a.visible = b.visible /\ a.text > b.text
Representative(s, g, side) ==
    LET region(i) == s[i].regions[side] IN
    CHOOSE i \in g : \A j \in g : \/ ReadsBetter(region(i), region(j))
                                  \/ ~ReadsBetter(region(j), region(i)) /\ i <= j

Leaf(s, g, side) ==
    [sources |-> g, side |-> side, shows |-> Representative(s, g, side),
     text |-> s[Representative(s, g, side)].regions[side].text,
     visible |-> s[Representative(s, g, side)].regions[side].visible,
     marks |-> UNION {s[i].regions[side].marks : i \in g}]
Leaves(s) == {l \in {Leaf(s, g, side) : g \in Groups(s), side \in Sides} :
                 l.visible >= MinimumCharacters}

(* The elements of S by growing key: element n comes after n - 1 others.     *)
InOrder(S, key) ==
    [n \in 1 .. Cardinality(S) |->
        CHOOSE x \in S : Cardinality({y \in S : key[y] < key[x]}) = n - 1]
ReadingPosition(l) == 2 * Min(l.sources) + l.side
LeafSequence(s) == InOrder(Leaves(s), [l \in Leaves(s) |-> ReadingPosition(l)])

(* _dominant_printed_page_offset: each mark votes for a distance between     *)
(* printed and view number; only an undisputed, well supported one resolves. *)
Offsets(p) == UNION {{m - n : m \in p[n].marks} : n \in DOMAIN p}
Votes(p, o) == Cardinality({n \in DOMAIN p : n + o \in p[n].marks})
Marked(p) == Cardinality({n \in DOMAIN p : p[n].marks # {}})
Dominant(p) == {o \in Offsets(p) :
                   /\ \A q \in Offsets(p) \ {o} : Votes(p, q) < Votes(p, o)
                   /\ Votes(p, o) >= MinimumSupport
                   /\ Votes(p, o) * MinimumShare[2] >= Marked(p) * MinimumShare[1]}

(* A number is resolved where it was seen, never because it would fit.       *)
Resolution(p, n) ==
    IF \E o \in Dominant(p) : n + o \in p[n].marks
    THEN n + CHOOSE o \in Dominant(p) : TRUE ELSE NoNumber

(* Mutant: numbers are filled in where continuity makes them plausible.      *)
ResolutionByContinuity(p, n) ==
    IF Dominant(p) # {} THEN n + CHOOSE o \in Dominant(p) : TRUE ELSE NoNumber

PrintedNumber(p, n) == Resolution(p, n)

(* materialize_logical_document_view.                                        *)
Refused(s) == Ambiguous(s) \/ Leaves(s) = {}
Materialized(s) ==
    LET p == LeafSequence(s) IN
    [n \in DOMAIN p |-> [sources |-> p[n].sources, side |-> p[n].side,
                         shows |-> p[n].shows, text |-> p[n].text,
                         printed |-> PrintedNumber(p, n)]]

ViewInit == sheets \in ScannedDocuments /\ view = <<>>
Materialize ==
    /\ view = <<>> /\ ~Refused(sheets)
    /\ view' = Materialized(sheets) /\ UNCHANGED sheets

-----------------------------------------------------------------------------
(* DocumentEnvironment: pages are clipped for an agent, and looked up by     *)
(* their number in the view or by their printed number.                      *)
Visible(n) == Min({view[n].text, MaxPageChars})
Printable == \E n \in DOMAIN view : view[n].printed # NoNumber
WithPrinted(numbers) == {n \in DOMAIN view : view[n].printed \in numbers \ {NoNumber}}

(* sample_pages: Python rounds halves to the even neighbour.                *)
Rounded(a, b) == LET q == a \div b r == 2 * (a % b) IN
                 IF r > b \/ (r = b /\ q % 2 = 1) THEN q + 1 ELSE q
EvenPages(k) == IF k = 1 THEN {1}
                ELSE {1 + Rounded(i * (Len(view) - 1), k - 1) : i \in 0 .. k - 1}
SamplePages(strategy, count) ==
    LET k == Min({count, Len(view)}) IN
    CASE strategy = "head" -> 1 .. k
      [] strategy = "tail" -> Len(view) - k + 1 .. Len(view)
      [] OTHER -> EvenPages(k)

-----------------------------------------------------------------------------
(* The view is the scan, read once: every region with enough to read is in   *)
(* exactly one page, by itself or as a rescan that reads no better than the *)
(* one shown; and a printed number was seen on one of the page's sheets,    *)
(* is that of no other page, and grows with the pages.                       *)
ViewIsFaithful ==
    view # <<>> =>
        /\ \A i \in DOMAIN sheets, side \in Sides :
              sheets[i].regions[side].visible >= MinimumCharacters =>
                  \E n \in DOMAIN view :
                      /\ view[n].side = side /\ i \in view[n].sources
                      /\ ~ReadsBetter(sheets[i].regions[side],
                                      sheets[view[n].shows].regions[side])
                      /\ \A m \in DOMAIN view \ {n} :
                            ~(view[m].side = side /\ i \in view[m].sources)
        /\ \A n \in DOMAIN view :
              LET p == view[n] IN
              /\ p.text = sheets[p.shows].regions[p.side].text
              /\ p.printed # NoNumber =>
                    /\ \E i \in p.sources : p.printed \in sheets[i].regions[p.side].marks
                    /\ \A m \in DOMAIN view :
                          view[m].printed # NoNumber /\ m < n =>
                              view[m].printed < p.printed
=============================================================================
