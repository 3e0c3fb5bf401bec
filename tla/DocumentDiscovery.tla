-------------------------- MODULE DocumentDiscovery --------------------------
(***************************************************************************)
(* The agent that explores a document under a token budget, and the locator *)
(* agents it sends out (ingestion/agentic_document_discovery.py and        *)
(* context_governor.py), over a provider that clamps each generation to     *)
(* what is left of the budget (model_providers/token_budget.py,             *)
(* google_gemini.py).  What the models answer is arbitrary.                 *)
(*                                                                         *)
(* Tokens and characters are one unit; a page's header, a refusal and the   *)
(* instructions of a prompt are one unit each.  The sum of the results'     *)
(* usage that a run enforces is what its provider has consumed.             *)
(***************************************************************************)
EXTENDS ScannedView, SequencesExt

CONSTANTS Asks,        \* tool requests a model may make
          MaxCalls,    \* max_model_calls
          MaxTokens,   \* max_total_tokens, of the run and of its provider
          DecisionCeiling, LocatorCeiling, SynthesisCeiling,
          ParentLimit, DelegatedLimit,
          Slack,       \* tokens a provider may bill beyond the ceiling it is given
          Unknown,     \* an answer without usage
          MaxPosts     \* max_attempts of the transport

ASSUME DiscoveryBounds ==
    /\ MaxCalls \in Nat \ {0, 1}
    /\ {MaxTokens, ParentLimit, DelegatedLimit, MaxPosts} \subseteq Nat \ {0}
    /\ {DecisionCeiling, LocatorCeiling, SynthesisCeiling, Slack} \subseteq Nat
    /\ Unknown \notin Nat
RangeTools == {"page", "pages", "printed page", "printed pages", "delegate"}
ASSUME DiscoveryAsks ==
    \A q \in Asks :
        /\ (q.tool \in RangeTools => {q.from, q.to} \subseteq Int)
        /\ (q.tool = "sample" => q.to \in Nat \ {0})

VARIABLES run,        \* the run: phase, calls, posts, context, shown, asked, consumed
          delegation  \* pages to search, their chunks, the next, what was cited

discoveryVars == <<run, delegation>>

NoDelegation == [pages |-> <<>>, chunks |-> <<>>, at |-> 0, cited |-> {}]
DiscoveryInit ==
    /\ run = [phase |-> "start", calls |-> 0, posts |-> 0, context |-> 0,
              shown |-> {}, asked |-> {}, consumed |-> 0]
    /\ delegation = NoDelegation

-----------------------------------------------------------------------------
(* Rendered pages, and the prompts built of them.                            *)
Rendered == [n \in DOMAIN view |-> Visible(n) + 1]
Cost(pages) == SumFunctionOnSet(Rendered, pages)
LocatorCost(chunk) == 1 + Cost(Range(chunk))

Input == CASE run.phase = "decide" -> 1 + Cost({1}) + run.context
           [] run.phase = "locate" -> LocatorCost(delegation.chunks[delegation.at])
           [] OTHER -> 1 + run.context
Ceiling == CASE run.phase = "decide" -> DecisionCeiling
             [] run.phase = "locate" -> LocatorCeiling
             [] OTHER -> SynthesisCeiling

(* TokenBudgetedModelProvider.generate_structured.                           *)
Calling == run.phase \in {"decide", "locate", "synthesis"}
Remaining == MaxTokens - run.consumed - Input
Affordable == Calling /\ Remaining >= 1

(* Mutant: the caller's ceiling is forwarded as it is.                       *)
CallersCeiling == Ceiling

EffectiveCeiling == Min({Ceiling, Remaining})
Totals == {Unknown, Input + 1, Input + EffectiveCeiling, Input + EffectiveCeiling + Slack}
Spent(t) == run.consumed + IF t = Unknown THEN 0 ELSE t

Ends(phase, consumed) ==
    /\ run' = [run EXCEPT !.phase = phase, !.consumed = consumed, !.posts = 0]
    /\ delegation' = NoDelegation

Unaffordable == Calling /\ ~Affordable /\ Ends("failed", run.consumed)

(* The transport repeats a post it may repeat; the last failure ends the run. *)
PostFails ==
    /\ Affordable
    /\ \/ Ends("failed", run.consumed)
       \/ /\ run.posts + 1 < MaxPosts /\ run' = [run EXCEPT !.posts = @ + 1]
          /\ UNCHANGED delegation

(* An answer that overruns the budget, is incomplete or cannot be parsed.    *)
AnswerFails == Affordable /\ \E t \in Totals : Ends("failed", Spent(t))

Answered(phase, t) == /\ run.phase = phase /\ Affordable
                      /\ t \in Totals /\ Spent(t) <= MaxTokens

-----------------------------------------------------------------------------
(* run_agentic_document_discovery.                                           *)
StartDiscovery ==
    /\ run.phase = "start" /\ view # <<>>
    /\ run' = [run EXCEPT !.phase = "decide", !.shown = {1}]
    /\ UNCHANGED delegation

(* A step of the loop has ended: its output joins the history.              *)
AfterStep(t, asked, pages) ==
    [run EXCEPT !.phase = IF run.calls + 1 = MaxCalls - 1 THEN "synthesis" ELSE "decide",
                !.calls = @ + 1, !.posts = 0, !.asked = asked,
                !.shown = @ \cup pages, !.context = @ + 1 + Cost(pages),
                !.consumed = Spent(t)]

(* _execute_tool: what a request opens, unless the environment rejects it.   *)
Ordered(q) == q.from <= q.to
Opens(q) ==
    CASE q.tool \in {"page", "pages"} -> q.from .. q.to
      [] q.tool \in {"printed page", "printed pages", "delegate"} ->
            WithPrinted(q.from .. q.to)
      [] q.tool = "sample" -> SamplePages(q.from, q.to)
      [] OTHER -> {}
Rejected(q) ==
    CASE q.tool \in {"page", "pages"} ->
            ~(Ordered(q) /\ {q.from, q.to} \subseteq DOMAIN view)
      [] q.tool = "printed page" -> Opens(q) = {}
      [] q.tool \in {"printed pages", "delegate"} ->
            ~(Printable /\ Ordered(q) /\ q.from >= 1)
      [] OTHER -> FALSE

(* preflight_parent governs ranges only.                                     *)
Inlined(q) == \/ q.tool \notin {"pages", "printed pages"}
              \/ Input + 1 + Cost(Opens(q)) <= ParentLimit

Finish(t) ==
    /\ Answered("decide", t)
    /\ run' = [run EXCEPT !.phase = "synthesis", !.calls = @ + 1, !.posts = 0,
                          !.consumed = Spent(t)]
    /\ UNCHANGED delegation

(* A repeated or rejected request and a range too large leave only a notice; *)
(* a search leaves snippets.                                                 *)
Read(t, q) ==
    /\ Answered("decide", t)
    /\ q.tool # "delegate" \/ q \in run.asked \/ Rejected(q)
    /\ LET opened == IF q \in run.asked \/ Rejected(q) \/ ~Inlined(q) THEN {}
                     ELSE Opens(q) IN
       run' = AfterStep(t, run.asked \cup {q}, opened)
    /\ UNCHANGED delegation

(* _fit_locator_chunks: halves, until each fits.                             *)
Chunks[pages \in Seq(DOMAIN view)] ==
    IF LocatorCost(pages) <= DelegatedLimit \/ Len(pages) <= 1 THEN <<pages>>
    ELSE LET half == Len(pages) \div 2 IN
         Chunks[SubSeq(pages, 1, half)] \o Chunks[SubSeq(pages, half + 1, Len(pages))]
ByPrinted(pages) == InOrder(pages, [n \in pages |-> view[n].printed])

Delegate(t, q) ==
    /\ Answered("decide", t)
    /\ q.tool = "delegate" /\ q \notin run.asked /\ ~Rejected(q)
    /\ LET pages == ByPrinted(Opens(q)) IN
       IF \E n \in Range(pages) : LocatorCost(<<n>>) > DelegatedLimit
       THEN Ends("failed", Spent(t))
       ELSE /\ run' = [run EXCEPT !.phase = "locate", !.posts = 0,
                                  !.asked = @ \cup {q}, !.consumed = Spent(t)]
            /\ delegation' = [pages |-> pages, chunks |-> Chunks[pages], at |-> 1,
                              cited |-> {}]

(* _delegate_locator: a locator may cite pages of its chunk only; the pages   *)
(* it cites are shown to the parent when all chunks are done.                *)
Locate(t, cited) ==
    /\ Answered("locate", t)
    /\ IF cited \subseteq Range(delegation.chunks[delegation.at])
       THEN IF delegation.at < Len(delegation.chunks)
            THEN /\ run' = [run EXCEPT !.posts = 0, !.consumed = Spent(t)]
                 /\ delegation' = [delegation EXCEPT !.at = @ + 1,
                                                     !.cited = @ \cup cited]
            ELSE /\ run' = AfterStep(t, run.asked, delegation.cited \cup cited)
                 /\ delegation' = NoDelegation
       ELSE Ends("failed", Spent(t))

Synthesise(t) == Answered("synthesis", t) /\ Ends("done", Spent(t))

DiscoveryNext ==
    \/ StartDiscovery \/ Unaffordable \/ PostFails \/ AnswerFails
    \/ \E t \in Totals :
          \/ Finish(t) \/ Synthesise(t)
          \/ \E q \in Asks : Read(t, q) \/ Delegate(t, q)
          \/ \E cited \in SUBSET DOMAIN view : Locate(t, cited)

DiscoveryStep == \/ Materialize /\ UNCHANGED discoveryVars
                 \/ DiscoveryNext /\ UNCHANGED viewVars
DiscoverySpec == /\ ViewInit /\ DiscoveryInit
                 /\ [][DiscoveryStep]_<<viewVars, discoveryVars>>

-----------------------------------------------------------------------------
DiscoveryTypeOK ==
    /\ run.phase \in {"start", "decide", "locate", "synthesis", "done", "failed"}
    /\ run.calls \in 0 .. MaxCalls /\ run.posts \in 0 .. MaxPosts - 1
    /\ run.shown \subseteq DOMAIN view /\ run.asked \subseteq Asks
    /\ run.context \in Nat /\ run.consumed \in Nat
    /\ delegation.at \in 0 .. Len(delegation.chunks)

(* The budget bounds the whole run, whatever mix of decisions, locators and   *)
(* synthesis it makes: what the provider reports exceeds it by no more than  *)
(* one answer's excess over its ceiling, a run that returns has stayed       *)
(* within it, and every page of a delegated range is read by one locator     *)
(* whose prompt fits its context.                                             *)
BudgetIsKept ==
    /\ run.consumed <= MaxTokens + Slack
    /\ run.phase = "done" => run.consumed <= MaxTokens
    /\ FlattenSeq(delegation.chunks) = delegation.pages
    /\ \A i \in DOMAIN delegation.chunks :
          LocatorCost(delegation.chunks[i]) <= DelegatedLimit
=============================================================================
