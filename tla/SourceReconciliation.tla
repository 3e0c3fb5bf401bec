------------------------- MODULE SourceReconciliation -------------------------
(***************************************************************************)
(* Reconciling a court's published documents with what is registered and   *)
(* stored (backend/src/jurisnexo/acquisition: reconciliation,              *)
(* completeness, source_inventory and the crawl of official_corpus).  A    *)
(* pass crawls the listing, plans what is not registered or not stored,    *)
(* fetches, stores and registers it, and reports whether the source is     *)
(* complete.  Passes overlap, die anywhere, and lose answers; the source   *)
(* goes on changing, and objects get lost.                                 *)
(*                                                                         *)
(* The source is the Tribunal's, whose listing names every identifier once *)
(* and whose documents share one collection.  (The Supreme Court's landing *)
(* page enumerates nothing, so its report is never complete.)              *)
(***************************************************************************)
EXTENDS Integers, Sequences, FiniteSets, SequencesExt


CONSTANTS Identifiers,  \* sentences the court may list
          Link,         \* identifier to the URL of its document
          Bytes,        \* contents, named by their digest
          Format,       \* content to what its bytes say: "pdf", "doc", "html"
          Listings,     \* bound: what the court may come to list
          FirstServed,  \* what the URLs may serve at first
          Passes,       \* processes that reconcile
          FetchAttempts,
          MaxServed,    \* bound: contents each URL serves, one after the other
          MaxLosses     \* bound: objects that disappear

ASSUME ReconciliationConstants ==
    /\ Identifiers \subseteq Nat /\ IsFiniteSet(Identifiers)
    /\ \A i \in Identifiers : Link[i] \in Nat
    /\ Format \in [Bytes -> {"pdf", "doc", "html"}] /\ "put" \notin Bytes
    /\ \A f \in FirstServed, i \in Identifiers : f[Link[i]] \in Bytes
    /\ FetchAttempts \in Nat \ {0} /\ MaxLosses \in Nat

VARIABLES listed,   \* identifiers the court lists
          served,   \* URL to what it has served, the present content last
          located,  \* official_url locations, the one seen last at the end
          objects,  \* stored objects: content and extension of the key
          losses,   \* objects lost so far
          pass      \* locals of each pass

reconciliationVars == <<listed, served, located, objects, losses, pass>>

Links == {Link[i] : i \in Identifiers}
AtRest == [phase |-> "idle", crawl |-> {}, snapshot |-> {}, todo |-> {},
           attempt |-> 1, got |-> {}, lost |-> FALSE, complete |-> FALSE]

ReconciliationInit ==
    /\ listed = {} /\ served \in {[u \in Links |-> <<f[u]>>] : f \in FirstServed}
    /\ located = <<>> /\ objects = {} /\ losses = 0
    /\ pass = [p \in Passes |-> AtRest]

-----------------------------------------------------------------------------
SourceLists(i) ==
    /\ i \notin listed /\ listed' = listed \cup {i}
    /\ \E l \in Listings : listed' \subseteq l
    /\ UNCHANGED <<served, located, objects, losses, pass>>

SourceServes(u, x) ==
    /\ Len(served[u]) < MaxServed[u] /\ x # Last(served[u])
    /\ served' = [served EXCEPT ![u] = Append(@, x)]
    /\ UNCHANGED <<listed, located, objects, losses, pass>>

(* What an acquiring pass has planned no longer tells what is stored.        *)
LoseObject(key) ==
    /\ losses < MaxLosses /\ losses' = losses + 1
    /\ key \in objects /\ objects' = objects \ {key}
    /\ pass' = [p \in Passes |-> [pass[p] EXCEPT !.lost = @ \/ pass[p].phase = "acquire"]]
    /\ UNCHANGED <<listed, served, located>>

-----------------------------------------------------------------------------
Local(p, state) == pass' = [pass EXCEPT ![p] = state]
ElsewhereSame == UNCHANGED <<listed, served, losses>>

(* crawl_tc_candidates: the listing, then each detail page in its order.     *)
BeginPass(p) ==
    /\ pass[p].phase = "idle" /\ listed # {}
    /\ Local(p, [AtRest EXCEPT !.phase = "crawl", !.crawl = listed])
    /\ ElsewhereSame /\ UNCHANGED <<located, objects>>

Smallest(S) == CHOOSE n \in S : \A m \in S : n <= m
Largest(S) == CHOOSE n \in S : \A m \in S : m <= n

ResolveDetail(p) ==
    /\ pass[p].phase = "crawl" /\ pass[p].crawl # {}
    /\ LET i == Smallest(pass[p].crawl) IN
       Local(p, [pass[p] EXCEPT !.crawl = @ \ {i}, !.snapshot = @ \cup {i}])
    /\ ElsewhereSame /\ UNCHANGED <<located, objects>>

(* observations_for: of the locations of an identifier at its URL, the one   *)
(* seen last.                                                                *)
Sightings(i) == {n \in DOMAIN located :
                    located[n].identifier = i /\ located[n].url = Link[i]}
Registered(i) == Sightings(i) # {}
Observed(i) == located[Largest(Sightings(i))].content

(* object_key_for, with the extension it has when none is given.             *)
StoredAsPdf(x) == <<x, "pdf">> \in objects

(* Mutant: what is registered is taken to be stored.                         *)
MissingStorageIgnored(snapshot) == {}

MissingRegistration(snapshot) == {i \in snapshot : ~Registered(i)}
MissingStorage(snapshot) ==
    {i \in snapshot : Registered(i) /\ ~StoredAsPdf(Observed(i))}

(* candidates_to_acquire: one identifier for each URL, the last one named.   *)
OneForEachUrl(unregistered, unstored) ==
    LET At(S, u) == {i \in S : Link[i] = u}
        Named(u) == IF At(unstored, u) # {} THEN At(unstored, u) ELSE At(unregistered, u)
    IN {Largest(Named(Link[i])) : i \in unregistered \cup unstored}

(* A pass that has lost an object may yet register it, so those that overlap *)
(* it plan from what may be lost as well ("lost" is no state of the code).   *)
SomeLoss == \E q \in Passes : pass[q].phase = "acquire" /\ pass[q].lost

PlanPass(p) ==
    /\ pass[p].phase = "crawl" /\ pass[p].crawl = {}
    /\ LET s == pass[p].snapshot IN
       Local(p, [pass[p] EXCEPT !.phase = "acquire", !.lost = SomeLoss,
                   !.todo = OneForEachUrl(MissingRegistration(s), MissingStorage(s))])
    /\ ElsewhereSame /\ UNCHANGED <<located, objects>>

-----------------------------------------------------------------------------
(* acquire_candidates, in the order of the URLs.                             *)
Acquiring(p) == pass[p].phase = "acquire" /\ pass[p].todo # {}
Target(p) == CHOOSE i \in pass[p].todo : \A j \in pass[p].todo : Link[i] <= Link[j]

Fetches(p, x) ==
    /\ Acquiring(p) /\ pass[p].got = {} /\ x = Last(served[Link[Target(p)]])
    /\ Local(p, IF Format[x] = "html" THEN AtRest ELSE [pass[p] EXCEPT !.got = {x}])
    /\ ElsewhereSame /\ UNCHANGED <<located, objects>>

(* A retryable status or a connection error; the last one is raised.         *)
FetchFails(p) ==
    /\ Acquiring(p) /\ pass[p].got = {}
    /\ Local(p, IF pass[p].attempt < FetchAttempts
                THEN [pass[p] EXCEPT !.attempt = @ + 1] ELSE AtRest)
    /\ ElsewhereSame /\ UNCHANGED <<located, objects>>

KeyOfBytes(x) == <<x, Format[x]>>

(* Head, then put; "put" stands for the object being there.                  *)
StoreDocument(p, x) ==
    /\ Acquiring(p) /\ pass[p].got = {x} /\ objects' = objects \cup {KeyOfBytes(x)}
    /\ \/ Local(p, [pass[p] EXCEPT !.got = {x, "put"}])
       \/ KeyOfBytes(x) \notin objects /\ Local(p, AtRest)
    /\ ElsewhereSame /\ UNCHANGED located

(* The one location of a content at a URL is updated, or inserted.           *)
SeenLast(row) ==
    LET Same == {n \in DOMAIN located : /\ located[n].content = row.content
                                        /\ located[n].url = row.url} IN
    \/ Same = {} /\ located' = Append(located, row)
    \/ \E n \in Same : located' = Append(RemoveAt(located, n), row)

(* The location of this content at this URL becomes this identifier's.       *)
RegisterDocument(p, x) ==
    /\ Acquiring(p) /\ pass[p].got = {x, "put"} /\ x # "put"
    /\ LET i == Target(p) IN
       /\ SeenLast([content |-> x, url |-> Link[i], identifier |-> i])
       /\ \/ Local(p, [pass[p] EXCEPT !.todo = @ \ {i}, !.got = {}, !.attempt = 1])
          \/ Local(p, AtRest)
    /\ ElsewhereSame /\ UNCHANGED objects

(* verify_source_completeness.                                               *)
Complete(snapshot) == MissingRegistration(snapshot) = {} /\
                      \A i \in snapshot : StoredAsPdf(Observed(i))

ReportPass(p) ==
    /\ pass[p].phase = "acquire" /\ pass[p].todo = {}
    /\ Local(p, [AtRest EXCEPT !.phase = "reported", !.snapshot = pass[p].snapshot,
                    !.lost = pass[p].lost, !.complete = Complete(pass[p].snapshot)])
    /\ ElsewhereSame /\ UNCHANGED <<located, objects>>

(* A report is read, or the pass dies.                                       *)
PassEnds(p) == /\ pass[p].phase # "idle" /\ Local(p, AtRest)
               /\ ElsewhereSame /\ UNCHANGED <<located, objects>>

ReconciliationNext ==
    \/ \E i \in Identifiers : SourceLists(i)
    \/ \E u \in Links, x \in Bytes : SourceServes(u, x)
    \/ \E key \in objects : LoseObject(key)
    \/ \E p \in Passes :
          \/ BeginPass(p) \/ ResolveDetail(p) \/ PlanPass(p) \/ FetchFails(p)
          \/ ReportPass(p) \/ PassEnds(p)
          \/ \E x \in Bytes : Fetches(p, x) \/ StoreDocument(p, x) \/ RegisterDocument(p, x)

-----------------------------------------------------------------------------
ReconciliationTypeOK ==
    /\ listed \subseteq Identifiers /\ losses \in 0 .. MaxLosses
    /\ served \in [Links -> Seq(Bytes)] /\ objects \subseteq Bytes \X {"pdf", "doc"}
    /\ located \in Seq([content : Bytes, url : Links, identifier : Identifiers])
    /\ \A p \in Passes : pass[p].phase \in {"idle", "crawl", "acquire", "reported"}

(* Passes overlap and die between storing and registering, and what was       *)
(* stored gets lost, yet a pass that comes to its report, no object having    *)
(* been lost while it, or passes overlapping one another up to it, acquired,  *)
(* finds complete every source whose URLs are not shared and have served PDFs *)
(* only, however it was left by the passes before; and one URL that never     *)
(* served a PDF keeps the report from being complete.                         *)
ReconciledIsComplete ==
    /\ ReconciliationTypeOK
    /\ \A p \in Passes :
           LET s == pass[p].snapshot
               Shared == \E i \in s, j \in listed : i # j /\ Link[i] = Link[j]
               Pdfs(i) == {x \in ToSet(served[Link[i]]) : Format[x] = "pdf"} IN
           pass[p].phase = "reported" /\ ~pass[p].lost =>
               /\ ~Shared /\ (\A i \in s : Pdfs(i) = ToSet(served[Link[i]])) => pass[p].complete
               /\ (\E i \in s : Pdfs(i) = {}) => ~pass[p].complete
=============================================================================
