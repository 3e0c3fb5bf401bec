------------------------ MODULE SourceInventoryProofs ------------------------
(***************************************************************************)
(* The inventories of a source and its reconciliation, for any records,    *)
(* years, objects, shards, passes and numbers of changes, failures and     *)
(* re-runs: what is published was once true of the source, and what a      *)
(* report says is true of the store.                                       *)
(***************************************************************************)
EXTENDS MCSourceCatalog, FiniteSetTheorems, SequenceTheorems,
        WellFoundedInduction, TLAPS

-----------------------------------------------------------------------------
(* Least and greatest numbers, counting without repetition.                 *)

LEMMA LeastNat ==
  ASSUME NEW S \in SUBSET Nat, S # {}
  PROVE  \E n \in S : \A m \in S : n <= m
<1> DEFINE R == OpToRel(<, Nat)
<1>1. IsWellFoundedOn(R, Nat)
  BY NatLessThanWellFounded
<1>2. R = {ss \in Nat \X Nat : ss[1] < ss[2]}
  BY DEF OpToRel
<1> HIDE DEF R
<1>3. PICK n \in S : \A m \in S : ~ (<<m, n>> \in R)
  BY <1>1, WFMin
<1>4. ASSUME NEW m \in S PROVE n <= m
  <2>1. m \in Nat /\ n \in Nat /\ ~ (<<m, n>> \in R)
    BY <1>3
  <2> QED
    BY <1>2, <2>1
<1> QED
  BY <1>4

(* A finite set of numbers has a greatest one: otherwise take one of the     *)
(* smallest sets that have none.                                            *)
LEMMA GreatestNat ==
  ASSUME NEW S \in SUBSET Nat, IsFiniteSet(S), S # {}
  PROVE  \E n \in S : \A m \in S : m <= n
<1> DEFINE Topless(T) == T # {} /\ ~ \E n \in T : \A m \in T : m <= n
           Sizes == {Cardinality(T) : T \in {U \in SUBSET S : Topless(U)}}
<1>1. Sizes \subseteq Nat
  BY FS_Subset, FS_CardinalityType
<1>2. ASSUME Topless(S) PROVE FALSE
  <2>1. Sizes # {}
    BY <1>2
  <2>2. PICK k \in Sizes : \A j \in Sizes : k <= j
    BY <1>1, <2>1, LeastNat
  <2>3. PICK T \in SUBSET S : Topless(T) /\ Cardinality(T) = k
    BY <2>2
  <2>4. PICK x \in T : TRUE
    BY <2>3
  <2> DEFINE U == T \ {x}
  <2>5. IsFiniteSet(T) /\ Cardinality(T) \in Nat
    BY FS_Subset, FS_CardinalityType
  <2>6. Cardinality(U) = k - 1
    BY <2>3, <2>4, <2>5, FS_RemoveElement
  <2>7. ~ Topless(U)
    <3>1. U \in SUBSET S
      BY <2>3
    <3>2. SUFFICES ASSUME Topless(U) PROVE FALSE
      OBVIOUS
    <3>3. Cardinality(U) \in Sizes
      BY <3>1, <3>2
    <3>4. k \in Nat /\ k <= Cardinality(U)
      BY <1>1, <2>2, <3>3
    <3> HIDE DEF U
    <3> QED
      BY <2>6, <3>4
  <2>8. CASE U = {}
    BY <2>3, <2>4, <2>8
  <2>9. CASE U # {}
    <3>1. PICK m \in U : \A n \in U : n <= m
      BY <2>7, <2>9
    <3>2. PICK top \in {m, x} : m <= top /\ x <= top
      BY <2>4, <3>1
    <3>3. top \in T /\ \A n \in T : n <= top
      BY <2>4, <3>1, <3>2
    <3> QED
      BY <2>3, <3>3
  <2> QED
    BY <2>8, <2>9
<1> QED
  BY <1>2

LEMMA LeastChosen ==
  ASSUME NEW S \in SUBSET Nat, S # {}
  PROVE  LET n == CHOOSE n \in S : \A m \in S : n <= m
         IN n \in S /\ \A m \in S : n <= m
BY LeastNat

LEMMA LargestOf ==
  ASSUME NEW S \in SUBSET Nat, IsFiniteSet(S), S # {}
  PROVE  Largest(S) \in S /\ \A m \in S : m <= Largest(S)
BY GreatestNat DEF Largest

(* As many images as elements, when no two elements share one.              *)
LEMMA SameSize ==
  ASSUME NEW S, NEW T, IsFiniteSet(T), NEW f \in [S -> T],
         \A x, y \in S : f[x] = f[y] => x = y, \A t \in T : \E x \in S : f[x] = t
  PROVE  IsFiniteSet(S) /\ Cardinality(S) = Cardinality(T)
<1>1. f \in Injection(S, T) /\ f \in Surjection(S, T)
  BY DEF Injection, Surjection, IsInjective
<1> QED
  BY <1>1, FS_Injection

LEMMA WholeSubset ==
  ASSUME NEW S, NEW T \in SUBSET S, IsFiniteSet(S), Cardinality(T) = Cardinality(S)
  PROVE  T = S
BY FS_Subset

LEMMA Inserted ==
  ASSUME NEW T, NEW s \in Seq(T), NEW at \in 1 .. Len(s) + 1, NEW e \in T
  PROVE  InsertAt(s, at, e) \in Seq(T) /\ Len(InsertAt(s, at, e)) = Len(s) + 1
<1>1. PICK k \in Nat : k = Len(s)
  OBVIOUS
<1>2. at \in 1 .. k + 1 /\ \A i \in 1 .. k : s[i] \in T
  BY <1>1
<1> DEFINE a == SubSeq(s, 1, at - 1)
           b == SubSeq(s, at, k)
           c == a \o <<e>>
<1>3. a \in Seq(T) /\ Len(a) = at - 1
  BY <1>2, SubSeqProperties
<1>4. b \in Seq(T) /\ Len(b) = k - at + 1
  BY <1>2, SubSeqProperties
<1> HIDE DEF a, b
<1>5. c \in Seq(T) /\ Len(c) = at
  BY <1>2, <1>3
<1> HIDE DEF c
<1>6. c \o b \in Seq(T) /\ Len(c \o b) = Len(c) + Len(b)
  BY <1>4, <1>5, ConcatProperties
<1>7. Len(c \o b) = k + 1
  BY <1>2, <1>4, <1>5, <1>6
<1>8. InsertAt(s, at, e) = c \o b
  BY <1>1 DEF InsertAt, a, b, c
<1> QED
  BY <1>1, <1>6, <1>7, <1>8

LEMMA Removed ==
  ASSUME NEW T, NEW s \in Seq(T), NEW at \in 1 .. Len(s)
  PROVE  /\ RemoveAt(s, at) \in Seq(T) /\ Len(RemoveAt(s, at)) = Len(s) - 1
         /\ \A n \in 1 .. Len(s) - 1 :
              RemoveAt(s, at)[n] = IF n < at THEN s[n] ELSE s[n + 1]
<1>1. PICK k \in Nat : k = Len(s)
  OBVIOUS
<1>2. at \in 1 .. k /\ \A i \in 1 .. k : s[i] \in T
  BY <1>1
<1> DEFINE a == SubSeq(s, 1, at - 1)
           b == SubSeq(s, at + 1, k)
<1>3. a \in Seq(T) /\ Len(a) = at - 1 /\ \A n \in 1 .. at - 1 : a[n] = s[n]
  BY <1>2, SubSeqProperties
<1>4. b \in Seq(T) /\ Len(b) = k - at /\ \A n \in 1 .. k - at : b[n] = s[at + n]
  <2>1. \A i \in at + 1 .. k : s[i] \in T
    BY <1>2
  <2>2. /\ b \in Seq(T) /\ Len(b) = IF at + 1 <= k THEN k - (at + 1) + 1 ELSE 0
        /\ \A n \in 1 .. k - (at + 1) + 1 : b[n] = s[at + 1 + n - 1]
    BY <1>2, <2>1, SubSeqProperties
  <2> HIDE DEF b
  <2> QED
    BY <1>2, <2>2
<1> HIDE DEF a, b
<1>5. /\ a \o b \in Seq(T) /\ Len(a \o b) = Len(a) + Len(b)
      /\ \A i \in 1 .. Len(a) + Len(b) :
           (a \o b)[i] = IF i <= Len(a) THEN a[i] ELSE b[i - Len(a)]
  BY <1>3, <1>4, ConcatProperties
<1>6. RemoveAt(s, at) = a \o b
  BY <1>1 DEF RemoveAt, a, b
<1> DEFINE c == a \o b
<1> HIDE DEF c
<1>7. Len(c) = k - 1
  BY <1>2, <1>3, <1>4, <1>5 DEF c
<1>8. ASSUME NEW n \in 1 .. k - 1 PROVE c[n] = IF n < at THEN s[n] ELSE s[n + 1]
  <2>1. c[n] = IF n <= at - 1 THEN a[n] ELSE b[n - (at - 1)]
    BY <1>2, <1>3, <1>4, <1>5 DEF c
  <2>2. CASE n < at
    BY <1>2, <1>3, <2>1, <2>2
  <2>3. CASE ~ (n < at)
    <3>1. n - (at - 1) \in 1 .. k - at /\ at + (n - (at - 1)) = n + 1
      BY <1>2, <2>3
    <3>2. b[n - (at - 1)] = s[n + 1]
      BY <1>4, <3>1
    <3>3. c[n] = b[n - (at - 1)]
      BY <1>2, <2>1, <2>3
    <3> QED
      BY <2>3, <3>2, <3>3
  <2> QED
    BY <2>2, <2>3
<1> QED
  BY <1>1, <1>5, <1>6, <1>7, <1>8 DEF c

-----------------------------------------------------------------------------
(* The page inventory.                                                      *)
PagePhases == {"idle", "plan", "count", "summary", "pages", "published", "ended"}
RowsOf(D) == [object : D, counted : BOOLEAN]
PageTypes ==
  /\ bucket \in SUBSET Decisions
  /\ plan \in [number : Nat, attempt : Nat, phase : PagePhases, next : 0 .. Directories + 1,
               listed : SUBSET Decisions, began : SUBSET Decisions]
  /\ counts \in [Shards -> [phase : {"waiting", "counting", "counted", "failed"},
                            todo : SUBSET (0 .. Directories - 1),
                            rows : SUBSET RowsOf(Decisions)]]
  /\ pages = [k \in DOMAIN pages |-> pages[k]]
  /\ DOMAIN pages \subseteq Nat \X Nat \X {"summary", "pages"}

(* Whoever counts does so after the whole plan was listed.                   *)
PlanInv ==
  /\ plan.listed \subseteq bucket /\ plan.began \subseteq bucket
  /\ \A o \in plan.began : Directory[o] < plan.next => o \in plan.listed
  /\ plan.phase = "plan" => plan.next <= Directories
  /\ plan.phase \in {"count", "summary", "pages", "published"} => plan.next > Directories

(* A job has one row for each object it found, all of them in directories of *)
(* its own it is done with, and has missed no object of the plan there: they *)
(* were stored before.                                                       *)
OnePerObject(rows) == \A r, q \in rows : r.object = q.object => r = q
CountInv(s) ==
  /\ counts[s].phase \in {"counting", "counted"} =>
       /\ plan.next > Directories /\ counts[s].todo \subseteq Buckets(s)
       /\ OnePerObject(counts[s].rows)
       /\ \A r \in counts[s].rows : Directory[r.object] \in Buckets(s) \ counts[s].todo
       /\ \A o \in plan.listed : Directory[o] \in Buckets(s) \ counts[s].todo =>
            o \in Objects(counts[s].rows)
  /\ counts[s].phase = "counted" => Objects(counts[s].rows) \subseteq plan.listed

Whole ==
  plan.phase \in {"summary", "pages", "published"} =>
    /\ \A s \in Shards : counts[s].phase = "counted"
    /\ Objects(AllCounted) = plan.listed

(* Files of this run are of attempts that have begun, and an attempt puts    *)
(* its summary before its pages.                                             *)
FilesInv ==
  /\ \A k \in DOMAIN pages : /\ k[1] <= plan.number
                             /\ k[1] = plan.number => k[2] <= plan.attempt
                             /\ plan.phase = "plan" => k[1] # plan.number
  /\ plan.phase \in {"count", "summary"} =>
       <<plan.number, plan.attempt, "pages">> \notin DOMAIN pages
  /\ plan.phase = "pages" =>
       /\ <<plan.number, plan.attempt, "summary">> \in DOMAIN pages
       /\ pages[<<plan.number, plan.attempt, "summary">>] = Summary(AllCounted)

PageInv == /\ PageTypes /\ PlanInv /\ (\A s \in Shards : CountInv(s)) /\ Whole
           /\ FilesInv /\ PagesAreOfThePlan
LEMMA RowsPerObject ==
  ASSUME NEW rows \in SUBSET RowsOf(Decisions), OnePerObject(rows)
  PROVE  Cardinality(Objects(rows)) = Cardinality(rows)
<1>1. Objects(rows) \in SUBSET Decisions
  BY DEF Objects, RowsOf
<1>2. IsFiniteSet(Objects(rows))
  BY <1>1, PageConstants, FS_Subset
<1> DEFINE f == [r \in rows |-> r.object]
<1>3. f \in [rows -> Objects(rows)]
  BY DEF Objects
<1>4. \A t \in Objects(rows) : \E r \in rows : f[r] = t
  BY DEF Objects
<1>5. \A r, q \in rows : f[r] = f[q] => r = q
  BY DEF OnePerObject
<1> HIDE DEF f
<1> QED
  BY <1>2, <1>3, <1>4, <1>5, SameSize

LEMMA BucketsApart ==
  ASSUME NEW s \in Shards, NEW t \in Shards, NEW d \in Buckets(s), d \in Buckets(t)
  PROVE  s = t
BY DEF Buckets

LEMMA NoPagesYet == PageInit => PageInv
<1> SUFFICES ASSUME PageInit PROVE PageInv
  OBVIOUS
<1>1. PageTypes
  BY PageConstants DEF PageInit, PageTypes, PagePhases, NotCounted
<1>2. PlanInv
  BY DEF PageInit, PlanInv
<1>3. \A s \in Shards : CountInv(s)
  BY DEF PageInit, CountInv, NotCounted
<1>4. Whole
  BY DEF PageInit, Whole
<1>5. FilesInv /\ PagesAreOfThePlan
  BY DEF PageInit, FilesInv, PagesAreOfThePlan
<1> QED
  BY <1>1, <1>2, <1>3, <1>4, <1>5 DEF PageInv

(* A job that finds as many objects as the plan has in its directories has   *)
(* found those.                                                             *)
LEMMA CountedIsPlanned ==
  ASSUME PageInv, NEW s \in Shards, counts[s].phase = "counting", counts[s].todo = {},
         SameCounts(counts[s].rows, In(Buckets(s), plan.listed))
  PROVE  Objects(counts[s].rows) = In(Buckets(s), plan.listed)
<1> DEFINE found == Objects(counts[s].rows)
           planned == In(Buckets(s), plan.listed)
<1>1. found \in SUBSET Decisions
  BY DEF PageInv, PageTypes, Objects, RowsOf
<1>2. planned \in SUBSET found
  BY DEF PageInv, CountInv, In
<1>3. Cardinality(planned) = Cardinality(found)
  BY DEF SameCounts
<1> HIDE DEF found, planned
<1>4. IsFiniteSet(found)
  BY <1>1, PageConstants, FS_Subset
<1>5. found = planned
  BY <1>2, <1>3, <1>4, WholeSubset
<1> QED
  BY <1>5 DEF found, planned

LEMMA AllCountedOnce ==
  ASSUME PageInv, \A s \in Shards : counts[s].phase = "counted"
  PROVE  /\ AllCounted \in SUBSET RowsOf(Decisions) /\ OnePerObject(AllCounted)
         /\ Objects(AllCounted) \in SUBSET plan.listed
<1>1. AllCounted \in SUBSET RowsOf(Decisions)
  BY DEF PageInv, PageTypes, AllCounted
<1>2. ASSUME NEW r \in AllCounted, NEW q \in AllCounted, r.object = q.object
      PROVE  r = q
  <2>1. PICK s \in Shards : r \in counts[s].rows
    BY DEF AllCounted
  <2>2. PICK t \in Shards : q \in counts[t].rows
    BY DEF AllCounted
  <2>3. Directory[r.object] \in Buckets(s) /\ Directory[q.object] \in Buckets(t)
    BY <2>1, <2>2 DEF PageInv, CountInv
  <2>4. s = t
    BY <1>2, <2>3, BucketsApart
  <2> QED
    BY <1>2, <2>1, <2>2, <2>4 DEF PageInv, CountInv, OnePerObject
<1>3. Objects(AllCounted) \in SUBSET plan.listed
  BY DEF PageInv, CountInv, AllCounted, Objects
<1> QED
  BY <1>1, <1>2, <1>3 DEF OnePerObject

-----------------------------------------------------------------------------
LEMMA AddDecisionKeeps ==
  ASSUME PageInv, NEW o \in Decisions, AddDecision(o) PROVE PageInv'
<1> USE DEF AddDecision
<1>1. PageTypes'
  BY DEF PageInv, PageTypes
<1>2. PlanInv'
  BY DEF PageInv, PlanInv
<1>3. (\A s \in Shards : CountInv(s))'
  BY DEF PageInv, CountInv
<1>4. Whole' /\ FilesInv' /\ PagesAreOfThePlan'
  BY DEF PageInv, Whole, FilesInv, PagesAreOfThePlan, AllCounted
<1> QED
  BY <1>1, <1>2, <1>3, <1>4 DEF PageInv

LEMMA DispatchPagesKeeps == ASSUME PageInv, DispatchPages PROVE PageInv'
<1> USE DEF DispatchPages
<1>1. PageTypes'
  BY PageConstants DEF PageInv, PageTypes, PagePhases, NotCounted
<1>2. PlanInv'
  BY PageConstants DEF PageInv, PlanInv, PageTypes
<1>3. (\A s \in Shards : CountInv(s))'
  BY DEF PageInv, CountInv, NotCounted
<1>4. Whole'
  BY DEF Whole
<1>5. FilesInv'
  BY DEF PageInv, PageTypes, FilesInv
<1>6. PagesAreOfThePlan'
  <2>1. \A k \in DOMAIN pages : k[1] # plan'.number
    BY DEF PageInv, PageTypes, FilesInv
  <2> QED
    BY <2>1 DEF PageInv, PagesAreOfThePlan
<1> QED
  BY <1>1, <1>2, <1>3, <1>4, <1>5, <1>6 DEF PageInv

LEMMA PlanPageKeeps == ASSUME PageInv, PlanPage PROVE PageInv'
<1> USE DEF PlanPage
<1>0. plan.next \in 0 .. Directories /\ Directories \in Nat
  BY PageConstants DEF PageInv, PageTypes, PlanInv
<1>1. PageTypes'
  <2>1. plan.next + 1 \in 0 .. Directories + 1
    BY <1>0
  <2>2. plan.listed \cup In({plan.next}, bucket) \in SUBSET Decisions
    BY DEF PageInv, PageTypes, In
  <2>3. (IF plan.next = Directories THEN "count" ELSE "plan") \in PagePhases
    BY DEF PagePhases
  <2> QED
    BY <2>1, <2>2, <2>3 DEF PageInv, PageTypes
<1>2. PlanInv'
  <2>1. plan'.listed \subseteq bucket /\ plan'.began \subseteq bucket
    BY DEF PageInv, PageTypes, PlanInv, In
  <2>2. ASSUME NEW o \in plan'.began, Directory[o] < plan'.next PROVE o \in plan'.listed
    <3>1. o \in plan.began /\ o \in bucket /\ Directory[o] \in 0 .. Directories
      BY PageConstants DEF PageInv, PageTypes, PlanInv
    <3>2. Directory[o] < plan.next \/ Directory[o] = plan.next
      BY <1>0, <2>2, <3>1 DEF PageInv, PageTypes
    <3> QED
      BY <3>1, <3>2 DEF PageInv, PageTypes, PlanInv, In
  <2>3. plan'.phase = (IF plan.next = Directories THEN "count" ELSE "plan")
        /\ plan'.next = plan.next + 1
    BY DEF PageInv, PageTypes
  <2> QED
    BY <1>0, <2>1, <2>2, <2>3 DEF PlanInv
<1>3. (\A s \in Shards : CountInv(s))'
  BY <1>0 DEF PageInv, CountInv
<1>4. Whole'
  BY DEF PageInv, PageTypes, Whole
<1>5. FilesInv'
  BY DEF PageInv, PageTypes, FilesInv
<1>6. PagesAreOfThePlan'
  BY DEF PageInv, PageTypes, FilesInv, PagesAreOfThePlan
<1> QED
  BY <1>1, <1>2, <1>3, <1>4, <1>5, <1>6 DEF PageInv

(* The plan stays what it is while its phase moves on.                       *)
LEMMA PhaseMoves ==
  ASSUME PageInv, NEW phase \in PagePhases, plan' = [plan EXCEPT !.phase = phase],
         UNCHANGED <<bucket, counts>>, phase \notin {"plan", "count"},
         phase \in {"summary", "pages", "published"} => plan.phase = "count" \/
            plan.phase \in {"summary", "pages", "published"}
  PROVE  /\ plan' \in [number : Nat, attempt : Nat, phase : PagePhases,
                       next : 0 .. Directories + 1,
                       listed : SUBSET Decisions, began : SUBSET Decisions]
         /\ PlanInv' /\ (\A s \in Shards : CountInv(s))' /\ AllCounted' = AllCounted
<1>1. PlanInv'
  BY DEF PageInv, PageTypes, PlanInv
<1>2. (\A s \in Shards : CountInv(s))'
  BY DEF PageInv, PageTypes, CountInv
<1> QED
  BY <1>1, <1>2 DEF PageInv, PageTypes, AllCounted

LEMMA PlanFailsKeeps == ASSUME PageInv, PlanFails PROVE PageInv'
<1> USE DEF PlanFails
<1>1. PlanInv' /\ (\A s \in Shards : CountInv(s))' /\ AllCounted' = AllCounted
  BY PhaseMoves DEF PagePhases
<1>2. PageTypes'
  BY DEF PageInv, PageTypes, PagePhases
<1>3. Whole' /\ FilesInv' /\ PagesAreOfThePlan'
  BY <1>1 DEF PageInv, PageTypes, Whole, FilesInv, PagesAreOfThePlan
<1> QED
  BY <1>1, <1>2, <1>3 DEF PageInv
-----------------------------------------------------------------------------
(* A job's step leaves the plan, the files and the other jobs alone.         *)
JobStates == [phase : {"waiting", "counting", "counted", "failed"},
              todo : SUBSET (0 .. Directories - 1), rows : SUBSET RowsOf(Decisions)]

LEMMA JobKeeps ==
  ASSUME PageInv, NEW s \in Shards, NEW job \in JobStates, Job(s, job), CountInv(s)'
  PROVE  PageInv'
<1> USE DEF Job
<1>1. PageTypes'
  BY DEF PageInv, PageTypes, JobStates
<1>2. PlanInv'
  BY DEF PageInv, PlanInv
<1>3. ASSUME NEW t \in Shards PROVE CountInv(t)'
  <2>1. CASE t = s
    BY <2>1
  <2>2. CASE t # s
    <3>1. counts'[t] = counts[t]
      BY <2>2 DEF PageInv, PageTypes
    <3> QED
      BY <3>1 DEF PageInv, CountInv
  <2> QED
    BY <2>1, <2>2
<1>4. Whole' /\ FilesInv' /\ PagesAreOfThePlan'
  BY DEF PageInv, Whole, FilesInv, PagesAreOfThePlan
<1> QED
  BY <1>1, <1>2, <1>3, <1>4 DEF PageInv

LEMMA BeginCountKeeps ==
  ASSUME PageInv, NEW s \in Shards, BeginCount(s) PROVE PageInv'
<1> DEFINE job == [phase |-> "counting", todo |-> Buckets(s), rows |-> {}]
<1>1. Job(s, job) /\ job \in JobStates
  BY DEF BeginCount, JobStates, Buckets
<1>2. counts'[s] = job /\ plan' = plan /\ plan.phase = "count"
  BY <1>1 DEF Job, PageInv, PageTypes
<1>3. CountInv(s)'
  BY <1>2 DEF PageInv, PlanInv, CountInv, OnePerObject
<1> QED
  BY <1>1, <1>3, JobKeeps

LEMMA CountFailsKeeps ==
  ASSUME PageInv, NEW s \in Shards, CountFails(s) PROVE PageInv'
<1> DEFINE job == [NotCounted EXCEPT !.phase = "failed"]
<1>1. Job(s, job) /\ job \in JobStates
  BY DEF CountFails, JobStates, NotCounted
<1>2. counts'[s].phase = "failed"
  BY <1>1 DEF Job, PageInv, PageTypes, NotCounted
<1>3. CountInv(s)'
  BY <1>2 DEF CountInv
<1> QED
  BY <1>1, <1>3, JobKeeps

LEMMA EndCountKeeps ==
  ASSUME PageInv, NEW s \in Shards, EndCount(s) PROVE PageInv'
<1> DEFINE same == SameCounts(counts[s].rows, In(Buckets(s), plan.listed))
           job == [counts[s] EXCEPT !.phase = IF same THEN "counted" ELSE "failed"]
<1>1. Job(s, job) /\ counts[s].phase = "counting" /\ counts[s].todo = {}
  BY DEF EndCount
<1>2. same => Objects(counts[s].rows) = In(Buckets(s), plan.listed)
  BY <1>1, CountedIsPlanned
<1> HIDE DEF same
<1>3. job \in JobStates
  BY DEF PageInv, PageTypes, JobStates
<1>4. counts'[s] = job /\ plan' = plan
  BY <1>1 DEF Job, PageInv, PageTypes
<1>5. /\ job.phase = (IF same THEN "counted" ELSE "failed")
      /\ job.todo = counts[s].todo /\ job.rows = counts[s].rows
  BY DEF PageInv, PageTypes
<1> HIDE DEF job
<1>6. CountInv(s)'
  BY <1>1, <1>2, <1>4, <1>5 DEF PageInv, CountInv, In
<1> QED
  BY <1>1, <1>3, <1>6, JobKeeps

LEMMA CountDirectoryKeeps ==
  ASSUME PageInv, NEW s \in Shards, NEW unread \in SUBSET Pdf, CountDirectory(s, unread)
  PROVE  PageInv'
<1> DEFINE d == CHOOSE n \in counts[s].todo : \A m \in counts[s].todo : n <= m
           found == In({d}, bucket)
           rows == {[object |-> o, counted |-> o \in Pdf \ unread] : o \in found}
           job == [counts[s] EXCEPT !.todo = @ \ {d}, !.rows = @ \cup rows]
<1>1. /\ Job(s, job) /\ counts[s].phase = "counting" /\ counts[s].todo # {}
      /\ plan.phase = "count"
  BY DEF CountDirectory, Job
<1>2. counts[s] \in JobStates /\ counts[s].todo \in SUBSET Nat
  BY PageConstants DEF PageInv, PageTypes, JobStates
<1>3. d \in counts[s].todo
  BY <1>1, <1>2, LeastChosen
<1> HIDE DEF d
<1>4. found \in SUBSET Decisions /\ \A o \in found : Directory[o] = d
  BY DEF PageInv, PageTypes, In
<1>5. rows \in SUBSET RowsOf(Decisions)
  <2> DEFINE flag(o) == o \in Pdf \ unread
  <2>1. \A o \in found : flag(o) \in BOOLEAN
    OBVIOUS
  <2> HIDE DEF flag
  <2>2. {[object |-> o, counted |-> flag(o)] : o \in found} \in SUBSET RowsOf(Decisions)
    BY <1>4, <2>1 DEF RowsOf
  <2> QED
    BY <2>2 DEF flag
<1>6. job \in JobStates
  BY <1>2, <1>5 DEF JobStates
<1>7. counts'[s] = job /\ plan' = plan
  BY <1>1 DEF Job, PageInv, PageTypes
<1>8. /\ job.phase = "counting" /\ job.todo = counts[s].todo \ {d}
      /\ job.rows = counts[s].rows \cup rows
  BY <1>1, <1>2 DEF JobStates
<1>9. Objects(job.rows) = Objects(counts[s].rows) \cup found
  <2>1. Objects(rows) = found
    <3>1. \A r \in rows : r.object \in found
      OBVIOUS
    <3>2. ASSUME NEW o \in found PROVE \E r \in rows : r.object = o
      <4>1. PICK r \in rows : r = [object |-> o, counted |-> o \in Pdf \ unread]
        BY Zenon
      <4> QED
        BY <4>1
    <3> HIDE DEF rows
    <3> QED
      BY <3>1, <3>2 DEF Objects
  <2> HIDE DEF rows
  <2> QED
    BY <1>8, <2>1 DEF Objects
<1>10. /\ plan.next > Directories /\ counts[s].todo \subseteq Buckets(s)
       /\ OnePerObject(counts[s].rows)
       /\ \A r \in counts[s].rows : Directory[r.object] \in Buckets(s) \ counts[s].todo
       /\ \A o \in plan.listed : Directory[o] \in Buckets(s) \ counts[s].todo =>
            o \in Objects(counts[s].rows)
  BY <1>1 DEF PageInv, CountInv
<1>11. d \in Buckets(s)
  BY <1>1, <1>3 DEF PageInv, CountInv
<1>12. \A r \in rows : Directory[r.object] = d
  BY <1>4
<1>13. \A r, q \in rows : r.object = q.object => r = q
  OBVIOUS
<1> HIDE DEF rows, job
<1>14. OnePerObject(job.rows)
  BY <1>3, <1>8, <1>10, <1>12, <1>13 DEF OnePerObject
<1>15. \A r \in job.rows : Directory[r.object] \in Buckets(s) \ job.todo
  BY <1>3, <1>8, <1>10, <1>11, <1>12
<1>16. \A o \in plan.listed : Directory[o] \in Buckets(s) \ job.todo =>
         o \in Objects(job.rows)
  BY <1>8, <1>9, <1>10 DEF PageInv, PlanInv, In
<1>17. CountInv(s)'
  BY <1>7, <1>8, <1>10, <1>14, <1>15, <1>16 DEF CountInv
<1> QED
  BY <1>1, <1>6, <1>17, JobKeeps

-----------------------------------------------------------------------------
LEMMA AggregateKeeps == ASSUME PageInv, Aggregate PROVE PageInv'
<1> DEFINE ok == (\A s \in Shards : counts[s].phase = "counted")
                 /\ WholePlan(AllCounted, plan.listed)
<1>1. /\ plan.phase = "count" /\ UNCHANGED <<bucket, counts, pages>>
      /\ plan' = [plan EXCEPT !.phase = IF ok THEN "summary" ELSE "ended"]
  BY DEF Aggregate
<1>2. ok => Objects(AllCounted) = plan.listed
  <2>1. SUFFICES ASSUME ok PROVE Objects(AllCounted) = plan.listed
    OBVIOUS
  <2>2. Objects(AllCounted) \in SUBSET plan.listed
    BY <2>1, AllCountedOnce
  <2>3. IsFiniteSet(plan.listed)
    BY PageConstants, FS_Subset DEF PageInv, PageTypes
  <2>4. Cardinality(Objects(AllCounted)) = Cardinality(plan.listed)
    BY <2>1 DEF WholePlan, SameCounts
  <2> QED
    BY <2>2, <2>3, <2>4, WholeSubset
<1>3. ok => \A s \in Shards : counts[s].phase = "counted"
  OBVIOUS
<1> HIDE DEF ok
<1>4. (IF ok THEN "summary" ELSE "ended") \in PagePhases
  BY DEF PagePhases
<1>5. /\ plan' \in [number : Nat, attempt : Nat, phase : PagePhases,
                    next : 0 .. Directories + 1,
                    listed : SUBSET Decisions, began : SUBSET Decisions]
      /\ PlanInv' /\ (\A s \in Shards : CountInv(s))' /\ AllCounted' = AllCounted
  BY <1>1, <1>4, PhaseMoves
<1>6. PageTypes'
  BY <1>1, <1>5 DEF PageInv, PageTypes
<1>7. plan'.phase = (IF ok THEN "summary" ELSE "ended") /\ plan'.listed = plan.listed
      /\ plan'.number = plan.number /\ plan'.attempt = plan.attempt
      /\ plan'.began = plan.began
  BY <1>1 DEF PageInv, PageTypes
<1>8. Whole'
  BY <1>1, <1>2, <1>3, <1>5, <1>7 DEF Whole
<1>9. FilesInv' /\ PagesAreOfThePlan'
  BY <1>1, <1>7 DEF PageInv, FilesInv, PagesAreOfThePlan
<1> QED
  BY <1>5, <1>6, <1>8, <1>9 DEF PageInv

LEMMA RerunKeeps == ASSUME PageInv, RerunFailedJobs PROVE PageInv'
<1> USE DEF RerunFailedJobs
<1>1. PageTypes'
  <2>1. NotCounted \in JobStates
    BY DEF NotCounted, JobStates
  <2>2. counts' \in [Shards -> JobStates]
    BY <2>1 DEF PageInv, PageTypes, JobStates
  <2>3. "count" \in PagePhases
    BY DEF PagePhases
  <2>4. plan' \in [number : Nat, attempt : Nat, phase : PagePhases,
                  next : 0 .. Directories + 1,
                  listed : SUBSET Decisions, began : SUBSET Decisions]
    <3>1. plan.attempt + 1 \in Nat
      BY DEF PageInv, PageTypes
    <3> QED
      BY <2>3, <3>1 DEF PageInv, PageTypes
  <2> QED
    BY <2>2, <2>3, <2>4 DEF PageInv, PageTypes, JobStates
<1>2. PlanInv'
  BY DEF PageInv, PageTypes, PlanInv
<1>3. /\ plan'.phase = "count" /\ plan'.listed = plan.listed /\ plan'.next = plan.next
      /\ plan'.number = plan.number /\ plan'.attempt = plan.attempt + 1
      /\ plan'.began = plan.began
  BY DEF PageInv, PageTypes
<1>4. (\A s \in Shards : CountInv(s))'
  BY <1>3 DEF PageInv, CountInv, NotCounted
<1>5. Whole'
  BY <1>3 DEF Whole
<1>6. FilesInv'
  BY <1>3 DEF PageInv, PageTypes, FilesInv
<1>7. PagesAreOfThePlan'
  BY <1>3 DEF PageInv, PagesAreOfThePlan
<1> QED
  BY <1>1, <1>2, <1>4, <1>5, <1>6, <1>7 DEF PageInv

(* What a put does to the plan and to what was published.                    *)
LEMMA Put ==
  ASSUME PageInv, NEW name \in {"summary", "pages"}, NEW content,
         NEW then \in {"pages", "published", "ended"}, PutFile(name, content, then)
  PROVE  LET k == <<plan.number, plan.attempt, name>> IN
         /\ plan.phase = name /\ k \in Nat \X Nat \X {"summary", "pages"}
         /\ DOMAIN pages' = DOMAIN pages \cup {k} /\ pages'[k] = content
         /\ \A q \in DOMAIN pages : q # k => pages'[q] = pages[q]
         /\ PageTypes' /\ PlanInv' /\ (\A s \in Shards : CountInv(s))' /\ Whole'
         /\ AllCounted' = AllCounted /\ plan'.phase = then
         /\ plan'.listed = plan.listed /\ plan'.began = plan.began
         /\ plan'.number = plan.number /\ plan'.attempt = plan.attempt
<1> DEFINE k == <<plan.number, plan.attempt, name>>
<1>1. /\ plan.phase = name /\ UNCHANGED <<bucket, counts>>
      /\ plan' = [plan EXCEPT !.phase = then]
      /\ pages' = [q \in DOMAIN pages \cup {k} |-> IF q = k THEN content ELSE pages[q]]
  BY DEF PutFile
<1>2. k \in Nat \X Nat \X {"summary", "pages"}
  BY DEF PageInv, PageTypes
<1>3. /\ plan' \in [number : Nat, attempt : Nat, phase : PagePhases,
                    next : 0 .. Directories + 1,
                    listed : SUBSET Decisions, began : SUBSET Decisions]
      /\ PlanInv' /\ (\A s \in Shards : CountInv(s))' /\ AllCounted' = AllCounted
  BY <1>1, PhaseMoves DEF PagePhases
<1>4. plan'.phase = then /\ plan'.listed = plan.listed /\ plan'.began = plan.began
      /\ plan'.number = plan.number /\ plan'.attempt = plan.attempt
  BY <1>1 DEF PageInv, PageTypes
<1>5. Whole'
  BY <1>1, <1>3, <1>4 DEF PageInv, Whole
<1> HIDE DEF k
<1>6. /\ DOMAIN pages' = DOMAIN pages \cup {k} /\ pages'[k] = content
      /\ \A q \in DOMAIN pages : q # k => pages'[q] = pages[q]
  BY <1>1
<1>7. pages' = [q \in DOMAIN pages' |-> pages'[q]]
  BY <1>1
<1>8. PageTypes'
  BY <1>1, <1>2, <1>3, <1>6, <1>7 DEF PageInv, PageTypes
<1> QED
  BY <1>1, <1>2, <1>3, <1>4, <1>5, <1>6, <1>8 DEF k

LEMMA PublishSummaryKeeps == ASSUME PageInv, PublishSummary PROVE PageInv'
<1>1. PICK then \in {"pages", "ended"} : PutFile("summary", Summary(AllCounted), then)
  BY DEF PublishSummary
<1> DEFINE k == <<plan.number, plan.attempt, "summary">>
           key == <<plan.number, plan.attempt, "pages">>
<1>2. /\ plan.phase = "summary" /\ k \in Nat \X Nat \X {"summary", "pages"}
      /\ DOMAIN pages' = DOMAIN pages \cup {k} /\ pages'[k] = Summary(AllCounted)
      /\ \A q \in DOMAIN pages : q # k => pages'[q] = pages[q]
      /\ PageTypes' /\ PlanInv' /\ (\A s \in Shards : CountInv(s))' /\ Whole'
      /\ AllCounted' = AllCounted /\ plan'.phase = then
      /\ plan'.listed = plan.listed /\ plan'.began = plan.began
      /\ plan'.number = plan.number /\ plan'.attempt = plan.attempt
  BY <1>1, Put
<1>3. key \notin DOMAIN pages
  BY <1>2 DEF PageInv, FilesInv
<1>4. Summary(AllCounted)' = Summary(AllCounted)
  BY <1>2 DEF Summary
<1>5. FilesInv'
  <2>1. \A q \in DOMAIN pages' : q[1] <= plan.number
                                 /\ (q[1] = plan.number => q[2] <= plan.attempt)
    BY <1>2 DEF PageInv, PageTypes, FilesInv
  <2> QED
    BY <1>1, <1>2, <1>4, <2>1 DEF FilesInv
<1>6. PagesAreOfThePlan'
  <2>1. SUFFICES ASSUME NEW q \in DOMAIN pages', q[3] = "pages"
        PROVE  /\ <<q[1], q[2], "summary">> \in DOMAIN pages'
               /\ pages'[<<q[1], q[2], "summary">>] = Summary(pages'[q])
               /\ Cardinality(Objects(pages'[q])) = Cardinality(pages'[q])
               /\ q[1] = plan'.number => /\ Objects(pages'[q]) = plan'.listed
                                         /\ plan'.began \subseteq Objects(pages'[q])
    BY DEF PagesAreOfThePlan, Summary
  <2>2. q \in DOMAIN pages /\ q # k /\ pages'[q] = pages[q]
    BY <1>2, <2>1
  <2>3. q = <<q[1], q[2], "pages">>
    BY <2>1, <2>2 DEF PageInv, PageTypes
  <2>4. <<q[1], q[2], "summary">> # k
    BY <1>3, <2>2, <2>3
  <2> QED
    BY <1>2, <2>1, <2>2, <2>4 DEF PageInv, PagesAreOfThePlan
<1> QED
  BY <1>2, <1>5, <1>6 DEF PageInv

LEMMA PublishPagesKeeps == ASSUME PageInv, PublishPages PROVE PageInv'
<1>1. PICK then \in {"published", "ended"} : PutFile("pages", AllCounted, then)
  BY DEF PublishPages
<1> DEFINE k == <<plan.number, plan.attempt, "pages">>
           summary == <<plan.number, plan.attempt, "summary">>
<1>2. /\ plan.phase = "pages" /\ k \in Nat \X Nat \X {"summary", "pages"}
      /\ DOMAIN pages' = DOMAIN pages \cup {k} /\ pages'[k] = AllCounted
      /\ \A q \in DOMAIN pages : q # k => pages'[q] = pages[q]
      /\ PageTypes' /\ PlanInv' /\ (\A s \in Shards : CountInv(s))' /\ Whole'
      /\ AllCounted' = AllCounted /\ plan'.phase = then
      /\ plan'.listed = plan.listed /\ plan'.began = plan.began
      /\ plan'.number = plan.number /\ plan'.attempt = plan.attempt
  BY <1>1, Put
<1>3. summary \in DOMAIN pages /\ pages[summary] = Summary(AllCounted)
  BY <1>2 DEF PageInv, FilesInv
<1>4. FilesInv'
  <2>1. \A q \in DOMAIN pages' : q[1] <= plan.number
                                 /\ (q[1] = plan.number => q[2] <= plan.attempt)
    BY <1>2 DEF PageInv, PageTypes, FilesInv
  <2> QED
    BY <1>1, <1>2, <2>1 DEF FilesInv
<1>5. /\ (\A s \in Shards : counts[s].phase = "counted")
      /\ Objects(AllCounted) = plan.listed
  BY <1>2 DEF PageInv, Whole
<1>6. plan.began \subseteq plan.listed
  <2>1. \A o \in plan.began : Directory[o] \in 0 .. Directories
    BY PageConstants DEF PageInv, PageTypes
  <2>2. plan.next \in Nat /\ plan.next > Directories /\ Directories \in Nat
    BY <1>2, PageConstants DEF PageInv, PageTypes, PlanInv
  <2>3. \A o \in plan.began : Directory[o] < plan.next
    BY <2>1, <2>2
  <2> QED
    BY <2>3 DEF PageInv, PlanInv
<1>7. Cardinality(Objects(AllCounted)) = Cardinality(AllCounted)
  BY <1>5, AllCountedOnce, RowsPerObject
<1>8. PagesAreOfThePlan'
  <2>1. SUFFICES ASSUME NEW q \in DOMAIN pages', q[3] = "pages"
        PROVE  /\ <<q[1], q[2], "summary">> \in DOMAIN pages'
               /\ pages'[<<q[1], q[2], "summary">>] = Summary(pages'[q])
               /\ Cardinality(Objects(pages'[q])) = Cardinality(pages'[q])
               /\ q[1] = plan'.number => /\ Objects(pages'[q]) = plan'.listed
                                         /\ plan'.began \subseteq Objects(pages'[q])
    BY DEF PagesAreOfThePlan, Summary
  <2>2. CASE q = k
    BY <1>2, <1>3, <1>5, <1>6, <1>7, <2>2
  <2>3. CASE q # k
    <3>1. q \in DOMAIN pages /\ pages'[q] = pages[q] /\ <<q[1], q[2], "summary">> # k
      BY <1>2, <2>3
    <3> QED
      BY <1>2, <2>1, <3>1 DEF PageInv, PagesAreOfThePlan
  <2> QED
    BY <2>2, <2>3
<1> QED
  BY <1>2, <1>4, <1>8 DEF PageInv

LEMMA PageStep == ASSUME PageInv, [PageNext]_pageVars PROVE PageInv'
<1>1. ASSUME UNCHANGED pageVars PROVE PageInv'
  <2>1. PageTypes' /\ PlanInv' /\ (\A s \in Shards : CountInv(s))'
    BY <1>1 DEF PageInv, PageTypes, PlanInv, CountInv, pageVars
  <2>2. AllCounted' = AllCounted
    BY <1>1 DEF AllCounted, pageVars
  <2>3. Whole' /\ FilesInv' /\ PagesAreOfThePlan'
    BY <1>1, <2>2 DEF PageInv, Whole, FilesInv, PagesAreOfThePlan, Summary, pageVars
  <2> QED
    BY <2>1, <2>3 DEF PageInv
<1>2. ASSUME PageNext PROVE PageInv'
  BY <1>2, AddDecisionKeeps, DispatchPagesKeeps, PlanPageKeeps, PlanFailsKeeps,
     BeginCountKeeps, CountDirectoryKeeps, EndCountKeeps, CountFailsKeeps,
     AggregateKeeps, RerunKeeps, PublishSummaryKeeps, PublishPagesKeeps
     DEF PageNext
<1> QED
  BY <1>1, <1>2

-----------------------------------------------------------------------------
(* The portal's inventory.                                                  *)
Records == UNION {Published[y] : y \in Years}
Lines == Nat \X Nat
Names == {"summary", "source", "acquisition", "no-locator", "duplicates"}
YearStates == [phase : {"waiting", "reading", "read", "failed"}, total : Nat, page : Nat,
               rows : SUBSET Lines, began : SUBSET Lines,
               grown : BOOLEAN, shrunk : BOOLEAN]
Certificates == [years : SUBSET Lines, source : SUBSET Lines]
InventoryStates ==
  [number : Nat, file : 1 .. 6, ahead : SUBSET Years, active : SUBSET Years,
   phase : {"idle", "discover", "read", "certified", "persisted", "failed"},
   certified : Certificates]
PortalTypes ==
  /\ listing \in [Years -> Seq(Records)] /\ drift \in 0 .. MaxDrift
  /\ inventory \in InventoryStates /\ shards \in [Years -> YearStates]
  /\ snapshots = [k \in DOMAIN snapshots |-> snapshots[k]]
  /\ DOMAIN snapshots \subseteq (SUBSET Lines) \X Names

(* As long as a year has only grown, or only shrunk, since its reading began, *)
(* its length tells whether it is still what it was, and every page that was  *)
(* accepted was read when it still was.                                      *)
Steady(y) == ~(shards[y].grown /\ shards[y].shrunk)
YearBegan(y) ==
  /\ \A r \in shards[y].began : r[1] \in 1 .. shards[y].total
  /\ \A r, q \in shards[y].began : r[1] = q[1] => r = q
YearInv(y) ==
  /\ shards[y].phase = "reading" =>
       /\ YearBegan(y)
       /\ ~shards[y].shrunk => Len(listing[y]) >= shards[y].total
       /\ ~shards[y].grown => Len(listing[y]) <= shards[y].total
       /\ Steady(y) /\ SameTotal(y) => AllRows(y) = shards[y].began
       /\ Steady(y) => shards[y].rows \subseteq shards[y].began
  /\ shards[y].phase = "read" /\ Steady(y) => Captured(y) = shards[y].began

(* The summary that is under a prefix says what may be under it.             *)
CertifiedUnder(p) == [years |-> snapshots[<<p, "summary">>][1],
                      source |-> snapshots[<<p, "summary">>][2]]
SnapshotsInv ==
  \A k \in DOMAIN snapshots :
    /\ <<k[1], "summary">> \in DOMAIN snapshots
    /\ Prefix(CertifiedUnder(k[1])) = k[1]
    /\ snapshots[k] = Content(CertifiedUnder(k[1]), k[2])

(* A run has put, or found, all files before the one it is at.               *)
OnePerRecord(rows) == \A r, q \in rows : r[2] = q[2] => r = q
RunInv ==
  /\ OnePerRecord(inventory.certified.source)
  /\ inventory.phase \in {"idle", "discover", "read"} => inventory.file = 1
  /\ inventory.phase = "certified" => inventory.file <= 5
  /\ inventory.phase = "persisted" => inventory.file = 6
  /\ inventory.phase \in {"certified", "persisted"} =>
       \A i \in 1 .. 5 : i < inventory.file => Holds(inventory.certified, Files[i])

PortalInv == /\ PortalTypes /\ (\A y \in Years : YearInv(y))
             /\ SnapshotsInv /\ RunInv
-----------------------------------------------------------------------------
LEMMA NoInventoryYet == PortalInit => PortalInv
<1> SUFFICES ASSUME PortalInit PROVE PortalInv
  OBVIOUS
<1>1. PortalTypes
  <2>1. Waiting \in YearStates
    BY DEF Waiting, YearStates
  <2>2. inventory \in InventoryStates
    BY DEF PortalInit, InventoryStates, Uncertified, Certificates
  <2>3. listing \in [Years -> Seq(Records)]
    <3>1. {<<>>} \subseteq Seq(Records)
      OBVIOUS
    <3>2. listing \in [Years -> {<<>>}]
      BY DEF PortalInit
    <3> QED
      BY <3>1, <3>2
  <2>4. DOMAIN snapshots = {} /\ snapshots = [k \in DOMAIN snapshots |-> snapshots[k]]
    BY DEF PortalInit
  <2> QED
    BY <2>1, <2>2, <2>3, <2>4, PortalBounds DEF PortalInit, PortalTypes
<1>2. \A y \in Years : YearInv(y)
  BY DEF PortalInit, YearInv, Waiting
<1>3. SnapshotsInv
  BY DEF PortalInit, SnapshotsInv
<1>4. RunInv
  BY DEF PortalInit, RunInv, OnePerRecord, Uncertified
<1> QED
  BY <1>1, <1>2, <1>3, <1>4 DEF PortalInv

LEMMA LinesOfYear ==
  ASSUME PortalTypes, NEW y \in Years
  PROVE  AllRows(y) \in SUBSET Lines
<1>1. Records \subseteq Nat
  BY PortalRecords DEF Records
<1>2. PICK s \in Seq(Records) : s = listing[y]
  BY DEF PortalTypes
<1>3. \A n \in DOMAIN s : n \in Nat /\ s[n] \in Records
  OBVIOUS
<1>4. \A n \in DOMAIN s : <<n, s[n]>> \in Nat \X Nat
  BY <1>1, <1>3
<1>5. AllRows(y) = {<<n, s[n]>> : n \in DOMAIN s}
  BY <1>2 DEF AllRows
<1> QED
  BY <1>4, <1>5 DEF Lines

(* The steps of the run and the store leave the years alone.                 *)
LEMMA YearsKept ==
  ASSUME PortalInv, UNCHANGED <<listing, shards>>, NEW y \in Years PROVE YearInv(y)'
BY DEF PortalInv, YearInv, Steady, YearBegan, SameTotal, AllRows, Captured

(* The portal, and reading it, leave the run and the store alone.            *)
LEMMA RunKept ==
  ASSUME PortalInv, UNCHANGED <<inventory, snapshots>> PROVE SnapshotsInv' /\ RunInv'
<1>1. \A p : CertifiedUnder(p)' = CertifiedUnder(p)
  BY DEF CertifiedUnder
<1>2. SnapshotsInv'
  <2>1. \A p : Prefix(CertifiedUnder(p))' = Prefix(CertifiedUnder(p))
    BY DEF CertifiedUnder, Prefix, Acquisition, WithLocator, Url
  <2>2. \A p, name : Content(CertifiedUnder(p), name)' = Content(CertifiedUnder(p), name)
    BY DEF CertifiedUnder, Content, Acquisition, WithLocator, Url
  <2>3. SUFFICES ASSUME NEW k \in DOMAIN snapshots'
        PROVE  /\ <<k[1], "summary">> \in DOMAIN snapshots'
               /\ Prefix(CertifiedUnder(k[1]))' = k[1]
               /\ snapshots'[k] = Content(CertifiedUnder(k[1]), k[2])'
    BY DEF SnapshotsInv
  <2>4. /\ <<k[1], "summary">> \in DOMAIN snapshots
        /\ Prefix(CertifiedUnder(k[1])) = k[1]
        /\ snapshots[k] = Content(CertifiedUnder(k[1]), k[2])
    BY <2>3 DEF PortalInv, SnapshotsInv
  <2> QED
    BY <2>1, <2>2, <2>4
<1>3. \A name : Holds(inventory.certified, name)' <=> Holds(inventory.certified, name)
  BY DEF Holds, Stored
<1>4. RunInv'
  BY <1>3 DEF PortalInv, RunInv
<1> QED
  BY <1>2, <1>4

LEMMA DriftsKeeps ==
  ASSUME PortalInv, NEW y \in Years, NEW rows \in Seq(Records), NEW grows \in BOOLEAN,
         Drifts(y, rows, grows),
         Len(rows) = IF grows THEN Len(listing[y]) + 1 ELSE Len(listing[y]) - 1
  PROVE  PortalInv'
<1> DEFINE grown == shards[y].grown \/ grows
           shrunk == shards[y].shrunk \/ ~grows
<1>1. /\ drift < MaxDrift /\ drift' = drift + 1 /\ UNCHANGED <<inventory, snapshots>>
      /\ listing' = [listing EXCEPT ![y] = rows]
      /\ shards' = [shards EXCEPT ![y].grown = grown, ![y].shrunk = shrunk]
  BY Zenon DEF Drifts
<1>a. grown \in BOOLEAN /\ shrunk \in BOOLEAN
  OBVIOUS
<1> HIDE DEF grown, shrunk
<1>2. /\ listing' \in [Years -> Seq(Records)] /\ listing'[y] = rows
      /\ \A z \in Years : z # y => listing'[z] = listing[z] /\ shards'[z] = shards[z]
  BY <1>1 DEF PortalInv, PortalTypes
<1>3. /\ shards'[y].phase = shards[y].phase /\ shards'[y].total = shards[y].total
      /\ shards'[y].page = shards[y].page /\ shards'[y].rows = shards[y].rows
      /\ shards'[y].began = shards[y].began
      /\ shards'[y].grown = grown /\ shards'[y].shrunk = shrunk
  BY <1>1 DEF PortalInv, PortalTypes, YearStates
<1>4. shards'[y].grown = (shards[y].grown \/ grows)
      /\ shards'[y].shrunk = (shards[y].shrunk \/ ~grows)
  BY <1>3, Zenon DEF grown, shrunk
<1>5. shards' \in [Years -> YearStates]
  <2> DEFINE next == [shards[y] EXCEPT !.grown = grown, !.shrunk = shrunk]
  <2>1. next \in YearStates
    BY <1>a DEF PortalInv, PortalTypes, YearStates
  <2>2. shards' = [shards EXCEPT ![y] = next]
    BY <1>1 DEF PortalInv, PortalTypes, YearStates
  <2> HIDE DEF next
  <2> QED
    BY <2>1, <2>2 DEF PortalInv, PortalTypes
<1>6. PortalTypes'
  BY <1>1, <1>2, <1>5, PortalBounds DEF PortalInv, PortalTypes
<1>7. YearInv(y)'
  <2>1. Len(listing[y]) \in Nat /\ shards[y].total \in Nat
    BY DEF PortalInv, PortalTypes, YearStates
  <2>2. ASSUME shards'[y].phase = "reading"
        PROVE  /\ YearBegan(y)'
               /\ ~shards'[y].shrunk => Len(listing'[y]) >= shards'[y].total
               /\ ~shards'[y].grown => Len(listing'[y]) <= shards'[y].total
               /\ Steady(y)' => Len(listing'[y]) # shards'[y].total
               /\ Steady(y)' => shards'[y].rows \subseteq shards'[y].began
    <3>1. /\ YearBegan(y)
          /\ ~shards[y].shrunk => Len(listing[y]) >= shards[y].total
          /\ ~shards[y].grown => Len(listing[y]) <= shards[y].total
          /\ Steady(y) => shards[y].rows \subseteq shards[y].began
      BY <1>3, <2>2 DEF PortalInv, YearInv
    <3>2. YearBegan(y)'
      BY <1>3, <3>1 DEF YearBegan
    <3>3. ~shards'[y].shrunk => grows /\ ~shards[y].shrunk
      BY <1>4
    <3>4. ~shards'[y].grown => ~grows /\ ~shards[y].grown
      BY <1>4
    <3>5. Steady(y)' => Steady(y)
      BY <1>4 DEF Steady
    <3>6. /\ ~shards'[y].shrunk => Len(listing'[y]) > shards[y].total
          /\ ~shards'[y].grown => Len(listing'[y]) < shards[y].total
      BY <1>2, <2>1, <3>1, <3>3, <3>4
    <3>7. Len(listing'[y]) \in Nat
      BY <1>2
    <3>8. Steady(y)' => Len(listing'[y]) # shards'[y].total
      BY <1>3, <2>1, <3>6, <3>7 DEF Steady
    <3> QED
      BY <1>3, <2>1, <3>1, <3>2, <3>5, <3>6, <3>7, <3>8
  <2>3. shards'[y].phase = "read" /\ Steady(y)' => Captured(y)' = shards'[y].began
    BY <1>3, <1>4 DEF PortalInv, YearInv, Steady, Captured
  <2> QED
    BY <2>2, <2>3 DEF YearInv, SameTotal
<1>8. \A z \in Years : YearInv(z)'
  <2>1. SUFFICES ASSUME NEW z \in Years, z # y PROVE YearInv(z)'
    BY <1>7
  <2> QED
    BY <1>2, <2>1 DEF PortalInv, YearInv, Steady, YearBegan, SameTotal, AllRows, Captured
<1> QED
  BY <1>1, <1>6, <1>8, RunKept DEF PortalInv

LEMMA PublishKeeps ==
  ASSUME PortalInv, NEW y \in Years, NEW at, NEW r \in Published[y], Publish(y, r, at)
  PROVE  PortalInv'
<1>1. r \in Records /\ listing[y] \in Seq(Records)
  BY DEF Records, PortalInv, PortalTypes
<1>2. at \in 1 .. Len(listing[y]) + 1 /\ Drifts(y, InsertAt(listing[y], at, r), TRUE)
  BY DEF Publish
<1>3. /\ InsertAt(listing[y], at, r) \in Seq(Records)
      /\ Len(InsertAt(listing[y], at, r)) = Len(listing[y]) + 1
  BY <1>1, <1>2, Inserted
<1> QED
  BY <1>2, <1>3, DriftsKeeps

LEMMA WithdrawKeeps ==
  ASSUME PortalInv, NEW y \in Years, NEW at, Withdraw(y, at) PROVE PortalInv'
<1>1. listing[y] \in Seq(Records)
  BY DEF PortalInv, PortalTypes
<1>2. at \in 1 .. Len(listing[y]) /\ Drifts(y, RemoveAt(listing[y], at), FALSE)
  <2>1. at \in DOMAIN listing[y] /\ Drifts(y, RemoveAt(listing[y], at), FALSE)
    BY DEF Withdraw
  <2>2. DOMAIN listing[y] = 1 .. Len(listing[y])
    BY <1>1
  <2> QED
    BY <2>1, <2>2
<1>3. /\ RemoveAt(listing[y], at) \in Seq(Records)
      /\ Len(RemoveAt(listing[y], at)) = Len(listing[y]) - 1
  BY <1>1, <1>2, Removed
<1> QED
  BY <1>2, <1>3, DriftsKeeps

-----------------------------------------------------------------------------
LEMMA ShardKeeps ==
  ASSUME PortalInv, NEW y \in Years, NEW s \in YearStates, Shard(y, s), YearInv(y)'
  PROVE  PortalInv'
<1>1. shards' \in [Years -> YearStates] /\ \A z \in Years : z # y => shards'[z] = shards[z]
  BY DEF PortalInv, PortalTypes, Shard
<1>2. PortalTypes'
  BY <1>1 DEF PortalInv, PortalTypes, Shard
<1>3. \A z \in Years : YearInv(z)'
  BY <1>1 DEF PortalInv, Shard, YearInv, Steady, YearBegan, SameTotal, AllRows, Captured
<1> QED
  BY <1>2, <1>3, RunKept DEF PortalInv, Shard

LEMMA BeginYearKeeps ==
  ASSUME PortalInv, NEW y \in Years, BeginYear(y) PROVE PortalInv'
<1> DEFINE phase == IF listing[y] = <<>> THEN "read" ELSE "reading"
           total == Len(listing[y])
           s == [Waiting EXCEPT !.phase = phase, !.total = total, !.began = AllRows(y)]
<1>1. Shard(y, s)
  BY DEF BeginYear
<1>2. PICK rows \in Seq(Records) : rows = listing[y]
  BY DEF PortalInv, PortalTypes
<1>3. total \in Nat /\ DOMAIN rows = 1 .. total
  BY <1>2
<1>4. phase \in {"read", "reading"} /\ (phase = "read" => AllRows(y) = {})
  BY DEF AllRows
<1>5. AllRows(y) \in SUBSET Lines
  BY LinesOfYear DEF PortalInv
<1>6. total = Len(listing[y])
  OBVIOUS
<1> HIDE DEF phase, total
<1>7. /\ Waiting \in YearStates /\ Waiting.rows = {}
      /\ ~Waiting.grown /\ ~Waiting.shrunk
  BY DEF Waiting, YearStates
<1>8. s \in YearStates
  BY <1>3, <1>4, <1>5, <1>7 DEF YearStates
<1>9. /\ s.phase = phase /\ s.total = total /\ s.rows = {} /\ s.began = AllRows(y)
      /\ ~s.grown /\ ~s.shrunk
  BY <1>7 DEF YearStates
<1> HIDE DEF s
<1>10. shards'[y] = s /\ listing' = listing
  BY <1>1 DEF Shard, PortalInv, PortalTypes
<1>11. YearBegan(y)'
  <2>1. AllRows(y) = {<<n, rows[n]>> : n \in 1 .. total}
    BY <1>2, <1>3 DEF AllRows
  <2>2. /\ \A r \in AllRows(y) : r[1] \in 1 .. total
        /\ \A r, q \in AllRows(y) : r[1] = q[1] => r = q
    BY <2>1
  <2> QED
    BY <1>9, <1>10, <2>2 DEF YearBegan
<1>12. AllRows(y)' = AllRows(y) /\ Captured(y)' = {}
  BY <1>9, <1>10 DEF AllRows, Captured
<1>13. total <= total
  BY <1>3
<1>14. YearInv(y)'
  BY <1>4, <1>6, <1>9, <1>10, <1>11, <1>12, <1>13 DEF YearInv
<1> QED
  BY <1>1, <1>8, <1>14, ShardKeeps

(* As many lines as the year had, all of them of that year, are the year.    *)
LEMMA CoveringIsAll ==
  ASSUME NEW total \in Nat, NEW began \in SUBSET Lines, NEW rows \in SUBSET began,
         \A r \in began : r[1] \in 1 .. total,
         \A r, q \in began : r[1] = q[1] => r = q,
         CoversTotal(rows, total)
  PROVE  rows = began
<1> DEFINE lines == {r[1] : r \in rows}
<1>1. lines \in SUBSET (1 .. total)
  OBVIOUS
<1>2. IsFiniteSet(1 .. total) /\ Cardinality(1 .. total) = total
  BY FS_Interval
<1>3. Cardinality(lines) = total
  BY DEF CoversTotal
<1> HIDE DEF lines
<1>4. lines = 1 .. total
  BY <1>1, <1>2, <1>3, WholeSubset
<1>5. ASSUME NEW b \in began PROVE b \in rows
  <2>1. b[1] \in lines
    BY <1>4
  <2>2. PICK r \in rows : r[1] = b[1]
    BY <2>1 DEF lines
  <2> QED
    BY <2>2
<1> QED
  BY <1>5

LEMMA FetchPageKeeps ==
  ASSUME PortalInv, NEW y \in Years, FetchPage(y) PROVE PortalInv'
<1> DEFINE s == shards[y]
           page == Rows(y, s.page)
           rows == s.rows \cup page
           good == SameTotal(y) /\ page # {}
           last == (s.page + 1) * PageSize >= s.total
           phase == IF good /\ ~last THEN "reading"
                    ELSE IF good /\ CoversTotal(rows, s.total) THEN "read" ELSE "failed"
           next == [s EXCEPT !.page = @ + 1, !.rows = rows, !.phase = phase]
<1>1. Shard(y, next) /\ s.phase = "reading"
  BY DEF FetchPage
<1>2. s \in YearStates /\ page \in SUBSET AllRows(y) /\ page \in SUBSET Lines
  BY LinesOfYear DEF PortalInv, PortalTypes, Rows
<1>3. phase \in {"reading", "read", "failed"}
      /\ (phase = "reading" => SameTotal(y))
      /\ (phase = "read" => SameTotal(y) /\ CoversTotal(rows, s.total))
  OBVIOUS
<1> HIDE DEF phase
<1>a. rows \in SUBSET Lines /\ s.page + 1 \in Nat
  BY <1>2 DEF YearStates
<1>b. page \subseteq AllRows(y) /\ rows = s.rows \cup page
  BY <1>2
<1> HIDE DEF rows, page, s
<1>4. /\ next.phase = phase /\ next.rows = rows /\ next.total = s.total
      /\ next.began = s.began /\ next \in YearStates
  BY <1>2, <1>3, <1>a DEF YearStates
<1>5. next.grown = s.grown /\ next.shrunk = s.shrunk
  BY <1>2 DEF YearStates
<1>6. shards'[y] = next /\ listing' = listing
  BY <1>1 DEF Shard, PortalInv, PortalTypes
<1> HIDE DEF next
<1> USE DEF s
<1>7. /\ YearBegan(y)
      /\ ~shards[y].shrunk => Len(listing[y]) >= shards[y].total
      /\ ~shards[y].grown => Len(listing[y]) <= shards[y].total
      /\ Steady(y) /\ SameTotal(y) => AllRows(y) = shards[y].began
      /\ Steady(y) => shards[y].rows \subseteq shards[y].began
  BY <1>1 DEF PortalInv, YearInv
<1>8. YearBegan(y)' /\ (Steady(y)' <=> Steady(y)) /\ (SameTotal(y)' <=> SameTotal(y))
      /\ AllRows(y)' = AllRows(y) /\ Captured(y)' = rows
  BY <1>4, <1>5, <1>6, <1>7 DEF YearBegan, Steady, SameTotal, AllRows, Captured
<1>9. phase \in {"reading", "read"} /\ Steady(y) => rows \subseteq s.began
  BY <1>3, <1>7, <1>b
<1>10. phase = "read" /\ Steady(y) => rows = s.began
  <2>1. s.total \in Nat /\ s.began \in SUBSET Lines
    BY <1>2 DEF YearStates
  <2>2. SUFFICES ASSUME phase = "read", Steady(y) PROVE rows = s.began
    OBVIOUS
  <2>3. rows \in SUBSET s.began /\ CoversTotal(rows, s.total)
    BY <1>3, <1>9, <2>2
  <2>4. /\ \A r \in s.began : r[1] \in 1 .. s.total
        /\ \A r, q \in s.began : r[1] = q[1] => r = q
    BY <1>7 DEF YearBegan
  <2> HIDE DEF s
  <2> QED
    BY <2>1, <2>3, <2>4, CoveringIsAll
<1>11. YearInv(y)'
  BY <1>3, <1>4, <1>5, <1>6, <1>7, <1>8, <1>9, <1>10 DEF YearInv
<1> QED
  BY <1>1, <1>4, <1>11, ShardKeeps DEF next

-----------------------------------------------------------------------------
LEMMA FilesAre ==
  /\ DOMAIN Files = 1 .. 5 /\ Len(Files) = 5 /\ Files[1] = "summary"
  /\ \A i \in 1 .. 5 : Files[i] \in Names
  /\ \A i \in 1 .. 5 : i # 1 => Files[i] # "summary"
BY DEF Files, Names

LEMMA StoreKept == ASSUME PortalInv, UNCHANGED snapshots PROVE SnapshotsInv'
<1>1. \A p : CertifiedUnder(p)' = CertifiedUnder(p)
  BY DEF CertifiedUnder
<1>2. \A p : Prefix(CertifiedUnder(p))' = Prefix(CertifiedUnder(p))
  BY DEF CertifiedUnder, Prefix, Acquisition, WithLocator, Url
<1>3. \A p, name : Content(CertifiedUnder(p), name)' = Content(CertifiedUnder(p), name)
  BY DEF CertifiedUnder, Content, Acquisition, WithLocator, Url
<1>4. SUFFICES ASSUME NEW k \in DOMAIN snapshots'
      PROVE  /\ <<k[1], "summary">> \in DOMAIN snapshots'
             /\ Prefix(CertifiedUnder(k[1]))' = k[1]
             /\ snapshots'[k] = Content(CertifiedUnder(k[1]), k[2])'
  BY DEF SnapshotsInv
<1>5. /\ <<k[1], "summary">> \in DOMAIN snapshots
      /\ Prefix(CertifiedUnder(k[1])) = k[1]
      /\ snapshots[k] = Content(CertifiedUnder(k[1]), k[2])
  BY <1>4 DEF PortalInv, SnapshotsInv
<1> QED
  BY <1>2, <1>3, <1>5

(* A run that only moves to another phase.                                   *)
LEMMA MovesKeeps ==
  ASSUME PortalInv, NEW p \in {"failed", "read"}, p = "read" => inventory.file = 1,
         Moves(p), UNCHANGED <<listing, drift, shards, snapshots>>
  PROVE  PortalInv'
<1>1. /\ inventory' \in InventoryStates /\ inventory'.phase = p
      /\ inventory'.file = inventory.file /\ inventory'.certified = inventory.certified
  BY DEF Moves, PortalInv, PortalTypes, InventoryStates
<1>2. PortalTypes'
  BY <1>1 DEF PortalInv, PortalTypes
<1>3. RunInv'
  BY <1>1 DEF PortalInv, RunInv
<1> QED
  BY <1>2, <1>3, YearsKept, StoreKept DEF PortalInv

LEMMA DispatchInventoryKeeps == ASSUME PortalInv, DispatchInventory PROVE PortalInv'
<1>1. /\ inventory' = [number |-> inventory.number + 1, phase |-> "discover",
                       ahead |-> Years, active |-> {}, certified |-> Uncertified,
                       file |-> 1]
      /\ shards' = [y \in Years |-> Waiting]
      /\ UNCHANGED <<listing, drift, snapshots>>
  BY DEF DispatchInventory
<1>2. inventory.number + 1 \in Nat
  BY DEF PortalInv, PortalTypes, InventoryStates
<1>3. inventory' \in InventoryStates
  BY <1>1, <1>2 DEF InventoryStates, Uncertified, Certificates
<1>4. Waiting \in YearStates /\ Waiting.phase = "waiting"
  BY DEF Waiting, YearStates
<1>5. shards' \in [Years -> YearStates] /\ \A y \in Years : shards'[y].phase = "waiting"
  BY <1>1, <1>4
<1>6. PortalTypes'
  BY <1>1, <1>3, <1>5 DEF PortalInv, PortalTypes
<1>7. \A y \in Years : YearInv(y)'
  BY <1>5 DEF YearInv
<1>8. inventory'.certified.source = {} /\ inventory'.phase = "discover" /\ inventory'.file = 1
  BY <1>1 DEF Uncertified
<1>9. RunInv'
  BY <1>8 DEF RunInv, OnePerRecord
<1> QED
  BY <1>1, <1>6, <1>7, <1>9, StoreKept DEF PortalInv

LEMMA DiscoverYearKeeps == ASSUME PortalInv, DiscoverYear PROVE PortalInv'
<1>1. PICK y \in inventory.ahead :
        inventory' = [inventory EXCEPT !.ahead = @ \ {y},
                        !.active = @ \cup IF listing[y] # <<>> THEN {y} ELSE {}]
  <2> DEFINE y == CHOOSE y \in inventory.ahead : \A z \in inventory.ahead : y <= z
  <2>1. inventory.ahead # {} /\ inventory.ahead \in SUBSET Nat
    BY PortalBounds DEF DiscoverYear, PortalInv, PortalTypes, InventoryStates
  <2>2. y \in inventory.ahead
    BY <2>1, LeastChosen
  <2> QED
    BY <2>2 DEF DiscoverYear
<1>2. UNCHANGED <<listing, drift, shards, snapshots>> /\ inventory.phase = "discover"
  BY DEF DiscoverYear, InPhase
<1> DEFINE more == IF listing[y] # <<>> THEN {y} ELSE {}
<1>3. more \in SUBSET Years
  BY DEF PortalInv, PortalTypes, InventoryStates
<1> HIDE DEF more
<1>4. inventory' = [inventory EXCEPT !.ahead = @ \ {y}, !.active = @ \cup more]
  BY <1>1 DEF more
<1>5. /\ inventory' \in InventoryStates /\ inventory'.phase = "discover"
      /\ inventory'.file = inventory.file /\ inventory'.certified = inventory.certified
  BY <1>2, <1>3, <1>4 DEF PortalInv, PortalTypes, InventoryStates
<1>6. PortalTypes'
  BY <1>2, <1>5 DEF PortalInv, PortalTypes
<1>7. RunInv'
  BY <1>2, <1>5 DEF PortalInv, RunInv
<1> QED
  BY <1>2, <1>6, <1>7, YearsKept, StoreKept DEF PortalInv

LEMMA YearsDiscoveredKeeps == ASSUME PortalInv, YearsDiscovered PROVE PortalInv'
<1>1. PICK p \in {"failed", "read"} : Moves(p)
  BY DEF YearsDiscovered
<1>2. inventory.file = 1
  BY DEF YearsDiscovered, InPhase, PortalInv, RunInv
<1> QED
  BY <1>1, <1>2, MovesKeeps DEF YearsDiscovered

(* The first row of a record is one row.                                     *)
LEMMA MergedOnce ==
  ASSUME NEW rows \in SUBSET Lines
  PROVE  Merged(rows) \in SUBSET Lines /\ OnePerRecord(Merged(rows))
<1>1. Merged(rows) \in SUBSET Lines
  BY DEF Merged
<1>2. ASSUME NEW r \in Merged(rows), NEW q \in Merged(rows), r[2] = q[2] PROVE r = q
  <2>1. r \in rows /\ q \in rows /\ r[1] <= q[1] /\ q[1] <= r[1]
    BY <1>2 DEF Merged
  <2>2. r[1] \in Nat /\ q[1] \in Nat /\ r = <<r[1], r[2]>> /\ q = <<q[1], q[2]>>
    BY <2>1 DEF Lines
  <2>3. r[1] = q[1]
    BY <2>1, <2>2
  <2> QED
    BY <1>2, <2>2, <2>3
<1> QED
  BY <1>1, <1>2 DEF OnePerRecord

LEMMA CertifyKeeps == ASSUME PortalInv, Certify PROVE PortalInv'
<1> DEFINE merged == Merged(UNION {Captured(y) : y \in inventory.active})
           years == {<<y, shards[y].total>> : y \in inventory.active}
           c == [years |-> years, source |-> merged]
<1>1. UNCHANGED <<listing, drift, shards, snapshots>> /\ inventory.phase = "read"
      /\ \/ inventory' = [inventory EXCEPT !.phase = "certified", !.certified = c]
         \/ Moves("failed")
  BY DEF Certify, InPhase
<1>2. inventory.active \in SUBSET Years /\ inventory.file = 1
  BY <1>1 DEF PortalInv, PortalTypes, InventoryStates, RunInv
<1>3. (UNION {Captured(y) : y \in inventory.active}) \in SUBSET Lines
  BY <1>2 DEF Captured, PortalInv, PortalTypes, YearStates
<1>4. merged \in SUBSET Lines /\ OnePerRecord(merged)
  BY <1>3, MergedOnce
<1>5. years \in SUBSET Lines
  <2>1. \A y \in inventory.active : y \in Nat /\ shards[y].total \in Nat
    BY <1>2, PortalBounds DEF PortalInv, PortalTypes, YearStates
  <2> QED
    BY <2>1 DEF Lines
<1> HIDE DEF merged, years
<1>6. c \in Certificates /\ c.source = merged
  BY <1>4, <1>5 DEF Certificates
<1> HIDE DEF c
<1>7. CASE inventory' = [inventory EXCEPT !.phase = "certified", !.certified = c]
  <2>1. /\ inventory' \in InventoryStates /\ inventory'.phase = "certified"
        /\ inventory'.file = 1 /\ inventory'.certified = c
    BY <1>2, <1>6, <1>7 DEF PortalInv, PortalTypes, InventoryStates
  <2>2. PortalTypes'
    BY <1>1, <2>1 DEF PortalInv, PortalTypes
  <2>3. RunInv'
    BY <1>4, <1>6, <2>1 DEF RunInv
  <2> QED
    BY <1>1, <2>2, <2>3, YearsKept, StoreKept DEF PortalInv
<1>8. CASE Moves("failed")
  BY <1>1, <1>8, MovesKeeps
<1> QED
  BY <1>1, <1>7, <1>8

(* A put adds one file, of the certification its prefix is of.               *)
LEMMA PersistedKeeps ==
  ASSUME PortalInv, NEW c \in Certificates, NEW name \in Names, ~Stored(c, name),
         name = "summary" \/ Holds(c, "summary"),
         snapshots' = Persisted(<<Prefix(c), name>>, Content(c, name))
  PROVE  /\ SnapshotsInv' /\ Holds(c, name)'
         /\ \A n \in Names : Holds(c, n) => Holds(c, n)'
         /\ snapshots' = [k \in DOMAIN snapshots' |-> snapshots'[k]]
         /\ DOMAIN snapshots' \subseteq (SUBSET Lines) \X Names
<1> DEFINE new == <<Prefix(c), name>>
           content == Content(c, name)
<1>1. /\ new \notin DOMAIN snapshots /\ DOMAIN snapshots' = DOMAIN snapshots \cup {new}
      /\ snapshots'[new] = content
      /\ \A k \in DOMAIN snapshots : snapshots'[k] = snapshots[k]
      /\ snapshots' = [k \in DOMAIN snapshots' |-> snapshots'[k]]
  <2>1. new \notin DOMAIN snapshots
    BY DEF Stored
  <2>2. snapshots' = [q \in DOMAIN snapshots \cup {new} |->
                        IF q = new THEN content ELSE snapshots[q]]
    BY DEF Persisted
  <2> HIDE DEF new, content
  <2> QED
    BY <2>1, <2>2
<1>2. Prefix(c) \in SUBSET Lines
  BY DEF Prefix, Acquisition, WithLocator, Certificates
<1>3. Holds(c, name)' /\ \A n \in Names : Holds(c, n) => Holds(c, n)'
  BY <1>1 DEF Holds, Stored
<1>4. Content(c, "summary")[1] = c.years /\ Content(c, "summary")[2] = c.source
  BY DEF Content
<1>5. Holds(c, "summary")'
  BY <1>3 DEF Names
<1>6. CertifiedUnder(Prefix(c))' = c
  <2>1. snapshots'[<<Prefix(c), "summary">>] = Content(c, "summary")
    BY <1>5 DEF Holds
  <2>2. CertifiedUnder(Prefix(c))' = [years |-> c.years, source |-> c.source]
    BY <1>4, <2>1 DEF CertifiedUnder
  <2> QED
    BY <2>2 DEF Certificates
<1>7. ASSUME NEW k \in DOMAIN snapshots', k[1] = Prefix(c)
      PROVE  /\ <<k[1], "summary">> \in DOMAIN snapshots'
             /\ Prefix(CertifiedUnder(k[1])') = k[1]
             /\ snapshots'[k] = Content(CertifiedUnder(k[1])', k[2])
  <2>1. <<k[1], "summary">> \in DOMAIN snapshots'
    BY <1>5, <1>7 DEF Holds, Stored
  <2>2. CASE k = new
    BY <1>1, <1>6, <1>7, <2>1, <2>2
  <2>3. CASE k # new
    <3>1. k \in DOMAIN snapshots
      BY <1>1, <2>3
    <3>2. /\ <<k[1], "summary">> \in DOMAIN snapshots
          /\ snapshots[k] = Content(CertifiedUnder(k[1]), k[2])
      BY <3>1 DEF PortalInv, SnapshotsInv
    <3>3. CertifiedUnder(k[1]) = CertifiedUnder(k[1])'
      BY <1>1, <3>2 DEF CertifiedUnder
    <3> QED
      BY <1>1, <1>6, <1>7, <2>1, <3>1, <3>2, <3>3
  <2> QED
    BY <2>2, <2>3
<1>8. ASSUME NEW k \in DOMAIN snapshots', k[1] # Prefix(c)
      PROVE  /\ <<k[1], "summary">> \in DOMAIN snapshots'
             /\ Prefix(CertifiedUnder(k[1])') = k[1]
             /\ snapshots'[k] = Content(CertifiedUnder(k[1])', k[2])
  <2>1. k \in DOMAIN snapshots
    BY <1>1, <1>8
  <2>2. /\ <<k[1], "summary">> \in DOMAIN snapshots
        /\ Prefix(CertifiedUnder(k[1])) = k[1]
        /\ snapshots[k] = Content(CertifiedUnder(k[1]), k[2])
    BY <2>1 DEF PortalInv, SnapshotsInv
  <2>3. CertifiedUnder(k[1]) = CertifiedUnder(k[1])'
    BY <1>1, <2>2 DEF CertifiedUnder
  <2> QED
    BY <1>1, <2>1, <2>2, <2>3
<1>9. \A k : /\ Prefix(CertifiedUnder(k[1]))' = Prefix(CertifiedUnder(k[1])')
             /\ Content(CertifiedUnder(k[1]), k[2])' = Content(CertifiedUnder(k[1])', k[2])
  BY DEF Prefix, Content, Acquisition, WithLocator, Url
<1>10. SnapshotsInv'
  <2>1. SUFFICES ASSUME NEW k \in DOMAIN snapshots'
        PROVE  /\ <<k[1], "summary">> \in DOMAIN snapshots'
               /\ Prefix(CertifiedUnder(k[1]))' = k[1]
               /\ snapshots'[k] = Content(CertifiedUnder(k[1]), k[2])'
    BY DEF SnapshotsInv
  <2> QED
    BY <1>7, <1>8, <1>9
<1>11. DOMAIN snapshots' \subseteq (SUBSET Lines) \X Names
  <2>1. new \in (SUBSET Lines) \X Names
    BY <1>2
  <2>2. DOMAIN snapshots \subseteq (SUBSET Lines) \X Names
    BY DEF PortalInv, PortalTypes
  <2> HIDE DEF new
  <2> QED
    BY <1>1, <2>1, <2>2
<1> QED
  BY <1>1, <1>3, <1>10, <1>11

LEMMA PersistFileKeeps == ASSUME PortalInv, PersistFile PROVE PortalInv'
<1>1. PICK c \in Certificates : c = inventory.certified
  BY DEF PortalInv, PortalTypes, InventoryStates
<1>2. PICK n \in 1 .. 5 : n = inventory.file
  BY DEF PersistFile, InPhase, PortalInv, PortalTypes, InventoryStates, RunInv
<1> DEFINE name == Files[n]
<1>3. name \in Names /\ (n # 1 => Holds(c, Files[1]))
  BY <1>1, <1>2, FilesAre DEF PersistFile, InPhase, PortalInv, RunInv
<1>4. UNCHANGED <<listing, drift, shards>> /\ inventory.phase = "certified"
  BY DEF PersistFile, InPhase
<1>5. CASE ~Accepts(c, name) /\ Moves("failed") /\ UNCHANGED snapshots
  BY <1>4, <1>5, MovesKeeps
<1>6. ASSUME Accepts(c, name),
             snapshots' = IF Stored(c, name) THEN snapshots
                          ELSE Persisted(<<Prefix(c), name>>, Content(c, name)),
             \/ inventory' = [inventory EXCEPT !.file = @ + 1,
                    !.phase = IF inventory.file = Len(Files) THEN "persisted"
                              ELSE "certified"]
             \/ ~Stored(c, name) /\ Moves("failed")
      PROVE  PortalInv'
  <2>1. /\ SnapshotsInv' /\ Holds(c, name)'
        /\ \A i \in Names : Holds(c, i) => Holds(c, i)'
        /\ snapshots' = [k \in DOMAIN snapshots' |-> snapshots'[k]]
        /\ DOMAIN snapshots' \subseteq (SUBSET Lines) \X Names
    <3>1. CASE Stored(c, name)
      <4>1. snapshots' = snapshots /\ Holds(c, name)
        BY <1>6, <3>1 DEF Accepts
      <4>2. \A i : Holds(c, i)' <=> Holds(c, i)
        BY <4>1 DEF Holds, Stored
      <4> QED
        BY <4>1, <4>2, StoreKept DEF PortalInv, PortalTypes
    <3>2. CASE ~Stored(c, name)
      <4>1. name = "summary" \/ Holds(c, "summary")
        BY <1>3, FilesAre
      <4>2. snapshots' = Persisted(<<Prefix(c), name>>, Content(c, name))
        BY <1>6, <3>2
      <4> HIDE DEF name
      <4> QED
        BY <1>3, <3>2, <4>1, <4>2, PersistedKeeps
    <3> QED
      BY <3>1, <3>2
  <2>2. \A i \in 1 .. 5 : i <= n => Holds(c, Files[i])'
    <3>1. SUFFICES ASSUME NEW i \in 1 .. 5, i < n PROVE Holds(c, Files[i])'
      BY <2>1
    <3>2. Holds(c, Files[i]) /\ Files[i] \in Names
      BY <1>1, <1>2, <1>4, <3>1, FilesAre DEF PortalInv, RunInv
    <3> QED
      BY <2>1, <3>2
  <2>3. PICK p \in {"persisted", "certified", "failed"}, m \in 1 .. 6 :
          /\ inventory' = [inventory EXCEPT !.file = m, !.phase = p]
          /\ m \in {n, n + 1}
          /\ p = "persisted" => m = 6
          /\ p = "certified" => m <= 5
    <3>1. CASE inventory' = [inventory EXCEPT !.file = @ + 1,
                    !.phase = IF inventory.file = Len(Files) THEN "persisted"
                              ELSE "certified"]
      <4> DEFINE p == IF n = 5 THEN "persisted" ELSE "certified"
      <4>1. inventory' = [inventory EXCEPT !.file = n + 1, !.phase = p]
        BY <1>2, <3>1, FilesAre
      <4>2. /\ n + 1 \in 1 .. 6 /\ p \in {"persisted", "certified"}
            /\ p = "persisted" => n + 1 = 6
            /\ p = "certified" => n + 1 <= 5
        OBVIOUS
      <4> HIDE DEF p
      <4> QED
        BY <4>1, <4>2
    <3>2. CASE Moves("failed")
      <4>1. inventory' = [inventory EXCEPT !.file = n, !.phase = "failed"]
        BY <1>2, <3>2 DEF Moves, PortalInv, PortalTypes, InventoryStates
      <4>2. n \in 1 .. 6 /\ n \in {n, n + 1}
        OBVIOUS
      <4> QED
        BY <4>1, <4>2, Zenon
    <3> QED
      BY <1>6, <3>1, <3>2
  <2>4. /\ inventory' \in InventoryStates /\ inventory'.phase = p
        /\ inventory'.file = m /\ inventory'.certified = c
    BY <1>1, <2>3 DEF PortalInv, PortalTypes, InventoryStates
  <2>5. PortalTypes'
    BY <1>4, <2>1, <2>4 DEF PortalInv, PortalTypes
  <2>6. RunInv'
    <3>1. OnePerRecord(c.source)
      BY <1>1 DEF PortalInv, RunInv
    <3>2. \A i \in 1 .. 5 : i < m => Holds(c, Files[i])'
      BY <2>2, <2>3
    <3>3. \A i \in 1 .. 5 : i < inventory'.file => Holds(inventory.certified, Files[i])'
      BY <2>4, <3>2 DEF Holds, Stored
    <3> QED
      BY <2>3, <2>4, <3>1, <3>3 DEF RunInv
  <2> QED
    BY <1>4, <2>1, <2>5, <2>6, YearsKept DEF PortalInv
<1>7. \/ ~Accepts(c, name) /\ Moves("failed") /\ UNCHANGED snapshots
      \/ /\ Accepts(c, name)
         /\ snapshots' = IF Stored(c, name) THEN snapshots
                          ELSE Persisted(<<Prefix(c), name>>, Content(c, name))
         /\ \/ inventory' = [inventory EXCEPT !.file = @ + 1,
                    !.phase = IF inventory.file = Len(Files) THEN "persisted"
                              ELSE "certified"]
            \/ ~Stored(c, name) /\ Moves("failed")
  BY <1>1, <1>2, Zenon DEF PersistFile
<1> QED
  BY <1>5, <1>6, <1>7

LEMMA PortalStep == ASSUME PortalInv, [PortalNext]_portalVars PROVE PortalInv'
<1>1. ASSUME UNCHANGED portalVars PROVE PortalInv'
  <2>1. PortalTypes'
    BY <1>1 DEF PortalInv, PortalTypes, portalVars
  <2> QED
    BY <1>1, <2>1, YearsKept, RunKept DEF PortalInv, portalVars
<1>2. ASSUME InventoryFails \/ YearFailed PROVE PortalInv'
  <2>1. Moves("failed") /\ UNCHANGED <<listing, drift, shards, snapshots>>
    BY <1>2 DEF InventoryFails, YearFailed
  <2> QED
    BY <2>1, MovesKeeps
<1>3. ASSUME NEW y \in Years, NEW at, NEW r \in Published[y],
             Withdraw(y, at) \/ Publish(y, r, at)
      PROVE  PortalInv'
  BY <1>3, PublishKeeps, WithdrawKeeps
<1>4. ASSUME NEW y \in Years, NEW at, Withdraw(y, at) PROVE PortalInv'
  BY <1>4, WithdrawKeeps
<1>5. ASSUME NEW y \in Years, BeginYear(y) \/ FetchPage(y) PROVE PortalInv'
  BY <1>5, BeginYearKeeps, FetchPageKeeps
<1>6. ASSUME PortalNext PROVE PortalInv'
  BY <1>2, <1>3, <1>4, <1>5, <1>6, DispatchInventoryKeeps, DiscoverYearKeeps,
     YearsDiscoveredKeeps, CertifyKeeps, PersistFileKeeps DEF PortalNext
<1> QED
  BY <1>1, <1>6

-----------------------------------------------------------------------------
(* Of the records of one locator, the first is in the list, and it alone.    *)
LEMMA OnePerLocator ==
  ASSUME NEW held \in SUBSET Lines, OnePerRecord(held), NEW row \in WithLocator(held)
  PROVE  Cardinality({r \in Acquisition(held) : Url(r) = Url(row)}) = 1
<1> DEFINE same == {r \in held : Url(r) = Url(row)}
           records == {r[2] : r \in same}
<1>1. row \in held /\ Url(row) # NoLocator
  BY DEF WithLocator
<1>2. \A r \in held : r[2] \in Nat
  BY DEF Lines
<1>3. records \in SUBSET Nat /\ records # {}
  BY <1>1, <1>2
<1>4. PICK m \in records : \A k \in records : m <= k
  BY <1>3, LeastNat
<1>5. PICK first \in same : first[2] = m
  BY <1>4
<1>6. \A r \in same : first[2] <= r[2]
  BY <1>4, <1>5
<1>7. first \in {r \in Acquisition(held) : Url(r) = Url(row)}
  BY <1>1, <1>5, <1>6 DEF Acquisition, WithLocator
<1>8. ASSUME NEW r \in Acquisition(held), Url(r) = Url(row) PROVE r = first
  <2>1. r \in held /\ r[2] <= first[2]
    BY <1>5, <1>8 DEF Acquisition, WithLocator
  <2>2. first \in held /\ first[2] <= r[2]
    BY <1>5, <1>6, <1>8, <2>1
  <2>3. r[2] = first[2]
    BY <1>2, <2>1, <2>2
  <2> QED
    BY <2>1, <2>2, <2>3 DEF OnePerRecord
<1>9. {r \in Acquisition(held) : Url(r) = Url(row)} = {first}
  BY <1>7, <1>8
<1> QED
  BY <1>9, FS_Singleton

LEMMA PortalPromise == PortalInv => PortalTypeOK /\ SnapshotIsCertified
<1> SUFFICES ASSUME PortalInv PROVE PortalTypeOK /\ SnapshotIsCertified
  OBVIOUS
<1>1. PortalTypeOK
  <2>1. /\ inventory.phase \in {"idle", "discover", "read", "certified", "persisted",
                                "failed"}
        /\ inventory.active \subseteq Years /\ inventory.file \in 1 .. 6
    BY DEF PortalInv, PortalTypes, InventoryStates
  <2>2. \A y \in Years : shards[y].phase \in {"waiting", "reading", "read", "failed"}
    BY DEF PortalInv, PortalTypes, YearStates
  <2>3. listing \in [Years -> Seq(UNION {Published[y] : y \in Years})]
        /\ drift \in 0 .. MaxDrift
    BY DEF PortalInv, PortalTypes, Records
  <2>4. Len(Files) + 1 = 6
    BY FilesAre
  <2> QED
    BY <2>1, <2>2, <2>3, <2>4 DEF PortalTypeOK
<1>2. ASSUME NEW y \in Years, shards[y].phase = "read", Steady(y)
      PROVE  Captured(y) = shards[y].began
  BY <1>2 DEF PortalInv, YearInv
<1>3. ASSUME NEW p \in {k[1] : k \in DOMAIN snapshots}, NEW i \in DOMAIN Files,
             \A j \in DOMAIN Files : <<p, Files[j]>> \in DOMAIN snapshots
      PROVE  snapshots[<<p, Files[i]>>] = Content(CertifiedUnder(p), Files[i])
  <2>1. <<p, Files[i]>> \in DOMAIN snapshots
    BY <1>3
  <2> QED
    BY <2>1 DEF PortalInv, SnapshotsInv
<1>4. ASSUME inventory.phase = "persisted"
      PROVE  /\ \A i \in DOMAIN Files : Holds(inventory.certified, Files[i])
             /\ \A l \in {Url(r) : r \in WithLocator(inventory.certified.source)} :
                  Cardinality({r \in snapshots[<<Prefix(inventory.certified),
                                                "acquisition">>] : Url(r) = l}) = 1
  <2> DEFINE c == inventory.certified
  <2>1. \A i \in 1 .. 5 : Holds(c, Files[i])
    BY <1>4 DEF PortalInv, RunInv
  <2>2. Holds(c, "acquisition")
    BY <2>1 DEF Files
  <2>3. snapshots[<<Prefix(c), "acquisition">>] = Acquisition(c.source)
    BY <2>2 DEF Holds, Content
  <2>4. c.source \in SUBSET Lines /\ OnePerRecord(c.source)
    BY DEF PortalInv, PortalTypes, InventoryStates, Certificates, RunInv
  <2> HIDE DEF c
  <2>5. ASSUME NEW row \in WithLocator(c.source)
        PROVE  Cardinality({r \in Acquisition(c.source) : Url(r) = Url(row)}) = 1
    BY <2>4, OnePerLocator
  <2>6. \A l \in {Url(r) : r \in WithLocator(c.source)} :
           Cardinality({r \in Acquisition(c.source) : Url(r) = l}) = 1
    BY <2>5
  <2> QED
    BY <2>1, <2>3, <2>6, FilesAre DEF c
<1>5. SnapshotIsCertified
  <2>1. \A y \in Years :
          shards[y].phase = "read" /\ ~(shards[y].grown /\ shards[y].shrunk) =>
              Captured(y) = shards[y].began
    BY <1>2 DEF Steady
  <2>2. \A p \in {k[1] : k \in DOMAIN snapshots} :
          (\A i \in DOMAIN Files : <<p, Files[i]>> \in DOMAIN snapshots) =>
              LET summary == snapshots[<<p, "summary">>]
                  c == [years |-> summary[1], source |-> summary[2]] IN
              \A i \in DOMAIN Files : snapshots[<<p, Files[i]>>] = Content(c, Files[i])
    BY <1>3 DEF CertifiedUnder
  <2> QED
    BY <1>4, <2>1, <2>2 DEF SnapshotIsCertified
<1> QED
  BY <1>1, <1>5

LEMMA PagePromise == PageInv => PageTypeOK /\ PagesAreOfThePlan
BY DEF PageInv, PageTypes, PageTypeOK, PagePhases, RowsOf, Objects

-----------------------------------------------------------------------------
(* The reconciliation.                                                      *)
Located == [content : Bytes, url : Links, identifier : Identifiers]
PassStates ==
  [phase : {"idle", "crawl", "acquire", "reported"}, crawl : SUBSET Identifiers,
   snapshot : SUBSET Identifiers, todo : SUBSET Identifiers, attempt : Nat,
   got : SUBSET (Bytes \cup {"put"}), lost : BOOLEAN, complete : BOOLEAN]
SourceTypes ==
  /\ listed \in SUBSET Identifiers /\ losses \in 0 .. MaxLosses
  /\ served \in [Links -> Seq(Bytes)] /\ \A u \in Links : served[u] # <<>>
  /\ objects \in SUBSET (Bytes \X {"pdf", "doc"}) /\ located \in Seq(Located)
  /\ pass \in [Passes -> PassStates]

(* What is registered was served by the URL of its identifier, and an        *)
(* object's extension is what its bytes say.                                 *)
Sound(row) == /\ row.identifier \in listed /\ row.url = Link[row.identifier]
              /\ row.content \in ToSet(served[row.url])
StoreInv == /\ \A n \in DOMAIN located : Sound(located[n])
            /\ \A key \in objects : key[2] = Format[key[1]]

(* What a pass may rely on as long as nothing it has seen gets lost: an      *)
(* identifier it does not have to acquire, or has acquired, is registered    *)
(* with a content that is stored, whichever pass registered it last.         *)
TargetOf(s) == CHOOSE i \in s.todo : \A j \in s.todo : Link[i] <= Link[j]
Unshared(s) == \A i \in s.snapshot, j \in listed : Link[i] = Link[j] => i = j
OnlyPdfs(s) == \A i \in s.snapshot : \A x \in ToSet(served[Link[i]]) : Format[x] = "pdf"
Settled(i) == Registered(i) /\ StoredAsPdf(Observed(i))
PassInv(s) ==
  /\ s.crawl \subseteq listed /\ s.snapshot \subseteq listed /\ s.todo \subseteq s.snapshot
  /\ \A x \in s.got \cap Bytes :
       /\ s.phase = "acquire" /\ s.todo # {}
       /\ x \in ToSet(served[Link[TargetOf(s)]]) /\ Format[x] # "html"
       /\ "put" \in s.got /\ ~s.lost => KeyOfBytes(x) \in objects
  /\ s.phase = "acquire" /\ ~s.lost /\ Unshared(s) /\ OnlyPdfs(s) =>
       \A i \in s.snapshot \ s.todo : Settled(i)
  /\ s.phase = "reported" =>
       /\ ~s.lost /\ Unshared(s) /\ OnlyPdfs(s) => s.complete
       /\ s.complete => \A i \in s.snapshot : \E x \in ToSet(served[Link[i]]) : Format[x] = "pdf"

(* A pass that has lost nothing relies on what the others register, so they  *)
(* must not have lost anything either.                                       *)
SameLosses == \A p, q \in Passes :
                pass[p].phase = "acquire" /\ pass[q].phase = "acquire" =>
                  (pass[p].lost <=> pass[q].lost)
ReconciliationInv == /\ SourceTypes /\ StoreInv /\ SameLosses
                     /\ \A p \in Passes : PassInv(pass[p])
-----------------------------------------------------------------------------
LEMMA AtRestIs ==
  /\ AtRest \in PassStates /\ AtRest.phase = "idle" /\ AtRest.crawl = {}
  /\ AtRest.snapshot = {} /\ AtRest.todo = {} /\ AtRest.got = {} /\ AtRest.attempt = 1
BY DEF AtRest, PassStates

LEMMA Rests == PassInv(AtRest)
BY AtRestIs DEF PassInv

LEMMA NothingReconciled == ReconciliationInit => ReconciliationInv
<1> SUFFICES ASSUME ReconciliationInit PROVE ReconciliationInv
  OBVIOUS
<1>1. \A p \in Passes : pass[p] = AtRest
  BY DEF ReconciliationInit
<1>2. PICK f \in FirstServed : served = [u \in Links |-> <<f[u]>>]
  BY DEF ReconciliationInit
<1>3. \A u \in Links : f[u] \in Bytes
  BY ReconciliationConstants DEF Links
<1>4. served \in [Links -> Seq(Bytes)] /\ \A u \in Links : served[u] # <<>>
  BY <1>2, <1>3
<1>5. SourceTypes
  BY <1>4, AtRestIs, ReconciliationConstants DEF ReconciliationInit, SourceTypes
<1>6. StoreInv
  BY DEF ReconciliationInit, StoreInv
<1>7. SameLosses /\ \A p \in Passes : PassInv(pass[p])
  BY <1>1, AtRestIs, Rests DEF SameLosses
<1> QED
  BY <1>5, <1>6, <1>7 DEF ReconciliationInv

LEMMA TargetIn ==
  ASSUME NEW s \in PassStates, s.todo # {}
  PROVE  TargetOf(s) \in s.todo /\ TargetOf(s) \in Identifiers
<1> DEFINE urls == {Link[i] : i \in s.todo}
<1>1. s.todo \subseteq Identifiers
  BY DEF PassStates
<1>2. urls \in SUBSET Nat /\ urls # {}
  <2>1. \A i \in Identifiers : Link[i] \in Nat
    BY ReconciliationConstants
  <2>2. \A i \in s.todo : Link[i] \in Nat
    BY <1>1, <2>1
  <2>3. PICK i \in s.todo : TRUE
    OBVIOUS
  <2>4. Link[i] \in urls
    BY <2>3
  <2> QED
    BY <2>2, <2>4
<1>3. PICK u \in urls : \A v \in urls : u <= v
  BY <1>2, LeastNat
<1>4. PICK i \in s.todo : Link[i] = u
  BY <1>3
<1>5. \A j \in s.todo : Link[i] <= Link[j]
  BY <1>3, <1>4
<1> HIDE DEF urls
<1>6. TargetOf(s) \in s.todo
  BY <1>5 DEF TargetOf
<1> QED
  BY <1>1, <1>6

LEMMA TargetIs == \A p \in Passes : Target(p) = TargetOf(pass[p])
BY DEF Target, TargetOf

(* The state of a pass, as a value.                                          *)
LEMMA PassIs ==
  ASSUME NEW q \in Passes, NEW t, pass'[q] = t, PassInv(t)' PROVE PassInv(pass[q])'
BY DEF PassInv, Unshared, OnlyPdfs, TargetOf

(* A pass may rely on no less when the source grows and objects are added.   *)
LEMMA WorldKeeps ==
  ASSUME NEW s \in PassStates, PassInv(s), listed \subseteq listed',
         \A u \in Links : ToSet(served[u]) \subseteq ToSet(served'[u]),
         objects \subseteq objects', located' = located
  PROVE  PassInv(s)'
<1>1. \A i \in Identifiers : Link[i] \in Links
  BY DEF Links
<1>2. s.snapshot \subseteq Identifiers /\ s.todo \subseteq Identifiers
  BY DEF PassStates
<1>3. \A i \in s.snapshot : ToSet(served[Link[i]]) \subseteq ToSet(served'[Link[i]])
  BY <1>1, <1>2
<1>4. /\ Unshared(s)' => Unshared(s)
      /\ OnlyPdfs(s)' => OnlyPdfs(s)
  BY <1>3 DEF Unshared, OnlyPdfs, ToSet
<1>5. \A i \in Identifiers : Settled(i) => Settled(i)'
  BY DEF Settled, Registered, StoredAsPdf, Observed, Sightings, Largest
<1>6. \A x \in s.got \cap Bytes :
        /\ s.phase = "acquire" /\ s.todo # {}
        /\ x \in ToSet(served'[Link[TargetOf(s)]]) /\ Format[x] # "html"
        /\ "put" \in s.got /\ ~s.lost => KeyOfBytes(x) \in objects'
  <2>1. SUFFICES ASSUME NEW x \in s.got \cap Bytes
        PROVE  /\ s.phase = "acquire" /\ s.todo # {}
               /\ x \in ToSet(served'[Link[TargetOf(s)]]) /\ Format[x] # "html"
               /\ "put" \in s.got /\ ~s.lost => KeyOfBytes(x) \in objects'
    OBVIOUS
  <2>2. /\ s.phase = "acquire" /\ s.todo # {}
        /\ x \in ToSet(served[Link[TargetOf(s)]]) /\ Format[x] # "html"
        /\ "put" \in s.got /\ ~s.lost => KeyOfBytes(x) \in objects
    BY DEF PassInv
  <2>3. Link[TargetOf(s)] \in Links
    BY <1>1, <2>2, TargetIn
  <2> QED
    BY <2>2, <2>3
<1>7. s.phase = "acquire" /\ ~s.lost /\ Unshared(s)' /\ OnlyPdfs(s)' =>
        \A i \in s.snapshot \ s.todo : Settled(i)'
  BY <1>2, <1>4, <1>5 DEF PassInv
<1>8. s.phase = "reported" =>
        /\ ~s.lost /\ Unshared(s)' /\ OnlyPdfs(s)' => s.complete
        /\ s.complete => \A i \in s.snapshot : \E x \in ToSet(served'[Link[i]]) : Format[x] = "pdf"
  BY <1>3, <1>4 DEF PassInv
<1>9. /\ s.crawl \subseteq listed' /\ s.snapshot \subseteq listed' /\ s.todo \subseteq s.snapshot
  BY DEF PassInv
<1> QED
  BY <1>6, <1>7, <1>8, <1>9 DEF PassInv, ToSet, TargetOf, KeyOfBytes

(* A pass moves, and nothing else does.                                      *)
LEMMA LocalKeeps ==
  ASSUME ReconciliationInv, NEW p \in Passes, NEW t \in PassStates, Local(p, t),
         ElsewhereSame, UNCHANGED <<located, objects>>, PassInv(t),
         t.phase = "acquire" =>
           \A q \in Passes : pass[q].phase = "acquire" => (t.lost <=> pass[q].lost)
  PROVE  ReconciliationInv'
<1>1. /\ pass' \in [Passes -> PassStates] /\ pass'[p] = t
      /\ \A q \in Passes : q # p => pass'[q] = pass[q]
  BY DEF Local, ReconciliationInv, SourceTypes
<1>2. SourceTypes'
  BY <1>1 DEF ElsewhereSame, ReconciliationInv, SourceTypes
<1>3. StoreInv'
  BY DEF ElsewhereSame, ReconciliationInv, StoreInv, Sound, ToSet
<1>4. SameLosses'
  BY <1>1 DEF ReconciliationInv, SameLosses
<1>5. ASSUME NEW s \in PassStates, PassInv(s) PROVE PassInv(s)'
  BY <1>5, WorldKeeps DEF ElsewhereSame
<1>6. ASSUME NEW q \in Passes PROVE PassInv(pass[q])'
  <2>1. PICK s \in PassStates : s = pass'[q]
    BY <1>1
  <2>2. PassInv(s)
    <3>1. CASE q = p
      BY <1>1, <2>1, <3>1
    <3>2. CASE q # p
      BY <1>1, <2>1, <3>2 DEF ReconciliationInv
    <3> QED
      BY <3>1, <3>2
  <2> QED
    BY <1>5, <2>1, <2>2, PassIs
<1> QED
  BY <1>2, <1>3, <1>4, <1>6 DEF ReconciliationInv

-----------------------------------------------------------------------------
LEMMA LocatedRows ==
  ASSUME SourceTypes PROVE \A n \in DOMAIN located : located[n] \in Located
<1>1. PICK l \in Seq(Located) : l = located
  BY DEF SourceTypes
<1>2. \A n \in DOMAIN l : l[n] \in Located
  OBVIOUS
<1> QED
  BY <1>1, <1>2

(* The source and the store, by themselves.                                  *)
LEMMA SourceGrows ==
  ASSUME ReconciliationInv, SourceTypes', listed \subseteq listed',
         \A u \in Links : ToSet(served[u]) \subseteq ToSet(served'[u]),
         UNCHANGED <<located, objects, pass>>
  PROVE  ReconciliationInv'
<1>1. StoreInv'
  <2>1. SUFFICES ASSUME NEW n \in DOMAIN located PROVE Sound(located[n])'
    BY DEF ReconciliationInv, StoreInv
  <2>2. located[n].url \in Links
    BY LocatedRows DEF ReconciliationInv, Located
  <2>3. /\ located[n].identifier \in listed
        /\ located[n].url = Link[located[n].identifier]
        /\ located[n].content \in ToSet(served[located[n].url])
    BY DEF ReconciliationInv, StoreInv, Sound
  <2>4. located[n].content \in ToSet(served'[located[n].url])
    BY <2>2, <2>3
  <2> QED
    BY <2>3, <2>4 DEF Sound, ToSet
<1>2. SameLosses'
  BY DEF ReconciliationInv, SameLosses
<1>3. ASSUME NEW q \in Passes PROVE PassInv(pass[q])'
  <2>1. PICK s \in PassStates : s = pass[q]
    BY DEF ReconciliationInv, SourceTypes
  <2>2. PassInv(s)
    BY <2>1 DEF ReconciliationInv
  <2>3. PassInv(s)'
    BY <2>2, WorldKeeps
  <2> QED
    BY <2>1, <2>3, PassIs
<1> QED
  BY <1>1, <1>2, <1>3 DEF ReconciliationInv

LEMMA SourceListsKeeps ==
  ASSUME ReconciliationInv, NEW i \in Identifiers, SourceLists(i) PROVE ReconciliationInv'
<1>1. SourceTypes'
  BY DEF SourceLists, ReconciliationInv, SourceTypes
<1> QED
  BY <1>1, SourceGrows DEF SourceLists

LEMMA SourceServesKeeps ==
  ASSUME ReconciliationInv, NEW u \in Links, NEW x \in Bytes, SourceServes(u, x)
  PROVE  ReconciliationInv'
<1>1. PICK s \in Seq(Bytes) : s = served[u] /\ s # <<>>
  BY DEF ReconciliationInv, SourceTypes
<1> DEFINE t == Append(s, x)
<1>2. t \in Seq(Bytes) /\ t # <<>> /\ ToSet(s) \subseteq ToSet(t)
  BY DEF ToSet
<1>3. served' = [served EXCEPT ![u] = t]
  BY <1>1 DEF SourceServes
<1> HIDE DEF t
<1>4. /\ served' \in [Links -> Seq(Bytes)] /\ \A v \in Links : served'[v] # <<>>
      /\ \A v \in Links : ToSet(served[v]) \subseteq ToSet(served'[v])
  <2>1. /\ served' \in [Links -> Seq(Bytes)] /\ served'[u] = t
        /\ \A v \in Links : v # u => served'[v] = served[v]
    BY <1>2, <1>3 DEF ReconciliationInv, SourceTypes
  <2>2. \A v \in Links : v # u => ToSet(served'[v]) = ToSet(served[v])
    BY <2>1
  <2>3. ToSet(served'[u]) = ToSet(t) /\ ToSet(served[u]) = ToSet(s)
    BY <1>1, <2>1
  <2> QED
    BY <1>2, <2>1, <2>2, <2>3 DEF ReconciliationInv, SourceTypes
<1>5. SourceTypes'
  BY <1>4 DEF SourceServes, ReconciliationInv, SourceTypes
<1> QED
  BY <1>4, <1>5, SourceGrows DEF SourceServes

LEMMA LoseObjectKeeps ==
  ASSUME ReconciliationInv, NEW key \in objects, LoseObject(key) PROVE ReconciliationInv'
<1> DEFINE next(q) == [pass[q] EXCEPT !.lost = @ \/ pass[q].phase = "acquire"]
<1>1. /\ losses < MaxLosses /\ losses' = losses + 1 /\ objects' = objects \ {key}
      /\ pass' = [q \in Passes |-> next(q)] /\ UNCHANGED <<listed, served, located>>
  BY DEF LoseObject
<1>2. ASSUME NEW q \in Passes
      PROVE  /\ next(q) \in PassStates /\ next(q).phase = pass[q].phase
             /\ next(q).crawl = pass[q].crawl /\ next(q).snapshot = pass[q].snapshot
             /\ next(q).todo = pass[q].todo /\ next(q).got = pass[q].got
             /\ next(q).complete = pass[q].complete
  <2> DEFINE lost == pass[q].lost \/ pass[q].phase = "acquire"
  <2>1. lost \in BOOLEAN /\ next(q) = [pass[q] EXCEPT !.lost = lost]
    OBVIOUS
  <2>2. PICK s \in PassStates : s = pass[q]
    BY DEF ReconciliationInv, SourceTypes
  <2> HIDE DEF lost, next
  <2>3. next(q) = [s EXCEPT !.lost = lost]
    BY <2>1, <2>2
  <2>4. next(q) \in PassStates
    BY <2>1, <2>3 DEF PassStates
  <2> QED
    BY <2>2, <2>3, <2>4 DEF PassStates
<1>3. ASSUME NEW q \in Passes
      PROVE  next(q).lost <=> (pass[q].lost \/ pass[q].phase = "acquire")
  <2> DEFINE lost == pass[q].lost \/ pass[q].phase = "acquire"
  <2>1. next(q) = [pass[q] EXCEPT !.lost = lost]
    OBVIOUS
  <2> HIDE DEF lost, next
  <2>2. next(q).lost = lost
    BY <2>1 DEF ReconciliationInv, SourceTypes, PassStates
  <2> QED
    BY <2>2 DEF lost
<1>4. \A q \in Passes : pass'[q] = next(q)
  BY <1>1
<1>5. pass' \in [Passes -> PassStates]
  BY <1>1, <1>2
<1> HIDE DEF next
<1>6. SourceTypes'
  <2>1. losses + 1 \in 0 .. MaxLosses
    BY <1>1, ReconciliationConstants DEF ReconciliationInv, SourceTypes
  <2> QED
    BY <1>1, <1>5, <2>1 DEF ReconciliationInv, SourceTypes
<1>7. StoreInv'
  BY <1>1 DEF ReconciliationInv, StoreInv, Sound, ToSet
<1>8. SameLosses'
  BY <1>2, <1>3, <1>4 DEF ReconciliationInv, SameLosses
<1>9. ASSUME NEW q \in Passes PROVE PassInv(pass[q])'
  <2>1. PICK s \in PassStates : s = pass[q]
    BY DEF ReconciliationInv, SourceTypes
  <2>2. PICK t \in PassStates : t = next(q)
    BY <1>2
  <2>3. PassInv(s)
    BY <2>1 DEF ReconciliationInv
  <2>4. /\ t.phase = s.phase /\ t.crawl = s.crawl /\ t.snapshot = s.snapshot
        /\ t.todo = s.todo /\ t.got = s.got /\ t.complete = s.complete
        /\ t.lost <=> (s.lost \/ s.phase = "acquire")
    BY <1>2, <1>3, <2>1, <2>2
  <2>5. TargetOf(t) = TargetOf(s)
    BY <2>4 DEF TargetOf
  <2>6. (Unshared(t)' <=> Unshared(s)) /\ (OnlyPdfs(t)' <=> OnlyPdfs(s))
    BY <1>1, <2>4 DEF Unshared, OnlyPdfs, ToSet
  <2>7. PassInv(t)'
    <3>1. \A x \in t.got \cap Bytes :
            /\ t.phase = "acquire" /\ t.todo # {} /\ t.lost
            /\ x \in ToSet(served[Link[TargetOf(t)]]) /\ Format[x] # "html"
      BY <2>3, <2>4, <2>5 DEF PassInv
    <3>2. t.phase = "acquire" => t.lost
      BY <2>4
    <3>3. t.phase = "reported" =>
            /\ ~t.lost /\ Unshared(t)' /\ OnlyPdfs(t)' => t.complete
            /\ t.complete => \A i \in t.snapshot : \E x \in ToSet(served[Link[i]]) : Format[x] = "pdf"
      BY <2>3, <2>4, <2>6 DEF PassInv
    <3>4. t.crawl \subseteq listed /\ t.snapshot \subseteq listed /\ t.todo \subseteq t.snapshot
      BY <2>3, <2>4 DEF PassInv
    <3> QED
      BY <1>1, <3>1, <3>2, <3>3, <3>4 DEF PassInv, ToSet, TargetOf
  <2> QED
    BY <1>4, <2>2, <2>7, PassIs
<1> QED
  BY <1>6, <1>7, <1>8, <1>9 DEF ReconciliationInv

-----------------------------------------------------------------------------
(* The steps of a pass that only read.                                       *)
LEMMA PassRests ==
  ASSUME ReconciliationInv, NEW p \in Passes, Local(p, AtRest), ElsewhereSame,
         UNCHANGED <<located, objects>>
  PROVE  ReconciliationInv'
BY AtRestIs, Rests, LocalKeeps

LEMMA BeginPassKeeps ==
  ASSUME ReconciliationInv, NEW p \in Passes, BeginPass(p) PROVE ReconciliationInv'
<1> DEFINE t == [AtRest EXCEPT !.phase = "crawl", !.crawl = listed]
<1>1. /\ t \in PassStates /\ t.phase = "crawl" /\ t.crawl = listed
      /\ t.snapshot = {} /\ t.todo = {} /\ t.got = {}
  BY AtRestIs DEF PassStates, ReconciliationInv, SourceTypes
<1> HIDE DEF t
<1>2. PassInv(t)
  BY <1>1 DEF PassInv
<1> QED
  BY <1>1, <1>2, LocalKeeps DEF BeginPass, t

LEMMA ResolveDetailKeeps ==
  ASSUME ReconciliationInv, NEW p \in Passes, ResolveDetail(p) PROVE ReconciliationInv'
<1> DEFINE s == pass[p]
           i == Smallest(s.crawl)
           t == [s EXCEPT !.crawl = @ \ {i}, !.snapshot = @ \cup {i}]
<1>1. s \in PassStates /\ s.phase = "crawl" /\ s.crawl # {} /\ Local(p, t)
      /\ PassInv(s) /\ ElsewhereSame /\ UNCHANGED <<located, objects>>
  BY DEF ResolveDetail, ReconciliationInv, SourceTypes
<1>2. i \in s.crawl
  <2>1. s.crawl \in SUBSET Nat
    BY <1>1, ReconciliationConstants DEF PassStates
  <2> QED
    BY <1>1, <2>1, LeastChosen DEF Smallest
<1>3. i \in Identifiers
  BY <1>1, <1>2 DEF PassStates
<1> HIDE DEF i, s
<1>4. /\ t \in PassStates /\ t.phase = "crawl" /\ t.crawl = s.crawl \ {i}
      /\ t.snapshot = s.snapshot \cup {i} /\ t.todo = s.todo /\ t.got = s.got
  BY <1>1, <1>3 DEF PassStates
<1> HIDE DEF t
<1>5. PassInv(t)
  BY <1>1, <1>2, <1>4 DEF PassInv
<1> QED
  BY <1>1, <1>4, <1>5, LocalKeeps

LEMMA FetchFailsKeeps ==
  ASSUME ReconciliationInv, NEW p \in Passes, FetchFails(p) PROVE ReconciliationInv'
<1> DEFINE s == pass[p]
           t == [s EXCEPT !.attempt = @ + 1]
<1>1. /\ s \in PassStates /\ s.phase = "acquire" /\ s.got = {} /\ PassInv(s)
      /\ Local(p, t) \/ Local(p, AtRest)
      /\ ElsewhereSame /\ UNCHANGED <<located, objects>>
  BY DEF FetchFails, Acquiring, ReconciliationInv, SourceTypes
<1>2. \A q \in Passes : pass[q].phase = "acquire" => (s.lost <=> pass[q].lost)
  BY <1>1 DEF ReconciliationInv, SameLosses
<1> HIDE DEF s
<1>3. /\ t \in PassStates /\ t.phase = s.phase /\ t.crawl = s.crawl
      /\ t.snapshot = s.snapshot /\ t.todo = s.todo /\ t.got = s.got
      /\ t.lost = s.lost
  BY <1>1 DEF PassStates
<1> HIDE DEF t
<1>4. PassInv(t)
  BY <1>1, <1>3 DEF PassInv, Unshared, OnlyPdfs
<1>5. \A q \in Passes : pass[q].phase = "acquire" => (t.lost <=> pass[q].lost)
  BY <1>2, <1>3
<1> QED
  BY <1>1, <1>3, <1>4, <1>5, LocalKeeps, PassRests

LEMMA FetchesKeeps ==
  ASSUME ReconciliationInv, NEW p \in Passes, NEW x \in Bytes, Fetches(p, x)
  PROVE  ReconciliationInv'
<1> DEFINE s == pass[p]
           t == [s EXCEPT !.got = {x}]
<1>1. /\ s \in PassStates /\ s.phase = "acquire" /\ s.todo # {} /\ PassInv(s)
      /\ x = Last(served[Link[TargetOf(s)]])
      /\ (Format[x] # "html" /\ Local(p, t)) \/ Local(p, AtRest)
      /\ ElsewhereSame /\ UNCHANGED <<located, objects>>
  BY TargetIs DEF Fetches, Acquiring, ReconciliationInv, SourceTypes
<1>2. \A q \in Passes : pass[q].phase = "acquire" => (s.lost <=> pass[q].lost)
  BY <1>1 DEF ReconciliationInv, SameLosses
<1>3. x \in ToSet(served[Link[TargetOf(s)]])
  <2>1. Link[TargetOf(s)] \in Links
    BY <1>1, TargetIn DEF Links
  <2>2. PICK u \in Links : u = Link[TargetOf(s)]
    BY <2>1
  <2>3. PICK b \in Seq(Bytes) : b = served[u] /\ b # <<>>
    BY DEF ReconciliationInv, SourceTypes
  <2>4. Len(b) \in DOMAIN b
    BY <2>3
  <2> QED
    BY <1>1, <2>2, <2>3, <2>4 DEF Last, ToSet
<1> HIDE DEF s
<1>4. /\ t \in PassStates /\ t.phase = s.phase /\ t.crawl = s.crawl
      /\ t.snapshot = s.snapshot /\ t.todo = s.todo /\ t.got = {x}
      /\ t.lost = s.lost
  BY <1>1 DEF PassStates
<1> HIDE DEF t
<1>5. ASSUME Format[x] # "html" PROVE PassInv(t)
  <2>1. "put" \notin t.got
    BY <1>4, ReconciliationConstants
  <2>2. TargetOf(t) = TargetOf(s)
    BY <1>4 DEF TargetOf
  <2> QED
    BY <1>1, <1>3, <1>4, <1>5, <2>1, <2>2 DEF PassInv, Unshared, OnlyPdfs
<1>6. \A q \in Passes : pass[q].phase = "acquire" => (t.lost <=> pass[q].lost)
  BY <1>2, <1>4
<1> QED
  BY <1>1, <1>4, <1>5, <1>6, LocalKeeps, PassRests

-----------------------------------------------------------------------------
(* The order in which locations were seen.                                   *)
Seen(rows, i) == {n \in DOMAIN rows : rows[n].identifier = i /\ rows[n].url = Link[i]}
LastOf(rows, i) == rows[Largest(Seen(rows, i))]

LEMMA LargestIs ==
  ASSUME NEW S \in SUBSET Nat, NEW m \in S, \A n \in S : n <= m
  PROVE  Largest(S) = m
<1>1. \E n \in S : \A k \in S : k <= n
  OBVIOUS
<1>2. Largest(S) \in S /\ \A k \in S : k <= Largest(S)
  BY <1>1 DEF Largest
<1> DEFINE n == Largest(S)
<1>3. n \in Nat /\ m \in Nat /\ m <= n /\ n <= m
  BY <1>2
<1> HIDE DEF n
<1>4. n = m
  BY <1>3
<1> QED
  BY <1>4 DEF n

LEMMA LastSeen ==
  ASSUME NEW rows \in Seq(Located), NEW i, Seen(rows, i) # {}
  PROVE  /\ Largest(Seen(rows, i)) \in Seen(rows, i)
         /\ \A n \in Seen(rows, i) : n <= Largest(Seen(rows, i))
<1>1. PICK k \in Nat : k = Len(rows)
  OBVIOUS
<1>2. DOMAIN rows = 1 .. k
  BY <1>1
<1>3. Seen(rows, i) \in SUBSET (1 .. k)
  BY <1>2 DEF Seen
<1>4. IsFiniteSet(1 .. k)
  BY FS_Interval
<1>5. IsFiniteSet(Seen(rows, i)) /\ Seen(rows, i) \in SUBSET Nat
  BY <1>3, <1>4, FS_Subset
<1> QED
  BY <1>5, LargestOf

LEMMA AppendSeen ==
  ASSUME NEW rows \in Seq(Located), NEW row \in Located, row.url = Link[row.identifier]
  PROVE  LET more == Append(rows, row) IN
         /\ more \in Seq(Located)
         /\ \A n \in DOMAIN more : more[n] = row \/ \E m \in DOMAIN rows : more[n] = rows[m]
         /\ Seen(more, row.identifier) # {} /\ LastOf(more, row.identifier) = row
         /\ \A i : Link[i] # row.url =>
                Seen(more, i) = Seen(rows, i) /\ (Seen(rows, i) # {} => LastOf(more, i) = LastOf(rows, i))
<1>1. PICK k \in Nat : k = Len(rows)
  OBVIOUS
<1> DEFINE more == Append(rows, row)
<1>2. /\ more \in Seq(Located) /\ DOMAIN rows = 1 .. k /\ DOMAIN more = 1 .. k + 1
      /\ more[k + 1] = row /\ \A n \in 1 .. k : more[n] = rows[n]
  BY <1>1
<1> HIDE DEF more
<1>3. \A n \in DOMAIN more : more[n] = row \/ \E m \in DOMAIN rows : more[n] = rows[m]
  <2>1. \A n \in 1 .. k + 1 : n = k + 1 \/ n \in 1 .. k
    OBVIOUS
  <2> QED
    BY <1>2, <2>1
<1>4. Seen(more, row.identifier) # {} /\ LastOf(more, row.identifier) = row
  <2>1. k + 1 \in Seen(more, row.identifier)
    BY <1>2 DEF Seen
  <2>2. \A n \in Seen(more, row.identifier) : n \in Nat /\ n <= k + 1
    BY <1>2 DEF Seen
  <2>3. Largest(Seen(more, row.identifier)) = k + 1
    BY <2>1, <2>2, LargestIs
  <2> QED
    BY <1>2, <2>1, <2>3 DEF LastOf
<1>5. ASSUME NEW i, Link[i] # row.url
      PROVE  /\ Seen(more, i) = Seen(rows, i)
             /\ Seen(rows, i) # {} => LastOf(more, i) = LastOf(rows, i)
  <2>1. \A n \in 1 .. k + 1 : n = k + 1 \/ n \in 1 .. k
    OBVIOUS
  <2>2. Seen(more, i) = Seen(rows, i)
    <3>1. k + 1 \notin Seen(more, i)
      BY <1>2, <1>5 DEF Seen
    <3>2. \A n \in 1 .. k : n \in Seen(more, i) <=> n \in Seen(rows, i)
      BY <1>2, <2>1 DEF Seen
    <3>3. Seen(more, i) \subseteq 1 .. k + 1 /\ Seen(rows, i) \subseteq 1 .. k
      BY <1>2 DEF Seen
    <3> QED
      BY <2>1, <3>1, <3>2, <3>3
  <2>3. ASSUME Seen(rows, i) # {} PROVE LastOf(more, i) = LastOf(rows, i)
    <3>1. Largest(Seen(rows, i)) \in 1 .. k
      BY <1>2, <2>3, LastSeen DEF Seen
    <3> QED
      BY <1>2, <2>2, <3>1 DEF LastOf
  <2> QED
    BY <2>2, <2>3
<1> QED
  BY <1>2, <1>3, <1>4, <1>5 DEF more

LEMMA RemoveSeen ==
  ASSUME NEW rows \in Seq(Located), NEW at \in DOMAIN rows
  PROVE  LET rest == RemoveAt(rows, at) IN
         /\ rest \in Seq(Located)
         /\ \A n \in DOMAIN rest : \E m \in DOMAIN rows : rest[n] = rows[m]
         /\ \A i : Link[i] # rows[at].url /\ Seen(rows, i) # {} =>
                Seen(rest, i) # {} /\ LastOf(rest, i) = LastOf(rows, i)
<1>1. PICK k \in Nat : k = Len(rows)
  OBVIOUS
<1> DEFINE rest == RemoveAt(rows, at)
<1>2. DOMAIN rows = 1 .. k /\ at \in 1 .. k
  BY <1>1
<1>3. /\ rest \in Seq(Located) /\ Len(rest) = k - 1
      /\ \A n \in 1 .. k - 1 : rest[n] = IF n < at THEN rows[n] ELSE rows[n + 1]
  BY <1>1, <1>2, Removed
<1> HIDE DEF rest
<1>4. DOMAIN rest = 1 .. k - 1
  BY <1>3
<1>5. \A n \in DOMAIN rest : \E m \in DOMAIN rows : rest[n] = rows[m]
  <2>1. \A n \in 1 .. k - 1 : n \in 1 .. k /\ n + 1 \in 1 .. k
    OBVIOUS
  <2> QED
    BY <1>2, <1>3, <1>4, <2>1
<1>6. ASSUME NEW i, Link[i] # rows[at].url, Seen(rows, i) # {}
      PROVE  Seen(rest, i) # {} /\ LastOf(rest, i) = LastOf(rows, i)
  <2>1. PICK m \in Seen(rows, i) : /\ m = Largest(Seen(rows, i))
                                   /\ \A n \in Seen(rows, i) : n <= m
    BY <1>6, LastSeen
  <2>2. m \in 1 .. k /\ m # at
    BY <1>2, <1>6, <2>1 DEF Seen
  <2>3. PICK j \in 1 .. k - 1 : IF m < at THEN j = m ELSE j + 1 = m
    <3>1. CASE m < at
      BY <1>2, <2>2, <3>1
    <3>2. CASE ~(m < at)
      <4>1. m - 1 \in 1 .. k - 1 /\ (m - 1) + 1 = m
        BY <1>2, <2>2, <3>2
      <4> QED
        BY <3>2, <4>1
    <3> QED
      BY <3>1, <3>2
  <2>4. rest[j] = rows[m]
    <3>1. IF j < at THEN j = m ELSE j + 1 = m
      BY <1>2, <2>2, <2>3
    <3> QED
      BY <1>3, <2>3, <3>1
  <2>5. j \in Seen(rest, i)
    BY <1>4, <2>1, <2>3, <2>4 DEF Seen
  <2>6. ASSUME NEW n \in Seen(rest, i) PROVE n \in Nat /\ n <= j
    <3>1. n \in 1 .. k - 1 /\ rest[n].identifier = i /\ rest[n].url = Link[i]
      BY <1>4 DEF Seen
    <3>2. CASE n < at
      <4>1. rest[n] = rows[n] /\ n \in 1 .. k
        BY <1>2, <1>3, <3>1, <3>2
      <4>2. n \in Seen(rows, i)
        BY <1>2, <3>1, <4>1 DEF Seen
      <4>3. n <= m
        BY <2>1, <4>2
      <4> QED
        BY <1>2, <2>2, <2>3, <3>1, <3>2, <4>3
    <3>3. CASE ~(n < at)
      <4>1. rest[n] = rows[n + 1] /\ n + 1 \in 1 .. k
        BY <1>2, <1>3, <3>1, <3>3
      <4>2. n + 1 \in Seen(rows, i)
        BY <1>2, <3>1, <4>1 DEF Seen
      <4>3. n + 1 <= m
        BY <2>1, <4>2
      <4> QED
        BY <1>2, <2>2, <2>3, <3>1, <3>3, <4>3
    <3> QED
      BY <3>2, <3>3
  <2>7. Seen(rest, i) \in SUBSET Nat
    BY <2>6
  <2>8. Largest(Seen(rest, i)) = j
    BY <2>5, <2>6, <2>7, LargestIs
  <2> QED
    BY <2>1, <2>4, <2>5, <2>8 DEF LastOf
<1> QED
  BY <1>3, <1>5, <1>6 DEF rest

(* What a registration does to the locations.                                *)
LEMMA Registers ==
  ASSUME SourceTypes, NEW row \in Located, row.url = Link[row.identifier], SeenLast(row)
  PROVE  /\ located' \in Seq(Located)
         /\ \A n \in DOMAIN located' :
                located'[n] = row \/ \E m \in DOMAIN located : located'[n] = located[m]
         /\ Seen(located', row.identifier) # {} /\ LastOf(located', row.identifier) = row
         /\ \A i : Link[i] # row.url /\ Seen(located, i) # {} =>
                Seen(located', i) # {} /\ LastOf(located', i) = LastOf(located, i)
<1>1. PICK rows \in Seq(Located) : rows = located
  BY DEF SourceTypes
<1>2. CASE located' = Append(located, row)
  BY <1>1, <1>2, AppendSeen
<1>3. ASSUME NEW at \in DOMAIN rows, rows[at].url = row.url,
             located' = Append(RemoveAt(rows, at), row)
      PROVE  /\ located' \in Seq(Located)
             /\ \A n \in DOMAIN located' :
                   located'[n] = row \/ \E m \in DOMAIN rows : located'[n] = rows[m]
             /\ Seen(located', row.identifier) # {} /\ LastOf(located', row.identifier) = row
             /\ \A i : Link[i] # row.url /\ Seen(rows, i) # {} =>
                   Seen(located', i) # {} /\ LastOf(located', i) = LastOf(rows, i)
  <2> DEFINE rest == RemoveAt(rows, at)
  <2>1. /\ rest \in Seq(Located)
        /\ \A n \in DOMAIN rest : \E m \in DOMAIN rows : rest[n] = rows[m]
        /\ \A i : Link[i] # row.url /\ Seen(rows, i) # {} =>
               Seen(rest, i) # {} /\ LastOf(rest, i) = LastOf(rows, i)
    BY <1>3, RemoveSeen
  <2>2. located' = Append(rest, row)
    BY <1>3
  <2> HIDE DEF rest
  <2>3. /\ located' \in Seq(Located)
        /\ \A n \in DOMAIN located' :
              located'[n] = row \/ \E m \in DOMAIN rest : located'[n] = rest[m]
        /\ Seen(located', row.identifier) # {} /\ LastOf(located', row.identifier) = row
        /\ \A i : Link[i] # row.url =>
              /\ Seen(located', i) = Seen(rest, i)
              /\ Seen(rest, i) # {} => LastOf(located', i) = LastOf(rest, i)
    BY <2>1, <2>2, AppendSeen
  <2>4. \A n \in DOMAIN located' :
          located'[n] = row \/ \E m \in DOMAIN rows : located'[n] = rows[m]
    BY <2>1, <2>3
  <2>5. \A i : Link[i] # row.url /\ Seen(rows, i) # {} =>
          Seen(located', i) # {} /\ LastOf(located', i) = LastOf(rows, i)
    BY <2>1, <2>3
  <2> QED
    BY <2>3, <2>4, <2>5
<1>4. \/ located' = Append(located, row)
      \/ \E at \in DOMAIN rows : rows[at].url = row.url
                                 /\ located' = Append(RemoveAt(rows, at), row)
  BY <1>1 DEF SeenLast
<1> QED
  BY <1>1, <1>2, <1>3, <1>4

-----------------------------------------------------------------------------
(* The steps of a pass that plan, store, register and report.                *)
LEMMA SettledIs ==
  \A i : /\ Settled(i) <=> Seen(located, i) # {} /\ <<LastOf(located, i).content, "pdf">> \in objects
         /\ Settled(i)' <=> Seen(located', i) # {} /\ <<LastOf(located', i).content, "pdf">> \in objects'
BY DEF Settled, Registered, StoredAsPdf, Observed, Sightings, Seen, LastOf, Largest

LEMMA OneForEach ==
  ASSUME NEW S \in SUBSET Identifiers, NEW T \in SUBSET Identifiers
  PROVE  /\ OneForEachUrl(S, T) \subseteq S \cup T
         /\ (\A i, j \in S \cup T : Link[i] = Link[j] => i = j) => S \cup T \subseteq OneForEachUrl(S, T)
<1> DEFINE At(U, u) == {i \in U : Link[i] = u}
           Named(u) == IF At(T, u) # {} THEN At(T, u) ELSE At(S, u)
<1>1. OneForEachUrl(S, T) = {Largest(Named(Link[i])) : i \in S \cup T}
  BY DEF OneForEachUrl
<1>2. ASSUME NEW i \in S \cup T
      PROVE  /\ Largest(Named(Link[i])) \in S \cup T
             /\ Link[Largest(Named(Link[i]))] = Link[i]
  <2>1. Named(Link[i]) \subseteq S \cup T /\ Named(Link[i]) # {}
        /\ \A j \in Named(Link[i]) : Link[j] = Link[i]
    OBVIOUS
  <2>2. IsFiniteSet(Named(Link[i])) /\ Named(Link[i]) \in SUBSET Nat
    <3>1. Named(Link[i]) \subseteq Identifiers
      BY <2>1
    <3> HIDE DEF Named
    <3> QED
      BY <3>1, ReconciliationConstants, FS_Subset
  <2> HIDE DEF Named
  <2>3. Largest(Named(Link[i])) \in Named(Link[i])
    BY <2>1, <2>2, LargestOf
  <2> QED
    BY <2>1, <2>3
<1> HIDE DEF Named
<1>3. ASSUME \A i, j \in S \cup T : Link[i] = Link[j] => i = j, NEW i \in S \cup T
      PROVE  i \in OneForEachUrl(S, T)
  <2>1. Largest(Named(Link[i])) = i
    BY <1>2, <1>3
  <2> QED
    BY <1>1, <2>1
<1> QED
  BY <1>1, <1>2, <1>3

LEMMA PlanPassKeeps ==
  ASSUME ReconciliationInv, NEW p \in Passes, PlanPass(p) PROVE ReconciliationInv'
<1> DEFINE s == pass[p]
           lost == SomeLoss
           todo == OneForEachUrl(MissingRegistration(s.snapshot), MissingStorage(s.snapshot))
           t == [s EXCEPT !.phase = "acquire", !.lost = lost, !.todo = todo]
<1>1. /\ s \in PassStates /\ s.phase = "crawl" /\ PassInv(s) /\ Local(p, t)
      /\ ElsewhereSame /\ UNCHANGED <<located, objects>>
  BY DEF PlanPass, ReconciliationInv, SourceTypes
<1>2. \A q \in Passes : pass[q].phase = "acquire" => (lost <=> pass[q].lost)
  BY DEF SomeLoss, ReconciliationInv, SameLosses
<1>3. lost \in BOOLEAN
  BY DEF SomeLoss
<1>4. s.snapshot \in SUBSET Identifiers
  BY <1>1 DEF PassStates
<1> HIDE DEF lost, s
<1> DEFINE missing == MissingRegistration(s.snapshot) \cup MissingStorage(s.snapshot)
<1>5. /\ missing \subseteq s.snapshot /\ todo \subseteq missing
      /\ (\A i, j \in missing : Link[i] = Link[j] => i = j) => missing \subseteq todo
  <2>1. /\ MissingRegistration(s.snapshot) \in SUBSET s.snapshot
        /\ MissingStorage(s.snapshot) \in SUBSET s.snapshot
    BY DEF MissingRegistration, MissingStorage
  <2>2. /\ MissingRegistration(s.snapshot) \in SUBSET Identifiers
        /\ MissingStorage(s.snapshot) \in SUBSET Identifiers
    BY <1>4, <2>1
  <2> QED
    BY <2>1, <2>2, OneForEach
<1>6. \A i \in s.snapshot \ missing : Settled(i)
  BY DEF MissingRegistration, MissingStorage, Settled
<1> HIDE DEF todo, missing
<1>7. todo \in SUBSET Identifiers
  BY <1>4, <1>5
<1>8. /\ t \in PassStates /\ t.phase = "acquire" /\ t.crawl = s.crawl
      /\ t.snapshot = s.snapshot /\ t.todo = todo /\ t.got = s.got /\ t.lost = lost
  BY <1>1, <1>3, <1>7 DEF PassStates
<1> HIDE DEF t
<1>9. PassInv(t)
  <2>1. t.got \cap Bytes = {}
    BY <1>1, <1>8 DEF PassInv
  <2>2. s.crawl \subseteq listed /\ s.snapshot \subseteq listed
    BY <1>1 DEF PassInv
  <2>3. Unshared(t) => missing \subseteq todo
    BY <1>5, <1>8, <2>2 DEF Unshared
  <2>4. Unshared(t) => \A i \in t.snapshot \ t.todo : Settled(i)
    BY <1>6, <1>8, <2>3
  <2> QED
    BY <1>5, <1>8, <2>1, <2>2, <2>4 DEF PassInv
<1>10. \A q \in Passes : pass[q].phase = "acquire" => (t.lost <=> pass[q].lost)
  BY <1>2, <1>8
<1> QED
  BY <1>1, <1>8, <1>9, <1>10, LocalKeeps

(* A pass and the store move together.                                       *)
LEMMA StepKeeps ==
  ASSUME ReconciliationInv, NEW p \in Passes, NEW t \in PassStates, Local(p, t),
         ElsewhereSame, objects' \in SUBSET (Bytes \X {"pdf", "doc"}),
         located' \in Seq(Located), StoreInv', PassInv(t)',
         \A q \in Passes : q # p => PassInv(pass[q])',
         t.phase = "acquire" =>
           \A q \in Passes : pass[q].phase = "acquire" => (t.lost <=> pass[q].lost)
  PROVE  ReconciliationInv'
<1>1. /\ pass' \in [Passes -> PassStates] /\ pass'[p] = t
      /\ \A q \in Passes : q # p => pass'[q] = pass[q]
  BY DEF Local, ReconciliationInv, SourceTypes
<1>2. SourceTypes'
  BY <1>1 DEF ElsewhereSame, ReconciliationInv, SourceTypes
<1>3. SameLosses'
  BY <1>1 DEF ReconciliationInv, SameLosses
<1>4. PassInv(pass[p])'
  BY <1>1, PassIs
<1>5. \A q \in Passes : PassInv(pass[q])'
  BY <1>4
<1> QED
  BY <1>2, <1>3, <1>5 DEF ReconciliationInv

LEMMA StoreDocumentKeeps ==
  ASSUME ReconciliationInv, NEW p \in Passes, NEW x \in Bytes, StoreDocument(p, x)
  PROVE  ReconciliationInv'
<1>a. PICK s \in PassStates : s = pass[p]
  BY DEF ReconciliationInv, SourceTypes
<1>b. PICK t : t = [s EXCEPT !.got = {x, "put"}]
  OBVIOUS
<1>1. /\ s.phase = "acquire" /\ s.got = {x} /\ PassInv(s)
      /\ objects' = objects \cup {KeyOfBytes(x)}
      /\ Local(p, t) \/ Local(p, AtRest)
      /\ ElsewhereSame /\ located' = located
  BY <1>a, <1>b DEF StoreDocument, Acquiring, ReconciliationInv
<1>2. \A q \in Passes : pass[q].phase = "acquire" => (s.lost <=> pass[q].lost)
  BY <1>1, <1>a DEF ReconciliationInv, SameLosses
<1>3. x \in ToSet(served[Link[TargetOf(s)]]) /\ Format[x] # "html" /\ s.todo # {}
  BY <1>1 DEF PassInv
<1>4. Format[x] \in {"pdf", "doc"}
  BY <1>3, ReconciliationConstants
<1>5. objects' \in SUBSET (Bytes \X {"pdf", "doc"})
  BY <1>1, <1>4 DEF KeyOfBytes, ReconciliationInv, SourceTypes
<1>6. StoreInv'
  <2>1. \A key \in objects' : key[2] = Format[key[1]]
    BY <1>1 DEF KeyOfBytes, ReconciliationInv, StoreInv
  <2> QED
    BY <1>1, <2>1 DEF ElsewhereSame, ReconciliationInv, StoreInv, Sound, ToSet
<1>7. ASSUME NEW u \in PassStates, PassInv(u) PROVE PassInv(u)'
  BY <1>1, <1>7, WorldKeeps DEF ElsewhereSame
<1>8. /\ t \in PassStates /\ t.phase = s.phase /\ t.crawl = s.crawl
      /\ t.snapshot = s.snapshot /\ t.todo = s.todo /\ t.got = {x, "put"}
      /\ t.lost = s.lost
  BY <1>b DEF PassStates
<1>9. PassInv(t)'
  <2>1. PassInv(s)'
    BY <1>1, <1>7
  <2>2. TargetOf(t) = TargetOf(s)
    BY <1>8 DEF TargetOf
  <2>3. t.got \cap Bytes = {x}
    BY <1>8, ReconciliationConstants
  <2>4. /\ Unshared(t)' <=> Unshared(s)'
        /\ OnlyPdfs(t)' <=> OnlyPdfs(s)'
    BY <1>8 DEF Unshared, OnlyPdfs
  <2>5. \A z \in t.got \cap Bytes :
          /\ t.phase = "acquire" /\ t.todo # {}
          /\ z \in ToSet(served[Link[TargetOf(t)]]) /\ Format[z] # "html"
          /\ KeyOfBytes(z) \in objects'
    BY <1>1, <1>3, <1>8, <2>2, <2>3
  <2>6. /\ t.crawl \subseteq listed' /\ t.snapshot \subseteq listed' /\ t.todo \subseteq t.snapshot
        /\ t.phase = "acquire" /\ ~t.lost /\ Unshared(t)' /\ OnlyPdfs(t)' =>
             \A i \in t.snapshot \ t.todo : Settled(i)'
    BY <1>8, <2>1, <2>4 DEF PassInv
  <2>7. t.phase # "reported"
    BY <1>1, <1>8
  <2> QED
    BY <1>1, <2>5, <2>6, <2>7 DEF PassInv, ElsewhereSame, ToSet, TargetOf, KeyOfBytes
<1>10. ASSUME NEW q \in Passes PROVE pass'[q] = pass[q] => PassInv(pass[q])'
  <2>1. PICK u \in PassStates : u = pass[q]
    BY DEF ReconciliationInv, SourceTypes
  <2>2. PassInv(u)'
    BY <1>7, <2>1 DEF ReconciliationInv
  <2> QED
    BY <2>1, <2>2, PassIs
<1>11. ASSUME NEW q \in Passes, q # p PROVE PassInv(pass[q])'
  BY <1>1, <1>10, <1>11 DEF Local, ReconciliationInv, SourceTypes
<1>12. CASE Local(p, t)
  <2>1. \A q \in Passes : pass[q].phase = "acquire" => (t.lost <=> pass[q].lost)
    BY <1>2, <1>8
  <2> QED
    BY <1>1, <1>5, <1>6, <1>8, <1>9, <1>11, <1>12, <2>1, StepKeeps DEF ReconciliationInv, SourceTypes
<1>13. CASE Local(p, AtRest)
  <2>1. PassInv(AtRest)'
    BY <1>7, AtRestIs, Rests
  <2> QED
    BY <1>1, <1>5, <1>6, <1>11, <1>13, <2>1, AtRestIs, StepKeeps DEF ReconciliationInv, SourceTypes
<1> QED
  BY <1>1, <1>12, <1>13

LEMMA RegisterDocumentKeeps ==
  ASSUME ReconciliationInv, NEW p \in Passes, NEW x \in Bytes, RegisterDocument(p, x)
  PROVE  ReconciliationInv'
<1>1. PICK s \in PassStates : s = pass[p]
  BY DEF ReconciliationInv, SourceTypes
<1>2. PICK i : i = TargetOf(s)
  OBVIOUS
<1>3. PICK t : t = [s EXCEPT !.todo = @ \ {i}, !.got = {}, !.attempt = 1]
  OBVIOUS
<1> DEFINE row == [content |-> x, url |-> Link[i], identifier |-> i]
<1>4. /\ s.phase = "acquire" /\ s.todo # {} /\ s.got = {x, "put"} /\ PassInv(s)
      /\ SeenLast(row)
      /\ Local(p, t) \/ Local(p, AtRest)
      /\ ElsewhereSame /\ objects' = objects
  BY <1>1, <1>2, <1>3, TargetIs DEF RegisterDocument, Acquiring, ReconciliationInv
<1>5. \A q \in Passes : pass[q].phase = "acquire" => (s.lost <=> pass[q].lost)
  BY <1>1, <1>4 DEF ReconciliationInv, SameLosses
<1>6. /\ i \in s.todo /\ i \in listed /\ i \in Identifiers /\ Link[i] \in Links
      /\ x \in ToSet(served[Link[i]])
      /\ ~s.lost => <<x, Format[x]>> \in objects
  <2>1. i \in s.todo /\ i \in Identifiers
    BY <1>2, <1>4, TargetIn
  <2>2. x \in s.got \cap Bytes /\ "put" \in s.got
    BY <1>4
  <2> QED
    BY <1>2, <1>4, <2>1, <2>2 DEF PassInv, Links, KeyOfBytes
<1>7. /\ row \in Located /\ row.url = Link[row.identifier] /\ row.identifier = i
      /\ row.content = x
  BY <1>6 DEF Located
<1>8. /\ located' \in Seq(Located)
      /\ \A n \in DOMAIN located' :
             located'[n] = row \/ \E m \in DOMAIN located : located'[n] = located[m]
      /\ Seen(located', i) # {} /\ LastOf(located', i) = row
      /\ \A j : Link[j] # Link[i] /\ Seen(located, j) # {} =>
             Seen(located', j) # {} /\ LastOf(located', j) = LastOf(located, j)
  BY <1>4, <1>7, Registers DEF ReconciliationInv
<1>9. StoreInv'
  <2>1. Sound(row)
    BY <1>6, <1>7 DEF Sound
  <2>2. SUFFICES ASSUME NEW n \in DOMAIN located' PROVE Sound(located[n])'
    BY <1>4 DEF ReconciliationInv, StoreInv
  <2>3. PICK r : r = located'[n] /\ Sound(r)
    BY <1>8, <2>1 DEF ReconciliationInv, StoreInv
  <2>4. r.content \in ToSet(served[r.url]) /\ r.identifier \in listed /\ r.url = Link[r.identifier]
    BY <2>3 DEF Sound
  <2>5. served' = served /\ listed' = listed
    BY <1>4 DEF ElsewhereSame
  <2> QED
    BY <2>3, <2>4, <2>5 DEF Sound, ToSet
<1> HIDE DEF row
<1>10. ASSUME NEW u \in PassStates, ~u.lost => ~s.lost, NEW j \in u.snapshot,
              u.snapshot \subseteq listed, Unshared(u), OnlyPdfs(u), ~u.lost,
              j = i \/ Settled(j)
       PROVE  Settled(j)'
  <2>1. CASE j = i
    <3>1. Format[x] = "pdf"
      BY <1>6, <1>10, <2>1 DEF OnlyPdfs
    <3>2. <<x, "pdf">> \in objects'
      BY <1>4, <1>6, <1>10, <3>1
    <3> QED
      BY <1>7, <1>8, <2>1, <3>2, SettledIs
  <2>2. CASE j # i
    <3>1. Link[j] # Link[i]
      BY <1>6, <1>10, <2>2 DEF Unshared
    <3>2. Seen(located, j) # {} /\ <<LastOf(located, j).content, "pdf">> \in objects
      BY <1>10, <2>2, SettledIs
    <3> QED
      BY <1>4, <1>8, <3>1, <3>2, SettledIs
  <2> QED
    BY <2>1, <2>2
<1>11. \A u : (Unshared(u)' <=> Unshared(u)) /\ (OnlyPdfs(u)' <=> OnlyPdfs(u))
  BY <1>4 DEF ElsewhereSame, Unshared, OnlyPdfs, ToSet
<1>12. ASSUME NEW u \in PassStates, PassInv(u), u.phase = "acquire" => (s.lost <=> u.lost)
       PROVE  PassInv(u)'
  <2>1. u.phase = "acquire" /\ ~u.lost /\ Unshared(u) /\ OnlyPdfs(u) =>
          \A j \in u.snapshot \ u.todo : Settled(j)'
    BY <1>10, <1>12 DEF PassInv
  <2>2. /\ u.crawl \subseteq listed /\ u.snapshot \subseteq listed /\ u.todo \subseteq u.snapshot
        /\ \A z \in u.got \cap Bytes :
             /\ u.phase = "acquire" /\ u.todo # {}
             /\ z \in ToSet(served[Link[TargetOf(u)]]) /\ Format[z] # "html"
             /\ "put" \in u.got /\ ~u.lost => KeyOfBytes(z) \in objects
        /\ u.phase = "reported" =>
             /\ ~u.lost /\ Unshared(u) /\ OnlyPdfs(u) => u.complete
             /\ u.complete => \A j \in u.snapshot : \E z \in ToSet(served[Link[j]]) : Format[z] = "pdf"
    BY <1>12 DEF PassInv
  <2> QED
    BY <1>4, <1>11, <2>1, <2>2 DEF PassInv, ElsewhereSame, ToSet, TargetOf, KeyOfBytes
<1>13. ASSUME NEW q \in Passes, q # p PROVE PassInv(pass[q])'
  <2>1. PICK u \in PassStates : u = pass[q]
    BY DEF ReconciliationInv, SourceTypes
  <2>2. PassInv(u) /\ (u.phase = "acquire" => (s.lost <=> u.lost))
    BY <1>5, <2>1 DEF ReconciliationInv
  <2>3. pass'[q] = u
    BY <1>4, <1>13, <2>1 DEF Local, ReconciliationInv, SourceTypes
  <2> QED
    BY <1>12, <2>2, <2>3, PassIs
<1>14. objects' \in SUBSET (Bytes \X {"pdf", "doc"})
  BY <1>4 DEF ReconciliationInv, SourceTypes
<1>15. CASE Local(p, t)
  <2>1. /\ t \in PassStates /\ t.phase = s.phase /\ t.crawl = s.crawl
        /\ t.snapshot = s.snapshot /\ t.todo = s.todo \ {i} /\ t.got = {}
        /\ t.lost = s.lost
    BY <1>3 DEF PassStates
  <2>2. /\ Unshared(t) => Unshared(s)
        /\ OnlyPdfs(t) => OnlyPdfs(s)
    BY <2>1 DEF Unshared, OnlyPdfs
  <2>3. s.crawl \subseteq listed /\ s.snapshot \subseteq listed /\ s.todo \subseteq s.snapshot
    BY <1>4 DEF PassInv
  <2>4. ~t.lost /\ Unshared(t) /\ OnlyPdfs(t) => \A j \in t.snapshot \ t.todo : Settled(j)'
    <3>1. SUFFICES ASSUME ~t.lost, Unshared(t), OnlyPdfs(t), NEW j \in t.snapshot \ t.todo
          PROVE  Settled(j)'
      OBVIOUS
    <3>2. j = i \/ j \in s.snapshot \ s.todo
      BY <2>1
    <3>3. j = i \/ Settled(j)
      BY <1>4, <2>1, <2>2, <3>1, <3>2 DEF PassInv
    <3> QED
      BY <1>10, <2>1, <2>2, <2>3, <3>1, <3>3
  <2>5. PassInv(t)'
    <3>1. t.phase # "reported"
      BY <1>4, <2>1
    <3>2. /\ t.crawl \subseteq listed' /\ t.snapshot \subseteq listed'
          /\ t.todo \subseteq t.snapshot /\ t.got \cap Bytes = {}
      BY <1>4, <2>1, <2>3 DEF ElsewhereSame
    <3> QED
      BY <1>11, <2>4, <3>1, <3>2 DEF PassInv
  <2>6. \A q \in Passes : pass[q].phase = "acquire" => (t.lost <=> pass[q].lost)
    BY <1>5, <2>1
  <2> QED
    BY <1>4, <1>8, <1>9, <1>13, <1>14, <1>15, <2>1, <2>5, <2>6, StepKeeps
<1>16. CASE Local(p, AtRest)
  <2>1. PassInv(AtRest)'
    BY <1>12, AtRestIs, Rests
  <2> QED
    BY <1>4, <1>8, <1>9, <1>13, <1>14, <1>16, <2>1, AtRestIs, StepKeeps
<1> QED
  BY <1>4, <1>15, <1>16

LEMMA ReportPassKeeps ==
  ASSUME ReconciliationInv, NEW p \in Passes, ReportPass(p) PROVE ReconciliationInv'
<1>1. PICK s \in PassStates : s = pass[p]
  BY DEF ReconciliationInv, SourceTypes
<1>2. PICK done \in BOOLEAN : done = Complete(s.snapshot)
  BY DEF Complete
<1>3. PICK t : t = [AtRest EXCEPT !.phase = "reported", !.snapshot = s.snapshot,
                                  !.lost = s.lost, !.complete = done]
  OBVIOUS
<1>4. /\ s.phase = "acquire" /\ s.todo = {} /\ PassInv(s) /\ Local(p, t)
      /\ ElsewhereSame /\ UNCHANGED <<located, objects>>
  BY <1>1, <1>2, <1>3 DEF ReportPass, ReconciliationInv
<1>5. /\ t \in PassStates /\ t.phase = "reported" /\ t.crawl = {}
      /\ t.snapshot = s.snapshot /\ t.todo = {} /\ t.got = {} /\ t.lost = s.lost
      /\ t.complete = done
  BY <1>1, <1>2, <1>3, AtRestIs DEF PassStates
<1>6. ~t.lost /\ Unshared(t) /\ OnlyPdfs(t) => done
  <2>1. SUFFICES ASSUME ~t.lost, Unshared(t), OnlyPdfs(t) PROVE done
    OBVIOUS
  <2>2. ~s.lost /\ Unshared(s) /\ OnlyPdfs(s)
    BY <1>5, <2>1 DEF Unshared, OnlyPdfs
  <2>3. \A i \in s.snapshot : Settled(i)
    BY <1>4, <2>2 DEF PassInv
  <2>4. Complete(s.snapshot)
    BY <2>3 DEF Complete, MissingRegistration, Settled
  <2> QED
    BY <1>2, <2>4
<1>7. ASSUME done, NEW i \in s.snapshot
      PROVE  \E x \in ToSet(served[Link[i]]) : Format[x] = "pdf"
  <2>1. Settled(i)
    BY <1>2, <1>7 DEF Complete, MissingRegistration, Settled
  <2>2. Seen(located, i) # {} /\ <<LastOf(located, i).content, "pdf">> \in objects
    BY <2>1, SettledIs
  <2>3. PICK n \in Seen(located, i) : LastOf(located, i) = located[n]
    <3>1. PICK rows \in Seq(Located) : rows = located
      BY DEF ReconciliationInv, SourceTypes
    <3>2. Largest(Seen(rows, i)) \in Seen(rows, i)
      BY <2>2, <3>1, LastSeen
    <3> QED
      BY <3>1, <3>2 DEF LastOf
  <2>4. n \in DOMAIN located /\ located[n].url = Link[i]
    BY <2>3 DEF Seen
  <2>5. located[n].content \in ToSet(served[Link[i]])
    BY <2>4 DEF ReconciliationInv, StoreInv, Sound
  <2>6. Format[located[n].content] = "pdf"
    BY <2>2, <2>3 DEF ReconciliationInv, StoreInv
  <2> QED
    BY <2>5, <2>6
<1>8. PassInv(t)
  <2>1. s.snapshot \subseteq listed
    BY <1>4 DEF PassInv
  <2> QED
    BY <1>5, <1>6, <1>7, <2>1 DEF PassInv
<1> QED
  BY <1>4, <1>5, <1>8, LocalKeeps

LEMMA ReconciliationStep ==
  ASSUME ReconciliationInv, [ReconciliationNext]_reconciliationVars
  PROVE  ReconciliationInv'
<1>1. ASSUME UNCHANGED reconciliationVars PROVE ReconciliationInv'
  <2>1. SourceTypes'
    BY <1>1 DEF reconciliationVars, ReconciliationInv, SourceTypes
  <2> QED
    BY <1>1, <2>1, SourceGrows DEF reconciliationVars
<1>2. ASSUME NEW p \in Passes, PassEnds(p) PROVE ReconciliationInv'
  BY <1>2, PassRests DEF PassEnds
<1>3. ASSUME ReconciliationNext PROVE ReconciliationInv'
  BY <1>2, <1>3, SourceListsKeeps, SourceServesKeeps, LoseObjectKeeps, BeginPassKeeps,
     ResolveDetailKeeps, PlanPassKeeps, FetchFailsKeeps, FetchesKeeps, StoreDocumentKeeps,
     RegisterDocumentKeeps, ReportPassKeeps DEF ReconciliationNext
<1> QED
  BY <1>1, <1>3

LEMMA ReconciliationPromise == ReconciliationInv => ReconciledIsComplete
<1> SUFFICES ASSUME ReconciliationInv PROVE ReconciledIsComplete
  OBVIOUS
<1>1. ReconciliationTypeOK
  <2>1. \A p \in Passes : pass[p].phase \in {"idle", "crawl", "acquire", "reported"}
    BY DEF ReconciliationInv, SourceTypes, PassStates
  <2> QED
    BY <2>1 DEF ReconciliationInv, SourceTypes, Located, ReconciliationTypeOK
<1>2. ASSUME NEW p \in Passes, pass[p].phase = "reported", ~pass[p].lost
      PROVE  /\ Unshared(pass[p]) /\ OnlyPdfs(pass[p]) => pass[p].complete
             /\ pass[p].complete => \A i \in pass[p].snapshot :
                  \E x \in ToSet(served[Link[i]]) : Format[x] = "pdf"
  BY <1>2 DEF ReconciliationInv, PassInv
<1> DEFINE Pdfs(i) == {x \in ToSet(served[Link[i]]) : Format[x] = "pdf"}
<1>3. \A i : /\ Pdfs(i) = ToSet(served[Link[i]]) =>
                    \A x \in ToSet(served[Link[i]]) : Format[x] = "pdf"
             /\ Pdfs(i) = {} => ~ \E x \in ToSet(served[Link[i]]) : Format[x] = "pdf"
  OBVIOUS
<1>4. ASSUME NEW p \in Passes, pass[p].phase = "reported", ~pass[p].lost
      PROVE  /\ /\ ~ \E i \in pass[p].snapshot, j \in listed : i # j /\ Link[i] = Link[j]
                /\ \A i \in pass[p].snapshot : Pdfs(i) = ToSet(served[Link[i]])
                => pass[p].complete
             /\ (\E i \in pass[p].snapshot : Pdfs(i) = {}) => ~pass[p].complete
  <2> HIDE DEF Pdfs
  <2>1. ASSUME ~ \E i \in pass[p].snapshot, j \in listed : i # j /\ Link[i] = Link[j],
               \A i \in pass[p].snapshot : Pdfs(i) = ToSet(served[Link[i]])
        PROVE  pass[p].complete
    <3>1. Unshared(pass[p]) /\ OnlyPdfs(pass[p])
      BY <1>3, <2>1 DEF Unshared, OnlyPdfs
    <3> QED
      BY <1>2, <1>4, <3>1
  <2>2. (\E i \in pass[p].snapshot : Pdfs(i) = {}) => ~pass[p].complete
    BY <1>2, <1>3, <1>4
  <2> QED
    BY <2>1, <2>2
<1> QED
  BY <1>1, <1>4 DEF ReconciledIsComplete

-----------------------------------------------------------------------------
(* The three parts share no state: a step of one leaves the others alone.    *)
SourcesInv == PortalInv /\ PageInv /\ ReconciliationInv

LEMMA SourcesInvariant == SourcesSpec => []SourcesInv
<1>1. SourcesInit => SourcesInv
  BY NoInventoryYet, NoPagesYet, NothingReconciled DEF SourcesInit, SourcesInv
<1>2. ASSUME SourcesInv, [SourcesNext]_sceneVars PROVE SourcesInv'
  <2>1. /\ [PortalNext]_portalVars /\ [PageNext]_pageVars
        /\ [ReconciliationNext]_reconciliationVars
    BY <1>2 DEF SourcesNext, sceneVars, inventoryVars
  <2> QED
    BY <1>2, <2>1, PortalStep, PageStep, ReconciliationStep DEF SourcesInv
<1> QED
  BY <1>1, <1>2, PTL DEF SourcesSpec

(* Whatever is published, withdrawn or stored while a year, a prefix or a    *)
(* shard is read, and wherever a run dies, what an inventory publishes is    *)
(* one state of its source: what persist_scj_certified_inventory has put     *)
(* under a prefix is one certification of merge_scj_1994_inventory, and the  *)
(* pages scj_decisions_page_inventory publishes are those of its plan.       *)
THEOREM SnapshotsArePublished == SourcesSpec => []InventoriesAreSnapshots
<1>1. SourcesInv => InventoriesAreSnapshots
  BY PortalPromise, PagePromise DEF SourcesInv, InventoriesAreSnapshots
<1> QED
  BY <1>1, SourcesInvariant, PTL

(* However many passes overlap, wherever they die and whatever the source    *)
(* adds meanwhile, verify_source_completeness tells the truth of a source    *)
(* whose objects were not lost: it is complete when its URLs are not shared  *)
(* and served PDFs only, and it is not when one never served any.            *)
THEOREM ReportsAreTrue == SourcesSpec => []ReconciledIsComplete
<1>1. SourcesInv => ReconciledIsComplete
  BY ReconciliationPromise DEF SourcesInv
<1> QED
  BY <1>1, SourcesInvariant, PTL
=============================================================================
