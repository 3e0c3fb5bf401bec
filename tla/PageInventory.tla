---------------------------- MODULE PageInventory ----------------------------
(***************************************************************************)
(* Counting the pages of every stored decision (backend/scripts/           *)
(* scj_decisions_page_inventory.py, its workflow, and the listing of       *)
(* acquisition/s3_object_store.py): a plan lists the collection and deals  *)
(* its directories to shards, each shard lists its own again and counts,   *)
(* and the shards are merged and published, while backfills go on storing. *)
(***************************************************************************)
EXTENDS Integers, FiniteSets

CONSTANTS Decisions,   \* objects under decisions/
          Directory,   \* object to its directory; Directories stands for none
          Directories, \* the two-hex directories are 0 .. Directories - 1
          ShardCount,
          Pdf,         \* the objects with that extension
          MaxPlans, MaxReruns  \* bounds: dispatches, re-runs of one

ASSUME PageConstants ==
    /\ IsFiniteSet(Decisions)
    /\ Directories \in Nat /\ ShardCount \in 1 .. Directories
    /\ \A o \in Decisions : Directory[o] \in 0 .. Directories

VARIABLES bucket,  \* stored objects
          plan,    \* the run: number, attempt, phase, and its plan
          counts,  \* the job of each shard
          pages    \* published files, by number, attempt and name

pageVars == <<bucket, plan, counts, pages>>

Shards == 0 .. ShardCount - 1
Buckets(s) == {d \in 0 .. Directories - 1 : d % ShardCount = s}
In(D, objs) == {o \in objs : Directory[o] \in D}

NotCounted == [phase |-> "waiting", todo |-> {}, rows |-> {}]

PageInit ==
    /\ bucket = {} /\ pages = [k \in {} |-> {}]
    /\ plan = [number |-> 0, attempt |-> 0, phase |-> "idle", next |-> 0,
               listed |-> {}, began |-> {}]
    /\ counts = [s \in Shards |-> NotCounted]

AddDecision(o) == /\ o \notin bucket /\ bucket' = bucket \cup {o}
                  /\ UNCHANGED <<plan, counts, pages>>

-----------------------------------------------------------------------------
(* A dispatch cancels the run before it.                                     *)
DispatchPages ==
    /\ plan.number < MaxPlans
    /\ plan' = [number |-> plan.number + 1, attempt |-> 1, phase |-> "plan", next |-> 0,
                listed |-> {}, began |-> bucket]
    /\ counts' = [s \in Shards |-> NotCounted]
    /\ UNCHANGED <<bucket, pages>>

(* list_objects asks for one page of keys after the other, in key order.     *)
PlanPage ==
    /\ plan.phase = "plan"
    /\ plan' = [plan EXCEPT !.next = @ + 1,
                  !.listed = @ \cup In({plan.next}, bucket),
                  !.phase = IF plan.next = Directories THEN "count" ELSE "plan"]
    /\ UNCHANGED <<bucket, counts, pages>>

PlanFails == /\ plan.phase = "plan" /\ plan' = [plan EXCEPT !.phase = "ended"]
             /\ UNCHANGED <<bucket, counts, pages>>

-----------------------------------------------------------------------------
Job(s, job) == /\ plan.phase = "count" /\ counts' = [counts EXCEPT ![s] = job]
               /\ UNCHANGED <<bucket, plan, pages>>

BeginCount(s) ==
    /\ counts[s].phase = "waiting"
    /\ Job(s, [phase |-> "counting", todo |-> Buckets(s), rows |-> {}])

(* A PDF that cannot be read is a row without a count.                       *)
CountDirectory(s, unread) ==
    LET d == CHOOSE n \in counts[s].todo : \A m \in counts[s].todo : n <= m
        found == In({d}, bucket) IN
    /\ counts[s].phase = "counting" /\ counts[s].todo # {} /\ unread \subseteq found \cap Pdf
    /\ Job(s, [counts[s] EXCEPT !.todo = @ \ {d},
                 !.rows = @ \cup {[object |-> o, counted |-> o \in Pdf \ unread] : o \in found}])

Objects(rows) == {r.object : r \in rows}
SameCounts(rows, planned) ==
    /\ Cardinality(Objects(rows)) = Cardinality(planned)
    /\ Cardinality(Objects(rows) \cap Pdf) = Cardinality(planned \cap Pdf)

EndCount(s) ==
    /\ counts[s].phase = "counting" /\ counts[s].todo = {}
    /\ Job(s, [counts[s] EXCEPT !.phase =
                 IF SameCounts(counts[s].rows, In(Buckets(s), plan.listed))
                 THEN "counted" ELSE "failed"])

CountFails(s) == /\ counts[s].phase = "counting"
                 /\ Job(s, [NotCounted EXCEPT !.phase = "failed"])

-----------------------------------------------------------------------------
AllCounted == UNION {counts[s].rows : s \in Shards}

WholePlan(rows, planned) == SameCounts(rows, planned)

(* aggregate, once the jobs are over: all of them counted, or none merged.   *)
Aggregate ==
    /\ plan.phase = "count" /\ \A s \in Shards : counts[s].phase \in {"counted", "failed"}
    /\ plan' = [plan EXCEPT !.phase =
                  IF (\A s \in Shards : counts[s].phase = "counted")
                     /\ WholePlan(AllCounted, plan.listed)
                  THEN "summary" ELSE "ended"]
    /\ UNCHANGED <<bucket, counts, pages>>

(* Re-run failed jobs: the plan stands, and so do the shards that counted.   *)
RerunFailedJobs ==
    /\ plan.phase = "ended" /\ plan.next > Directories /\ plan.attempt <= MaxReruns
    /\ plan' = [plan EXCEPT !.attempt = @ + 1, !.phase = "count"]
    /\ counts' = [s \in Shards |->
                    IF counts[s].phase = "failed" THEN NotCounted ELSE counts[s]]
    /\ UNCHANGED <<bucket, pages>>

Summary(rows) == [objects |-> Cardinality(Objects(rows)),
                  unread |-> {o \in Objects(rows) \cap Pdf : [object |-> o, counted |-> FALSE] \in rows}]

(* Two puts under the prefix of this run and attempt; the job may die        *)
(* between them, or lose the answer of either.                               *)
PutFile(name, content, then) ==
    LET k == <<plan.number, plan.attempt, name>> IN
    /\ plan.phase = name
    /\ pages' = [q \in DOMAIN pages \cup {k} |-> IF q = k THEN content ELSE pages[q]]
    /\ plan' = [plan EXCEPT !.phase = then] /\ UNCHANGED <<bucket, counts>>

PublishSummary == \E then \in {"pages", "ended"} : PutFile("summary", Summary(AllCounted), then)
PublishPages == \E then \in {"published", "ended"} : PutFile("pages", AllCounted, then)

PageNext ==
    \/ DispatchPages \/ PlanPage \/ PlanFails \/ Aggregate \/ RerunFailedJobs
    \/ PublishSummary \/ PublishPages
    \/ \E o \in Decisions : AddDecision(o)
    \/ \E s \in Shards :
          \/ BeginCount(s) \/ EndCount(s) \/ CountFails(s)
          \/ \E unread \in SUBSET Pdf : CountDirectory(s, unread)

-----------------------------------------------------------------------------
PageTypeOK ==
    /\ bucket \subseteq Decisions /\ plan.listed \subseteq Decisions
    /\ plan.phase \in {"idle", "plan", "count", "summary", "pages", "published", "ended"}
    /\ \A s \in Shards : /\ counts[s].phase \in {"waiting", "counting", "counted", "failed"}
                         /\ Objects(counts[s].rows) \subseteq Decisions

(* Objects arrive while the plan lists, while shards list again and between   *)
(* the re-runs, and attempts die between the two puts.  A published list has  *)
(* one row for each object of the plan, among them everything stored when     *)
(* the plan began, and the summary beside it is of the same rows.             *)
PagesAreOfThePlan ==
    \A k \in {j \in DOMAIN pages : j[3] = "pages"} :
        /\ <<k[1], k[2], "summary">> \in DOMAIN pages
        /\ pages[<<k[1], k[2], "summary">>] = Summary(pages[k])
        /\ Cardinality(Objects(pages[k])) = Cardinality(pages[k])
        /\ k[1] = plan.number => /\ Objects(pages[k]) = plan.listed
                                 /\ plan.began \subseteq Objects(pages[k])
=============================================================================
