------------------------- MODULE AcquisitionRunProofs -------------------------
(* Type correctness of acquisition runs over the source catalogue, the     *)
(* lease, final outcomes, backed artifacts, counts, and the catalogue's    *)
(* compare-and-set, for any sources, documents, runs, executors and        *)
(* operators.                                                              *)
EXTENDS AcquisitionRun, FiniteSetTheorems, TLAPS

(* What a request holds at each step.                                      *)
ExecutorOK(v) ==
  /\ v.step = "idle" => v.run = None
  /\ v.step # "idle" => v.run \in Runs
  /\ v.step \in {"fetch", "store", "register", "fail"} => v.target \in Target
  /\ v.step \in {"store", "register"} => v.content \in Contents

ExecutorsOK == \A e \in Executors : ExecutorOK(executor[e])

TypeInv == TypeOK /\ ExecutorsOK

-----------------------------------------------------------------------------
LEMMA IdleType == Idle \in ExecutorState /\ ExecutorOK(Idle)
  BY DEF Idle, ExecutorState, ExecutorOK

LEMMA FiniteDocuments == \A S \in SUBSET Documents :
                           IsFiniteSet(S) /\ Cardinality(S) \in Nat
  BY CatalogConstantsOK, FS_Subset, FS_CardinalityType DEF CatalogAssumption

LEMMA CountType == ASSUME NEW r, NEW st PROVE Count(r, st) \in Nat
  BY FiniteDocuments DEF Count

LEMMA InitType == Init => TypeInv
<1> SUFFICES ASSUME Init PROVE TypeInv
  OBVIOUS
<1>1. CatalogTypeOK
  BY DEF Init, CatalogInit, CatalogTypeOK
<1>2. executor \in [Executors -> ExecutorState] /\ ExecutorsOK
  BY IdleType DEF Init, ExecutorsOK
<1> QED
  BY <1>1, <1>2 DEF Init, TypeInv, TypeOK

LEMMA CatalogType ==
  ASSUME CatalogTypeOK, CatalogNext
  PROVE  CatalogTypeOK'
<1> USE DEF CatalogTypeOK
<1>1. ASSUME NEW s \in Sources, NEW active \in BOOLEAN,
             CreateSource(s, active) \/ SetSourceActive(s, active)
      PROVE  CatalogTypeOK'
  BY <1>1 DEF CreateSource, SetSourceActive
<1>2. ASSUME NEW c \in Collections, NEW policy \in Policies,
             CreateCollection(c, policy)
      PROVE  CatalogTypeOK'
  BY <1>2 DEF CreateCollection, CollectionRow
<1>3. ASSUME NEW o \in Operators, NEW c \in Collections, ListCollections(o, c)
      PROVE  CatalogTypeOK'
  BY <1>3 DEF ListCollections, Exists
<1>4. ASSUME NEW o \in Operators, NEW policy \in Policies,
             SetCollectionPolicy(o, policy)
      PROVE  CatalogTypeOK'
  <2>1. /\ seen[o].collection \in Collections
        /\ collection[seen[o].collection].revision \in Nat
    BY <1>4 DEF SetCollectionPolicy, CollectionRow, NoCollection
  <2> QED
    BY <1>4, <2>1 DEF SetCollectionPolicy, CollectionRow
<1>5. ASSUME Bootstrap PROVE CatalogTypeOK'
  BY <1>5, CatalogConstantsOK
     DEF Bootstrap, CatalogAssumption, CollectionRow, Seeded
<1>6. ASSUME NEW d \in Documents, NEW row \in DocumentRow, Observe(d, row)
      PROVE  CatalogTypeOK'
  BY <1>6 DEF Observe, EnsureRegistry
<1> QED
  BY <1>1, <1>2, <1>3, <1>4, <1>5, <1>6 DEF CatalogNext

LEMMA UpsertType ==
  ASSUME TypeOK, NEW c \in Collections, NEW url \in Urls, NEW x \in Contents,
         UpsertArtifact(c, url, x)
  PROVE  /\ artifact' \in [Contents -> Sources \cup {None}]
         /\ location' \subseteq Contents \X (Urls \cup Keys)
<1>1. SourceOf[c] \in Sources
  BY CatalogConstantsOK DEF CatalogAssumption
<1>2. Key(c, x) \in Keys
  BY DEF Key, Keys
<1> QED
  BY <1>1, <1>2 DEF UpsertArtifact, TypeOK, Registry

LEMMA TargetFields ==
  ASSUME NEW t \in Target
  PROVE  /\ t.document \in Documents /\ t.url \in Urls
         /\ CollectionOf[t.document] \in Collections
  BY CatalogConstantsOK DEF Target, CatalogAssumption

LEMMA MyKeyType ==
  ASSUME TypeInv, NEW e \in Executors, executor[e].step \in {"store", "register"}
  PROVE  MyKey(e) \in Keys
<1>1. executor[e].target \in Target /\ executor[e].content \in Contents
  BY DEF TypeInv, ExecutorsOK, ExecutorOK
<1> QED
  BY <1>1, TargetFields DEF MyKey, KeyOf, Key, Keys

(* One executor moves on and keeps what it holds.                          *)
LEMMA ExecutorMoves ==
  ASSUME TypeInv, NEW e \in Executors, NEW v \in ExecutorState, ExecutorOK(v),
         executor' = [executor EXCEPT ![e] = v]
  PROVE  executor' \in [Executors -> ExecutorState] /\ ExecutorsOK'
  BY DEF TypeInv, TypeOK, ExecutorsOK

LEMMA VerdictType == \A r : Verdict(r) \in Final
  BY DEF Verdict, Final

LEMMA StepType ==
  ASSUME TypeInv, NEW e \in Executors, Step(e)
  PROVE  TypeInv'
<1>0. /\ executor \in [Executors -> ExecutorState]
      /\ executor[e] \in ExecutorState /\ ExecutorOK(executor[e])
  BY DEF TypeInv, TypeOK, ExecutorsOK
<1> DEFINE v == executor[e]
<1>1. CASE PendingTargets(e)
  <2>1. PICK T \in SUBSET Target :
          executor' = [executor EXCEPT ![e] = [v EXCEPT !.step = "next", !.todo = T]]
    BY <1>0, <1>1 DEF PendingTargets
  <2>2. /\ [v EXCEPT !.step = "next", !.todo = T] \in ExecutorState
        /\ ExecutorOK([v EXCEPT !.step = "next", !.todo = T])
    BY <1>0, <1>1 DEF PendingTargets, ExecutorState, ExecutorOK
  <2> QED
    BY <1>1, <2>1, <2>2, ExecutorMoves
       DEF PendingTargets, TypeInv, TypeOK, CatalogTypeOK, catalogVars, runVars,
           artifactVars
<1>2. CASE StartItem(e)
  <2>1. PICK t \in v.todo :
          executor' = [executor EXCEPT
            ![e] = [v EXCEPT !.step = "fetch", !.target = t, !.todo = @ \ {t}]]
    BY <1>0, <1>2 DEF StartItem
  <2>2. /\ [v EXCEPT !.step = "fetch", !.target = t, !.todo = @ \ {t}] \in ExecutorState
        /\ ExecutorOK([v EXCEPT !.step = "fetch", !.target = t, !.todo = @ \ {t}])
    BY <1>0, <1>2 DEF StartItem, ExecutorState, ExecutorOK
  <2> QED
    BY <1>2, <2>1, <2>2, ExecutorMoves
       DEF StartItem, TypeInv, TypeOK, CatalogTypeOK, catalogVars, runVars,
           artifactVars
<1>3. CASE Fetch(e)
  <2>1. CASE executor' = [executor EXCEPT ![e].step = "fail"]
    <3>1. executor' = [executor EXCEPT ![e] = [v EXCEPT !.step = "fail"]]
      BY <1>0, <2>1
    <3>2. /\ [v EXCEPT !.step = "fail"] \in ExecutorState
          /\ ExecutorOK([v EXCEPT !.step = "fail"])
      BY <1>0, <1>3 DEF Fetch, ExecutorState, ExecutorOK
    <3> QED
      BY <1>3, <3>1, <3>2, ExecutorMoves
         DEF Fetch, TypeInv, TypeOK, CatalogTypeOK, catalogVars, runVars,
             artifactVars
  <2>2. ASSUME NEW x \in Contents,
               executor' = [executor EXCEPT ![e].step = "store", ![e].content = x]
        PROVE  TypeInv'
    <3>1. executor' = [executor EXCEPT
            ![e] = [v EXCEPT !.step = "store", !.content = x]]
      BY <1>0, <2>2
    <3>2. /\ [v EXCEPT !.step = "store", !.content = x] \in ExecutorState
          /\ ExecutorOK([v EXCEPT !.step = "store", !.content = x])
      BY <1>0, <1>3 DEF Fetch, ExecutorState, ExecutorOK
    <3> QED
      BY <1>3, <3>1, <3>2, ExecutorMoves
         DEF Fetch, TypeInv, TypeOK, CatalogTypeOK, catalogVars, runVars,
             artifactVars
  <2> QED
    BY <1>3, <2>1, <2>2 DEF Fetch
<1>4. CASE Store(e)
  <2>1. PICK st \in {"register", "fail"} :
          executor' = [executor EXCEPT ![e] = [v EXCEPT !.step = st]]
    BY <1>0, <1>4 DEF Store
  <2>2. /\ [v EXCEPT !.step = st] \in ExecutorState
        /\ ExecutorOK([v EXCEPT !.step = st])
    BY <1>0, <1>4 DEF Store, ExecutorState, ExecutorOK
  <2>3. stored' \subseteq Keys
    BY <1>4, MyKeyType DEF Store, TypeInv, TypeOK
  <2> QED
    BY <1>4, <2>1, <2>2, <2>3, ExecutorMoves
       DEF Store, TypeInv, TypeOK, CatalogTypeOK, catalogVars, runVars,
           artifactVars
<1>5. CASE Register(e)
  <2>1. PICK st \in {"next", "fail"} :
          executor' = [executor EXCEPT ![e] = [v EXCEPT !.step = st]]
    BY <1>0, <1>5 DEF Register, RegisterArtifact
  <2>2. /\ [v EXCEPT !.step = st] \in ExecutorState
        /\ ExecutorOK([v EXCEPT !.step = st])
    BY <1>0, <1>5 DEF Register, ExecutorState, ExecutorOK
  <2>3. CASE UNCHANGED <<catalogVars, runVars, artifactVars, stored>>
    BY <2>1, <2>2, <2>3, ExecutorMoves
       DEF TypeInv, TypeOK, CatalogTypeOK, catalogVars, runVars, artifactVars
  <2>4. ASSUME NEW next \in {"next", "fail"}, RegisterArtifact(e, next)
        PROVE  TypeInv'
    <3>1. /\ v.target \in Target /\ v.content \in Contents /\ v.run \in Runs
          /\ v.target.document \in Documents /\ v.target.url \in Urls
          /\ CollectionOf[v.target.document] \in Collections
      BY <1>0, <1>5, TargetFields DEF Register, ExecutorOK
    <3>2. /\ artifact' \in [Contents -> Sources \cup {None}]
          /\ location' \subseteq Contents \X (Urls \cup Keys)
      BY <2>4, <3>1, UpsertType DEF RegisterArtifact, TypeInv
    <3>3. link' \subseteq Documents \X Contents
      BY <2>4, <3>1 DEF RegisterArtifact, TypeInv, TypeOK
    <3>4. item' \in [Runs -> [Documents -> ItemRow \cup {NoItem}]]
      <4>1. [status |-> "acquired", artifact |-> v.content] \in ItemRow
        BY <3>1 DEF ItemRow, Obtained
      <4> QED
        BY <2>4, <3>1, <4>1 DEF RegisterArtifact, TypeInv, TypeOK
    <3>5. UNCHANGED <<catalogVars, run, stored>>
      BY <2>4 DEF RegisterArtifact
    <3> QED
      BY <2>1, <2>2, <3>2, <3>3, <3>4, <3>5, ExecutorMoves
         DEF TypeInv, TypeOK, CatalogTypeOK, catalogVars
  <2> QED
    BY <1>5, <2>3, <2>4 DEF Register
<1>6. CASE MarkItemFailed(e)
  <2>1. executor' = [executor EXCEPT ![e] = [v EXCEPT !.step = "next"]]
    BY <1>0, <1>6 DEF MarkItemFailed
  <2>2. /\ [v EXCEPT !.step = "next"] \in ExecutorState
        /\ ExecutorOK([v EXCEPT !.step = "next"])
        /\ v.run \in Runs /\ v.target \in Target
    BY <1>0, <1>6 DEF MarkItemFailed, ExecutorState, ExecutorOK
  <2>3. ASSUME NEW row \in ItemRow \cup {NoItem}
        PROVE  Failed(row) \in ItemRow \cup {NoItem}
    BY AcquisitionConstantsOK
       DEF AcquisitionAssumption, Failed, ItemRow, NoItem
  <2>4. item' \in [Runs -> [Documents -> ItemRow \cup {NoItem}]]
    BY <1>6, <2>2, <2>3, TargetFields DEF MarkItemFailed, TypeInv, TypeOK
  <2> QED
    BY <1>6, <2>1, <2>2, <2>4, ExecutorMoves
       DEF MarkItemFailed, TypeInv, TypeOK, CatalogTypeOK, catalogVars,
           artifactVars
<1>7. CASE FinalizeRun(e)
  <2>1. v.run \in Runs /\ run[v.run] \in RunRow \cup {NoRun}
    BY <1>0, <1>7 DEF FinalizeRun, ExecutorOK, TypeInv, TypeOK
  <2>2. run' \in [Runs -> RunRow \cup {NoRun}]
    <3>1. CASE run' = run
      BY <3>1 DEF TypeInv, TypeOK
    <3>2. CASE run' # run
      <4>1. /\ run[v.run].status = "running"
            /\ run' = [run EXCEPT
                 ![v.run].status = Verdict(v.run),
                 ![v.run].acquired = Count(v.run, "acquired"),
                 ![v.run].present = Count(v.run, "already_present"),
                 ![v.run].failed = Count(v.run, "failed")]
        BY <1>7, <3>2 DEF FinalizeRun
      <4>2. run[v.run] \in RunRow
        BY <2>1, <4>1, AcquisitionConstantsOK DEF AcquisitionAssumption, NoRun
      <4>3. /\ Verdict(v.run) \in Final /\ Count(v.run, "acquired") \in Nat
            /\ Count(v.run, "already_present") \in Nat
            /\ Count(v.run, "failed") \in Nat
        BY VerdictType, CountType
      <4> QED
        BY <2>1, <4>1, <4>2, <4>3 DEF RunRow, TypeInv, TypeOK
    <3> QED
      BY <3>1, <3>2
  <2> QED
    BY <1>7, <2>2, IdleType, ExecutorMoves
       DEF FinalizeRun, TypeInv, TypeOK, CatalogTypeOK, catalogVars,
           artifactVars
<1> QED
  BY <1>1, <1>2, <1>3, <1>4, <1>5, <1>6, <1>7 DEF Step

LEMMA NextType == TypeInv /\ [Next]_vars => TypeInv'
<1> SUFFICES ASSUME TypeInv, [Next]_vars PROVE TypeInv'
  OBVIOUS
<1>1. ASSUME CatalogNext, UNCHANGED <<runVars, artifactVars, stored, executor>>
      PROVE  TypeInv'
  BY <1>1, CatalogType
     DEF TypeInv, TypeOK, ExecutorsOK, runVars, artifactVars
<1>2. ASSUME NEW r \in Runs, NEW c \in Collections,
             NEW selection \in SUBSET Documents, CreateRun(r, c, selection)
      PROVE  TypeInv'
  <2>1. /\ Cardinality(selection) \in Nat
        /\ Cardinality({d \in selection : Linked(d)}) \in Nat
    BY FiniteDocuments
  <2>2. run' \in [Runs -> RunRow \cup {NoRun}]
    BY <1>2, <2>1 DEF CreateRun, NoRun, RunRow, TypeInv, TypeOK
  <2>3. item' \in [Runs -> [Documents -> ItemRow \cup {NoItem}]]
    BY <1>2 DEF CreateRun, ItemRow, Obtained, TypeInv, TypeOK
  <2> QED
    BY <1>2, <2>2, <2>3
       DEF CreateRun, TypeInv, TypeOK, CatalogTypeOK, ExecutorsOK,
           catalogVars, artifactVars
<1>3. ASSUME NEW e \in Executors, NEW r \in Runs, ClaimRun(e, r)
      PROVE  TypeInv'
  <2>1. run[r] \in RunRow
    BY <1>3, AcquisitionConstantsOK
       DEF ClaimRun, Claimable, AcquisitionAssumption, NoRun, TypeInv, TypeOK
  <2>2. run' \in [Runs -> RunRow \cup {NoRun}]
    BY <1>3, <2>1 DEF ClaimRun, RunRow, TypeInv, TypeOK
  <2>3. /\ [Idle EXCEPT !.step = "read", !.run = r] \in ExecutorState
        /\ ExecutorOK([Idle EXCEPT !.step = "read", !.run = r])
    BY DEF Idle, ExecutorState, ExecutorOK
  <2> QED
    BY <1>3, <2>2, <2>3, ExecutorMoves
       DEF ClaimRun, TypeInv, TypeOK, CatalogTypeOK, catalogVars, artifactVars
<1>4. ASSUME NEW e \in Executors, Step(e) PROVE TypeInv'
  BY <1>4, StepType
<1>5. ASSUME NEW e \in Executors, Die(e) PROVE TypeInv'
  BY <1>5, IdleType, ExecutorMoves
     DEF Die, TypeInv, TypeOK, CatalogTypeOK, catalogVars, runVars, artifactVars
<1>6. ASSUME NEW c \in Collections, NEW x \in Contents, CrawlerStores(c, x)
      PROVE  TypeInv'
  <2>1. Key(c, x) \in Keys
    BY DEF Key, Keys
  <2> QED
    BY <1>6, <2>1
       DEF CrawlerStores, TypeInv, TypeOK, CatalogTypeOK, ExecutorsOK,
           catalogVars, runVars, artifactVars
<1>7. ASSUME NEW c \in Collections, NEW x \in Contents, NEW url \in Urls,
             CatalogArtifact(c, url, x)
      PROVE  TypeInv'
  <2>1. /\ artifact' \in [Contents -> Sources \cup {None}]
        /\ location' \subseteq Contents \X (Urls \cup Keys)
    BY <1>7, UpsertType DEF CatalogArtifact, TypeInv
  <2>2. CatalogTypeOK'
    BY <1>7 DEF CatalogArtifact, EnsureRegistry, CatalogTypeOK, TypeInv, TypeOK
  <2> QED
    BY <1>7, <2>1, <2>2 DEF CatalogArtifact, TypeInv, TypeOK, ExecutorsOK, runVars
<1>8. ASSUME NEW d \in Documents, NEW x \in Contents, LinkArtifact(d, x)
      PROVE  TypeInv'
  BY <1>8 DEF LinkArtifact, TypeInv, TypeOK, CatalogTypeOK, ExecutorsOK,
              catalogVars, runVars
<1>9. ASSUME UNCHANGED vars PROVE TypeInv'
  BY <1>9 DEF vars, TypeInv, TypeOK, CatalogTypeOK, ExecutorsOK, catalogVars,
              runVars, artifactVars
<1> QED
  BY <1>1, <1>2, <1>3, <1>4, <1>5, <1>6, <1>7, <1>8, <1>9 DEF Next

(* Every table, the object store and every request keep their type.        *)
THEOREM TypeCorrect == Spec => []TypeOK
<1>1. TypeInv => TypeOK
  BY DEF TypeInv
<1> QED
  BY InitType, NextType, <1>1, PTL DEF Spec

-----------------------------------------------------------------------------
(* The lease.                                                              *)
LeaseInv == TypeInv /\ RunHasOneExecutor

(* One request moves on with the run it has; the runs stay.                *)
LEMMA LeaseKept ==
  ASSUME LeaseInv, NEW e \in Executors, NEW v \in ExecutorState,
         executor[e].step # "idle", v.run = executor[e].run,
         executor' = [executor EXCEPT ![e] = v], run' = run
  PROVE  RunHasOneExecutor'
  BY DEF LeaseInv, TypeInv, TypeOK, RunHasOneExecutor

(* One request lets go of its run, and no other run changes.               *)
LEMMA LeaseReleased ==
  ASSUME LeaseInv, NEW e \in Executors, executor[e].step # "idle",
         executor' = [executor EXCEPT ![e] = Idle],
         \A r \in Runs : r # executor[e].run => run'[r] = run[r]
  PROVE  RunHasOneExecutor'
<1> SUFFICES ASSUME NEW f \in Executors, executor'[f].step # "idle"
             PROVE  /\ run'[executor'[f].run].status = "running"
                    /\ \A g \in Executors \ {f} :
                         executor'[g].run # executor'[f].run
  BY DEF RunHasOneExecutor
<1>1. f # e /\ executor'[f] = executor[f]
  BY DEF Idle, LeaseInv, TypeInv, TypeOK
<1>2. executor[f].run \in Runs /\ executor[f].run # executor[e].run
  BY <1>1 DEF LeaseInv, TypeInv, ExecutorsOK, ExecutorOK, RunHasOneExecutor
<1>3. run'[executor'[f].run].status = "running"
  BY <1>1, <1>2 DEF LeaseInv, RunHasOneExecutor
<1>4. ASSUME NEW g \in Executors \ {f} PROVE executor'[g].run # executor'[f].run
  <2>1. executor'[g].run = None \/ executor'[g] = executor[g]
    BY DEF Idle, LeaseInv, TypeInv, TypeOK
  <2> QED
    BY <1>1, <1>2, <2>1, AcquisitionConstantsOK
       DEF AcquisitionAssumption, LeaseInv, RunHasOneExecutor
<1> QED
  BY <1>3, <1>4

LEMMA LeaseStep ==
  ASSUME LeaseInv, NEW e \in Executors, Step(e)
  PROVE  RunHasOneExecutor'
<1> DEFINE v == executor[e]
<1>0. executor \in [Executors -> ExecutorState] /\ v \in ExecutorState
  BY DEF LeaseInv, TypeInv, TypeOK
<1>1. CASE FinalizeRun(e)
  <2>1. v.step # "idle" /\ executor' = [executor EXCEPT ![e] = Idle]
    BY <1>1 DEF FinalizeRun
  <2>2. \A r \in Runs : r # v.run => run'[r] = run[r]
    BY <1>1 DEF FinalizeRun, LeaseInv, TypeInv, TypeOK
  <2> QED
    BY <2>1, <2>2, LeaseReleased
<1>2. CASE ~FinalizeRun(e)
  <2>1. v.step # "idle" /\ run' = run
    BY <1>2 DEF Step, PendingTargets, StartItem, Fetch, Store, Register,
                RegisterArtifact, MarkItemFailed, runVars
  <2>2. PICK w \in ExecutorState :
          w.run = v.run /\ executor' = [executor EXCEPT ![e] = w]
    <3>1. executor'[e] \in ExecutorState
      BY StepType DEF LeaseInv, TypeInv, TypeOK
    <3>2. /\ executor' \in [Executors -> ExecutorState]
          /\ \A f \in Executors \ {e} : executor'[f] = executor[f]
          /\ executor'[e].run = v.run
      <4>1. executor' \in [Executors -> ExecutorState]
        BY StepType DEF LeaseInv, TypeInv, TypeOK
      <4>2. CASE PendingTargets(e)
        <5>1. PICK T : executor' = [executor EXCEPT
                         ![e] = [v EXCEPT !.step = "next", !.todo = T]]
          BY <1>0, <4>2 DEF PendingTargets
        <5> QED
          BY <1>0, <4>1, <5>1 DEF ExecutorState
      <4>5. CASE StartItem(e)
        BY <1>0, <4>1, <4>5 DEF StartItem, ExecutorState
      <4>6. CASE Fetch(e)
        BY <1>0, <4>1, <4>6 DEF Fetch, ExecutorState
      <4>3. CASE Store(e) \/ MarkItemFailed(e)
        BY <1>0, <4>1, <4>3 DEF Store, MarkItemFailed, ExecutorState
      <4>4. CASE Register(e)
        BY <1>0, <4>1, <4>4 DEF Register, RegisterArtifact, ExecutorState
      <4> QED
        BY <1>2, <4>1, <4>2, <4>3, <4>4, <4>5, <4>6 DEF Step
    <3>3. executor' = [executor EXCEPT ![e] = executor'[e]]
      BY <1>0, <3>2
    <3> QED
      BY <3>1, <3>2, <3>3
  <2> QED
    BY <2>1, <2>2, LeaseKept
<1> QED
  BY <1>1, <1>2

LEMMA NextLease == LeaseInv /\ [Next]_vars => LeaseInv'
<1> SUFFICES ASSUME LeaseInv, [Next]_vars PROVE RunHasOneExecutor'
  BY NextType DEF LeaseInv
<1>1. ASSUME UNCHANGED <<run, executor>> PROVE RunHasOneExecutor'
  BY <1>1 DEF LeaseInv, RunHasOneExecutor
<1>2. ASSUME NEW r \in Runs, NEW c \in Collections,
             NEW selection \in SUBSET Documents, CreateRun(r, c, selection)
      PROVE  RunHasOneExecutor'
  <2>1. \A e \in Executors :
          executor[e].step # "idle" => executor[e].run # r /\ executor[e].run \in Runs
    BY <1>2, AcquisitionConstantsOK
       DEF CreateRun, NoRun, AcquisitionAssumption, LeaseInv, RunHasOneExecutor,
           TypeInv, ExecutorsOK, ExecutorOK
  <2>2. \A q \in Runs : q # r => run'[q] = run[q]
    BY <1>2 DEF CreateRun, LeaseInv, TypeInv, TypeOK
  <2> QED
    BY <1>2, <2>1, <2>2 DEF CreateRun, LeaseInv, RunHasOneExecutor
<1>3. ASSUME NEW e \in Executors, NEW r \in Runs, ClaimRun(e, r)
      PROVE  RunHasOneExecutor'
  <2> DEFINE v == [Idle EXCEPT !.step = "read", !.run = r]
  <2>0. v.step = "read" /\ v.run = r
    BY DEF Idle
  <2>1. \A f \in Executors : executor[f].run # r
    BY <1>3, AcquisitionConstantsOK
       DEF ClaimRun, Claimable, AcquisitionAssumption, CatalogAssumption, LeaseInv,
           RunHasOneExecutor, TypeInv, ExecutorsOK, ExecutorOK
  <2>2. /\ executor' = [executor EXCEPT ![e] = v]
        /\ run' = [run EXCEPT ![r].status = "running"]
        /\ executor[e].step = "idle"
    BY <1>3 DEF ClaimRun
  <2>3. /\ executor'[e] = v
        /\ \A f \in Executors \ {e} : executor'[f] = executor[f]
    BY <2>2 DEF LeaseInv, TypeInv, TypeOK
  <2>4. /\ run'[r].status = "running"
        /\ \A q \in Runs \ {r} : run'[q] = run[q]
    <3>1. run[r] \in RunRow
      BY <1>3, AcquisitionConstantsOK
         DEF ClaimRun, Claimable, AcquisitionAssumption, NoRun, LeaseInv, TypeInv,
             TypeOK
    <3> QED
      BY <2>2, <3>1 DEF RunRow, LeaseInv, TypeInv, TypeOK
  <2>5. \A f \in Executors : executor[f].step # "idle" => executor[f].run \in Runs
    BY DEF LeaseInv, TypeInv, ExecutorsOK, ExecutorOK
  <2> HIDE DEF v
  <2>6. ASSUME NEW f \in Executors, executor'[f].step # "idle"
        PROVE  run'[executor'[f].run].status = "running"
    BY <2>0, <2>1, <2>3, <2>4, <2>5, <2>6 DEF LeaseInv, RunHasOneExecutor
  <2>7. ASSUME NEW f \in Executors, executor'[f].step # "idle",
               NEW g \in Executors \ {f}
        PROVE  executor'[g].run # executor'[f].run
    <3>1. CASE f = e
      BY <2>0, <2>1, <2>3, <3>1
    <3>2. CASE g = e
      BY <2>0, <2>1, <2>3, <3>2
    <3>3. CASE f # e /\ g # e
      BY <2>3, <2>7, <3>3 DEF LeaseInv, RunHasOneExecutor
    <3> QED
      BY <3>1, <3>2, <3>3
  <2> QED
    BY <2>6, <2>7 DEF RunHasOneExecutor
<1>4. ASSUME NEW e \in Executors, Step(e) PROVE RunHasOneExecutor'
  BY <1>4, LeaseStep
<1>5. ASSUME NEW e \in Executors, Die(e) PROVE RunHasOneExecutor'
  BY <1>5, LeaseReleased DEF Die, runVars
<1> QED
  BY <1>1, <1>2, <1>3, <1>4, <1>5
     DEF Next, CrawlerStores, CatalogArtifact, LinkArtifact, runVars, vars

(* A run is executed by one request, and by nobody once it has a verdict   *)
(* (claim_run, finalize_run).                                              *)
THEOREM OneExecutor == Spec => []RunHasOneExecutor
<1>1. Init => LeaseInv
  BY InitType DEF Init, Idle, LeaseInv, RunHasOneExecutor
<1>2. LeaseInv => RunHasOneExecutor
  BY DEF LeaseInv
<1> QED
  BY <1>1, NextLease, <1>2, PTL DEF Spec

-----------------------------------------------------------------------------
(* What an operator read is a version of the row: the current one if the   *)
(* revision still is.                                                      *)
ReadIsCurrent(o) ==
  LET now == collection[seen[o].collection] IN
  /\ Exists(seen[o].collection)
  /\ seen[o].row.revision \leq now.revision
  /\ seen[o].row.revision = now.revision => seen[o].row = now

SeenInv ==
  CatalogTypeOK /\ \A o \in Operators : seen[o] # None => ReadIsCurrent(o)

LEMMA ExistingRow ==
  ASSUME CatalogTypeOK, NEW c \in Collections
  PROVE  Exists(c) <=> collection[c] \in CollectionRow
<1>1. NoCollection \notin CollectionRow
  BY CatalogConstantsOK DEF CatalogAssumption, NoCollection, CollectionRow
<1> QED
  BY <1>1 DEF Exists, CatalogTypeOK

LEMMA SeenType ==
  ASSUME CatalogTypeOK, NEW o \in Operators, seen[o] # None
  PROVE  seen[o].collection \in Collections /\ seen[o].row \in CollectionRow
  BY DEF CatalogTypeOK

LEMMA NextSeen == SeenInv /\ [CatalogNext]_catalogVars => SeenInv'
<1> SUFFICES ASSUME SeenInv, [CatalogNext]_catalogVars,
                    NEW o \in Operators, seen'[o] # None
             PROVE  ReadIsCurrent(o)'
  BY CatalogType DEF SeenInv, CatalogTypeOK, catalogVars
<1>1. CASE seen'[o] = seen[o] /\ collection'[seen[o].collection]
                                   = collection[seen[o].collection]
  BY <1>1 DEF SeenInv, ReadIsCurrent, Exists
<1>2. ASSUME NEW c \in Collections, NEW policy \in Policies,
             CreateCollection(c, policy)
      PROVE  ReadIsCurrent(o)'
  <2>1. seen' = seen /\ seen[o].collection # c
    BY <1>2 DEF CreateCollection, SeenInv, ReadIsCurrent
  <2> QED
    BY <1>1, <1>2, <2>1, SeenType DEF CreateCollection, SeenInv, CatalogTypeOK
<1>3. ASSUME NEW p \in Operators, NEW c \in Collections, ListCollections(p, c)
      PROVE  ReadIsCurrent(o)'
  <2>1. CASE p = o
    <3>1. /\ seen'[o] = [collection |-> c, row |-> collection[c]]
          /\ collection' = collection
      BY <1>3, <2>1 DEF ListCollections, SeenInv, CatalogTypeOK
    <3>2. collection[c].revision \in Nat /\ Exists(c)
      BY <1>3, ExistingRow DEF ListCollections, SeenInv, CollectionRow
    <3> QED
      BY <3>1, <3>2 DEF ReadIsCurrent, Exists
  <2>2. CASE p # o
    BY <1>1, <1>3, <2>2 DEF ListCollections, SeenInv, CatalogTypeOK
  <2> QED
    BY <2>1, <2>2
<1>4. ASSUME NEW p \in Operators, NEW policy \in Policies,
             SetCollectionPolicy(p, policy)
      PROVE  ReadIsCurrent(o)'
  <2> DEFINE k == seen[o].collection
  <2>1. seen' = seen /\ k \in Collections /\ seen[o].row \in CollectionRow
    BY <1>4, SeenType DEF SetCollectionPolicy, SeenInv
  <2>2. CASE seen[p].collection = k
    <3>1. /\ collection[k] \in CollectionRow /\ Exists(k)
          /\ seen[o].row.revision \leq collection[k].revision
      BY <2>1, ExistingRow DEF SeenInv, ReadIsCurrent
    <3>2. collection'[k] = [policy |-> policy, revision |-> collection[k].revision + 1]
      BY <1>4, <2>1, <2>2 DEF SetCollectionPolicy, SeenInv, CatalogTypeOK
    <3>3. collection'[k] # NoCollection
      BY <3>2, CatalogConstantsOK DEF CatalogAssumption, NoCollection
    <3>4. seen[o].row.revision < collection'[k].revision
      BY <2>1, <3>1, <3>2 DEF CollectionRow
    <3> QED
      BY <2>1, <3>1, <3>2, <3>3, <3>4 DEF ReadIsCurrent, CollectionRow, Exists
  <2>3. CASE seen[p].collection # k
    BY <1>1, <1>4, <2>1, <2>3 DEF SetCollectionPolicy, SeenInv, CatalogTypeOK
  <2> QED
    BY <2>2, <2>3
<1>5. CASE Bootstrap
  <2>1. seen' = seen
    BY <1>5 DEF Bootstrap
  <2>2. Exists(seen[o].collection) /\ seen[o].collection \in Collections
    BY <2>1, SeenType DEF SeenInv, ReadIsCurrent
  <2> QED
    BY <1>1, <1>5, <2>1, <2>2 DEF Bootstrap
<1> QED
  BY <1>1, <1>2, <1>3, <1>4, <1>5
     DEF CatalogNext, CreateSource, SetSourceActive, Observe, catalogVars

LEMMA ChangeIsRead ==
  ASSUME SeenInv, [CatalogNext]_catalogVars, NEW c \in Collections,
         Exists(c), collection'[c] # collection[c]
  PROVE  \E o \in Operators : seen[o] = [collection |-> c, row |-> collection[c]]
<1>1. ASSUME NEW o \in Operators, NEW policy \in Policies,
             SetCollectionPolicy(o, policy)
      PROVE  seen[o] = [collection |-> c, row |-> collection[c]]
  <2>1. /\ seen[o] # None /\ seen[o].collection = c
        /\ seen[o].row.revision = collection[c].revision
    BY <1>1 DEF SetCollectionPolicy, CurrentRevision, SeenInv, CatalogTypeOK
  <2>2. seen[o].row = collection[c]
    BY <2>1 DEF SeenInv, ReadIsCurrent
  <2> QED
    BY <2>1, <2>2 DEF SeenInv, CatalogTypeOK
<1> QED
  BY <1>1
     DEF CatalogNext, CreateSource, SetSourceActive, CreateCollection,
         ListCollections, Bootstrap, Observe, catalogVars, SeenInv, CatalogTypeOK

(* Whatever acquisition does, the catalogue takes a step of its own or the *)
(* collections and what was read stay.                                     *)
LEMMA CatalogSteps ==
  [Next]_vars => [CatalogNext]_catalogVars \/ UNCHANGED <<collection, seen, document>>
  BY DEF Next, CreateRun, ClaimRun, Step, PendingTargets, StartItem, Fetch, Store,
         Register, RegisterArtifact, MarkItemFailed, FinalizeRun, Die,
         CrawlerStores, CatalogArtifact, LinkArtifact, catalogVars, vars

(* Nobody, the bootstrap included, changes a collection except from the    *)
(* row as it stands (set_collection_policy, apply_database_bootstrap).     *)
THEOREM NoLostDecision == Spec => ChangesStartFromWhatWasRead
<1>1. Init => TypeInv /\ SeenInv
  BY InitType DEF Init, CatalogInit, SeenInv, TypeInv, TypeOK
<1>2. TypeInv /\ SeenInv /\ [Next]_vars => (TypeInv /\ SeenInv)'
  <2> SUFFICES ASSUME TypeInv, SeenInv, [Next]_vars PROVE SeenInv'
    BY NextType
  <2>1. CASE [CatalogNext]_catalogVars
    BY <2>1, NextSeen
  <2>2. CASE UNCHANGED <<collection, seen, document>>
    BY <2>2, NextType DEF TypeInv, TypeOK, SeenInv, ReadIsCurrent, Exists
  <2> QED
    BY <2>1, <2>2, CatalogSteps
<1>3. SeenInv /\ [Next]_vars =>
        [\A c \in Collections :
           Exists(c) /\ collection'[c] # collection[c] =>
             \E o \in Operators :
               seen[o] = [collection |-> c, row |-> collection[c]]]_catalogVars
  BY CatalogSteps, ChangeIsRead
<1> QED
  BY <1>1, <1>2, <1>3, PTL DEF Spec, ChangesStartFromWhatWasRead

-----------------------------------------------------------------------------
(* The ledger of one run.                                                  *)
Chosen(r) == {d \in Documents : item[r][d] # NoItem}

Counted(r) ==
  /\ NothingPending(r)
  /\ run[r].acquired = Count(r, "acquired")
  /\ run[r].present = Count(r, "already_present")
  /\ run[r].failed = Count(r, "failed")
  /\ run[r].status = Verdict(r)

LedgerOK(r) ==
  /\ run[r] = NoRun => \A d \in Documents : item[r][d] = NoItem
  /\ run[r] # NoRun => run[r].selected = Cardinality(Chosen(r))
  /\ run[r].status \in Final => Counted(r)

LedgerInv == LeaseInv /\ \A r \in Runs : LedgerOK(r)

Created(r) ==
  \E c \in Collections, selection \in SUBSET Documents : CreateRun(r, c, selection)

Closing(r) ==
  /\ run[r].status = "running" /\ NothingPending(r) /\ item' = item
  /\ run'[r] = [run[r] EXCEPT
       !.status = Verdict(r),
       !.acquired = Count(r, "acquired"),
       !.present = Count(r, "already_present"),
       !.failed = Count(r, "failed")]

ItemKept(r, d) ==
  \/ item'[r][d] = item[r][d]
  \/ /\ run[r].status = "running" /\ item[r][d].status = "pending"
     /\ item'[r][d] # NoItem

LEMMA RunningRow ==
  ASSUME LeaseInv, NEW e \in Executors, executor[e].step # "idle"
  PROVE  executor[e].run \in Runs /\ run[executor[e].run].status = "running"
  BY DEF LeaseInv, RunHasOneExecutor, TypeInv, ExecutorsOK, ExecutorOK

LEMMA NoItemHasNoStatus ==
  NoItem.status \notin {"pending", "failed"} \cup Obtained
  BY AcquisitionConstantsOK DEF AcquisitionAssumption, NoItem, Obtained

(* After its creation an item changes only while its run is executed and   *)
(* it is pending.                                                          *)
LEMMA ItemStep ==
  ASSUME LeaseInv, [Next]_vars, NEW r \in Runs, ~Created(r), NEW d \in Documents
  PROVE  ItemKept(r, d)
<1>0. item \in [Runs -> [Documents -> ItemRow \cup {NoItem}]]
  BY DEF LeaseInv, TypeInv, TypeOK
<1>1. CASE item' = item
  BY <1>1 DEF ItemKept
<1>2. ASSUME NEW q \in Runs, NEW c \in Collections,
             NEW selection \in SUBSET Documents, CreateRun(q, c, selection)
      PROVE  ItemKept(r, d)
  <2>1. q # r
    BY <1>2 DEF Created
  <2> QED
    BY <1>0, <1>2, <2>1 DEF CreateRun, ItemKept
<1>3. ASSUME NEW e \in Executors, Register(e) PROVE ItemKept(r, d)
  <2> DEFINE q == executor[e].run
             k == executor[e].target.document
             x == executor[e].content
  <2>1. q \in Runs /\ run[q].status = "running" /\ k \in Documents
    BY <1>3, RunningRow, TargetFields
       DEF Register, LeaseInv, TypeInv, ExecutorsOK, ExecutorOK
  <2>2. CASE item' # item
    <3>1. item' = [item EXCEPT
            ![q][k] = IF @.status = "pending"
                      THEN [status |-> "acquired", artifact |-> x] ELSE @]
      BY <1>3, <2>2 DEF Register, RegisterArtifact, runVars
    <3>2. [status |-> "acquired", artifact |-> x] # NoItem
      BY NoItemHasNoStatus DEF Obtained
    <3> HIDE DEF q, k, x
    <3> QED
      BY <1>0, <2>1, <3>1, <3>2 DEF ItemKept
  <2> QED
    BY <1>1, <2>2
<1>4. ASSUME NEW e \in Executors, MarkItemFailed(e) PROVE ItemKept(r, d)
  <2> DEFINE q == executor[e].run
             k == executor[e].target.document
  <2>1. q \in Runs /\ run[q].status = "running" /\ k \in Documents
    BY <1>4, RunningRow, TargetFields
       DEF MarkItemFailed, LeaseInv, TypeInv, ExecutorsOK, ExecutorOK
  <2>2. item' = [item EXCEPT ![q][k] = Failed(@)]
    BY <1>4 DEF MarkItemFailed
  <2>3. item[q][k].status = "pending" => Failed(item[q][k]) # NoItem
    <3>1. SUFFICES ASSUME item[q][k].status = "pending"
                   PROVE  Failed(item[q][k]).status = "failed"
      BY NoItemHasNoStatus
    <3>2. item[q][k] \in ItemRow
      BY <1>0, <2>1, <3>1, NoItemHasNoStatus
    <3> QED
      BY <3>1, <3>2 DEF Failed, ItemRow
  <2> HIDE DEF q, k
  <2> QED
    BY <1>0, <2>1, <2>2, <2>3 DEF Failed, ItemKept
<1> QED
  BY <1>1, <1>2, <1>3, <1>4
     DEF Next, ClaimRun, Step, PendingTargets, StartItem, Fetch, Store,
         FinalizeRun, Die, CrawlerStores, CatalogArtifact, LinkArtifact, runVars,
         vars

LEMMA RunStep ==
  ASSUME LeaseInv, [Next]_vars, NEW r \in Runs, ~Created(r)
  PROVE  \/ run'[r] = run[r]
         \/ run[r].status = "queued" /\ run'[r] = [run[r] EXCEPT !.status = "running"]
         \/ Closing(r)
<1>0. run \in [Runs -> RunRow \cup {NoRun}]
  BY DEF LeaseInv, TypeInv, TypeOK
<1>1. ASSUME NEW q \in Runs, NEW c \in Collections,
             NEW selection \in SUBSET Documents, CreateRun(q, c, selection)
      PROVE  run'[r] = run[r]
  BY <1>0, <1>1 DEF CreateRun, Created
<1>2. ASSUME NEW e \in Executors, NEW q \in Runs, ClaimRun(e, q)
      PROVE  \/ run'[r] = run[r]
             \/ /\ run[r].status = "queued"
                /\ run'[r] = [run[r] EXCEPT !.status = "running"]
  BY <1>0, <1>2 DEF ClaimRun, Claimable
<1>3. ASSUME NEW e \in Executors, FinalizeRun(e)
      PROVE  run'[r] = run[r] \/ Closing(r)
  <2> DEFINE q == executor[e].run
  <2>1. q \in Runs
    BY <1>3, RunningRow DEF FinalizeRun
  <2>2. CASE run' # run
    <3>1. /\ run[q].status = "running" /\ NothingPending(q) /\ item' = item
          /\ run' = [run EXCEPT
               ![q].status = Verdict(q),
               ![q].acquired = Count(q, "acquired"),
               ![q].present = Count(q, "already_present"),
               ![q].failed = Count(q, "failed")]
      BY <1>3, <2>2 DEF FinalizeRun
    <3> HIDE DEF q
    <3>2. CASE q = r
      BY <1>0, <3>1, <3>2 DEF Closing
    <3>3. CASE q # r
      BY <1>0, <3>1, <3>3
    <3> QED
      BY <3>2, <3>3
  <2> QED
    BY <2>2
<1> QED
  BY <1>1, <1>2, <1>3
     DEF Next, Step, PendingTargets, StartItem, Fetch, Store, Register,
         RegisterArtifact, MarkItemFailed, Die, CrawlerStores, CatalogArtifact,
         LinkArtifact, runVars, vars

LEMMA CreatedLedger ==
  ASSUME LeaseInv, NEW r \in Runs, Created(r)
  PROVE  LedgerOK(r)'
<1> PICK c \in Collections, selection \in SUBSET Documents :
      CreateRun(r, c, selection)
  BY DEF Created
<1>1. /\ run'[r].status = "queued" /\ run'[r].selected = Cardinality(selection)
      /\ run'[r] # NoRun
  BY AcquisitionConstantsOK
     DEF CreateRun, NoRun, AcquisitionAssumption, LeaseInv, TypeInv, TypeOK
<1>2. \A d \in Documents :
        /\ d \notin selection => item'[r][d] = NoItem
        /\ d \in selection => item'[r][d].status \in {"already_present", "pending"}
  BY DEF CreateRun, LeaseInv, TypeInv, TypeOK
<1>3. Chosen(r)' = selection
  BY <1>2, NoItemHasNoStatus DEF Chosen, Obtained
<1> QED
  BY <1>1, <1>3 DEF LedgerOK, Final

LEMMA NextLedger == LedgerInv /\ [Next]_vars => LedgerInv'
<1> SUFFICES ASSUME LedgerInv, [Next]_vars, NEW r \in Runs PROVE LedgerOK(r)'
  BY NextLease DEF LedgerInv
<1> USE DEF LedgerInv
<1>1. CASE Created(r)
  BY <1>1, CreatedLedger
<1>2. CASE ~Created(r)
  <2>0. run \in [Runs -> RunRow \cup {NoRun}] /\ LedgerOK(r)
    BY DEF LeaseInv, TypeInv, TypeOK
  <2>1. \A d \in Documents : ItemKept(r, d)
    BY <1>2, ItemStep
  <2>2. Chosen(r)' = Chosen(r)
    <3>1. \A d \in Documents : item'[r][d] # NoItem <=> item[r][d] # NoItem
      BY <2>1, NoItemHasNoStatus DEF ItemKept
    <3> QED
      BY <3>1 DEF Chosen
  <2>3. run[r].status # "running" => \A d \in Documents : item'[r][d] = item[r][d]
    BY <2>1 DEF ItemKept
  <2>4. (\A d \in Documents : item'[r][d] = item[r][d]) =>
          \A st : Count(r, st)' = Count(r, st)
    BY DEF Count
  <2>5. CASE run'[r] = run[r]
    <3>1. run[r] = NoRun => run[r].status # "running" /\ run[r].status \notin Final
      BY AcquisitionConstantsOK DEF NoRun, AcquisitionAssumption, Final
    <3>2. run[r].status \in Final => Counted(r)'
      <4>1. SUFFICES ASSUME run[r].status \in Final PROVE Counted(r)'
        OBVIOUS
      <4>2. \A st : Count(r, st)' = Count(r, st)
        BY <2>3, <2>4, <4>1 DEF Final
      <4> QED
        BY <2>0, <2>5, <4>1, <4>2 DEF LedgerOK, Counted, NothingPending, Verdict
    <3> QED
      BY <2>0, <2>2, <2>3, <2>5, <3>1, <3>2 DEF LedgerOK
  <2>6. CASE run[r].status = "queued" /\ run'[r] = [run[r] EXCEPT !.status = "running"]
    <3>1. run[r] \in RunRow /\ run[r] # NoRun
      BY <2>0, <2>6, AcquisitionConstantsOK DEF NoRun, AcquisitionAssumption
    <3>2. /\ run'[r].status = "running" /\ run'[r].selected = run[r].selected
          /\ run'[r] # NoRun
      BY <2>6, <3>1, AcquisitionConstantsOK DEF RunRow, NoRun, AcquisitionAssumption
    <3> QED
      BY <2>0, <2>2, <3>1, <3>2 DEF LedgerOK, Final
  <2>7. CASE Closing(r)
    <3>1. run[r] \in RunRow /\ run[r] # NoRun
      BY <2>0, <2>7, AcquisitionConstantsOK
         DEF Closing, NoRun, AcquisitionAssumption
    <3>2. \A st : Count(r, st)' = Count(r, st)
      BY <2>4, <2>7 DEF Closing
    <3>3. /\ run'[r].status = Verdict(r) /\ run'[r].selected = run[r].selected
          /\ run'[r].acquired = Count(r, "acquired")
          /\ run'[r].present = Count(r, "already_present")
          /\ run'[r].failed = Count(r, "failed")
      BY <2>7, <3>1 DEF Closing, RunRow
    <3>4. run'[r] # NoRun
      BY <3>3, VerdictType, AcquisitionConstantsOK
         DEF Final, NoRun, AcquisitionAssumption
    <3>5. Counted(r)'
      BY <2>7, <3>2, <3>3 DEF Closing, Counted, NothingPending, Verdict
    <3> QED
      BY <2>0, <2>2, <3>1, <3>3, <3>4, <3>5 DEF LedgerOK
  <2> QED
    BY <1>2, <2>5, <2>6, <2>7, RunStep
<1> QED
  BY <1>1, <1>2

LEMMA InitLedger == Init => LedgerInv
<1> SUFFICES ASSUME Init PROVE LedgerInv
  OBVIOUS
<1>1. LeaseInv
  BY InitType DEF Init, Idle, LeaseInv, RunHasOneExecutor
<1>2. NoRun.status \notin Final
  BY AcquisitionConstantsOK DEF NoRun, AcquisitionAssumption, Final
<1> QED
  BY <1>1, <1>2 DEF Init, LedgerInv, LedgerOK

(* The selected documents of a closed run, split by their outcome.         *)
LEMMA SumOfOutcomes ==
  ASSUME LedgerInv, NEW r \in Runs, NothingPending(r)
  PROVE  Cardinality(Chosen(r)) = Count(r, "acquired") +
           Count(r, "already_present") + Count(r, "failed")
<1> DEFINE With(st) == {d \in Documents : item[r][d].status = st}
<1>1. With("pending") = {}
  BY FiniteDocuments, FS_EmptySet DEF NothingPending, Count
<1>2. \A d \in Documents : item[r][d] \in ItemRow \cup {NoItem}
  BY DEF LedgerInv, LeaseInv, TypeInv, TypeOK
<1>3. Chosen(r) = (With("acquired") \cup With("already_present")) \cup With("failed")
  BY <1>1, <1>2, NoItemHasNoStatus DEF Chosen, ItemRow, Obtained
<1>4. \A st : IsFiniteSet(With(st)) /\ Cardinality(With(st)) = Count(r, st)
              /\ Count(r, st) \in Nat
  BY FiniteDocuments, CountType DEF Count
<1>5. /\ With("acquired") \cap With("already_present") = {}
      /\ (With("acquired") \cup With("already_present")) \cap With("failed") = {}
  OBVIOUS
<1> HIDE DEF With
<1>6. /\ IsFiniteSet(With("acquired") \cup With("already_present"))
      /\ Cardinality(With("acquired") \cup With("already_present"))
           = Count(r, "acquired") + Count(r, "already_present")
  BY <1>4, <1>5, FS_Union, FS_EmptySet
<1>7. Cardinality((With("acquired") \cup With("already_present")) \cup With("failed"))
        = Cardinality(With("acquired") \cup With("already_present"))
          + Cardinality(With("failed")) - Cardinality({})
  BY <1>4, <1>5, <1>6, FS_Union
<1> QED
  BY <1>3, <1>4, <1>6, <1>7, FS_EmptySet

(* Counts and verdict of a closed run are those of its items, and every    *)
(* selected document is in them (finalize_run).                            *)
THEOREM ClosedRunsAddUp == Spec => []ClosedRunAddsUp
<1>1. LedgerInv => ClosedRunAddsUp
  <2> SUFFICES ASSUME LedgerInv, NEW r \in Runs, run[r].status \in Final
               PROVE  /\ Counted(r)
                      /\ run[r].selected =
                           run[r].acquired + run[r].present + run[r].failed
    BY DEF ClosedRunAddsUp, Counted
  <2>1. Counted(r) /\ run[r].selected = Cardinality(Chosen(r))
    BY AcquisitionConstantsOK
       DEF LedgerInv, LedgerOK, NoRun, AcquisitionAssumption, Final
  <2> QED
    BY <2>1, SumOfOutcomes DEF Counted
<1> QED
  BY InitLedger, NextLedger, <1>1, PTL DEF Spec

(* An outcome is final: a lost answer, an error after the commit or an     *)
(* executor still at work do not change it (the guards on pending).        *)
THEOREM OutcomesAreFinal == Spec => OutcomesStay
<1>1. LedgerInv /\ [Next]_vars =>
        [\A r \in Runs, d \in Documents :
           item[r][d].status \in {"failed"} \cup Obtained =>
             item'[r][d] = item[r][d]]_vars
  <2> SUFFICES ASSUME LedgerInv, [Next]_vars, NEW r \in Runs, NEW d \in Documents,
                      item[r][d].status \in {"failed"} \cup Obtained
               PROVE  item'[r][d] = item[r][d]
    OBVIOUS
  <2>1. ~Created(r)
    BY NoItemHasNoStatus DEF Created, CreateRun, LedgerInv, LedgerOK
  <2> QED
    BY <2>1, ItemStep DEF LedgerInv, ItemKept, Obtained
<1> QED
  BY InitLedger, NextLedger, <1>1, PTL DEF Spec, OutcomesStay

-----------------------------------------------------------------------------
(* Objects, locations and links are only added, and an artifact keeps its  *)
(* registry.                                                               *)
BackedInv ==
  /\ LedgerInv
  /\ \A e \in Executors : executor[e].step = "register" => MyKey(e) \in stored
  /\ \A x \in Contents : artifact[x] # None => Readable(x)
  /\ \A d \in Documents, x \in Contents : <<d, x>> \in link => artifact[x] # None
  /\ \A r \in Runs, d \in Documents :
       /\ item[r][d].status = "acquired" => <<d, item[r][d].artifact>> \in link
       /\ item[r][d].status = "already_present" => Linked(d)

Grows ==
  /\ stored \subseteq stored' /\ location \subseteq location'
  /\ link \subseteq link'
  /\ \A x \in Contents : artifact[x] # None => artifact'[x] # None

LEMMA GrowingStep == TypeInv /\ [Next]_vars => Grows
<1> SUFFICES ASSUME TypeInv, [Next]_vars PROVE Grows
  OBVIOUS
<1>1. ASSUME NEW c, NEW url, NEW x \in Contents, UpsertArtifact(c, url, x)
      PROVE  /\ location \subseteq location'
             /\ \A y \in Contents : artifact[y] # None => artifact'[y] # None
  BY <1>1 DEF UpsertArtifact, Registry, TypeInv, TypeOK
<1>2. ASSUME NEW e \in Executors, NEW next, executor[e].step = "register",
             RegisterArtifact(e, next)
      PROVE  Grows
  <2>1. executor[e].content \in Contents
    BY <1>2 DEF TypeInv, ExecutorsOK, ExecutorOK
  <2> QED
    BY <1>1, <1>2, <2>1 DEF RegisterArtifact, Grows
<1>3. ASSUME NEW c \in Collections, NEW x \in Contents, NEW url \in Urls,
             CatalogArtifact(c, url, x)
      PROVE  Grows
  BY <1>1, <1>3 DEF CatalogArtifact, Grows
<1>4. CASE /\ UNCHANGED <<artifact, location>>
           /\ stored \subseteq stored' /\ link \subseteq link'
  BY <1>4 DEF Grows
<1> QED
  BY <1>2, <1>3, <1>4
     DEF Next, CreateRun, ClaimRun, Step, PendingTargets, StartItem, Fetch, Store,
         Register, MarkItemFailed, FinalizeRun, Die, CrawlerStores, LinkArtifact,
         artifactVars, vars

LEMMA ReadableStays == ASSUME Grows, NEW x \in Contents, artifact[x] # None, Readable(x)
                       PROVE  Readable(x)'
  BY DEF Grows, Readable

(* An upsert makes its content readable when the object is there.          *)
LEMMA UpsertReadable ==
  ASSUME TypeInv, NEW c \in Collections, NEW url \in Urls, NEW x \in Contents,
         UpsertArtifact(c, url, x), Key(c, x) \in stored'
  PROVE  Readable(x)' /\ \A y \in Contents \ {x} : artifact'[y] = artifact[y]
<1>1. SourceOf[c] # None
  BY CatalogConstantsOK DEF CatalogAssumption
<1>2. artifact'[x] # None
  BY <1>1 DEF UpsertArtifact, Registry, TypeInv, TypeOK
<1>3. <<x, url>> \in location' /\ <<x, Key(c, x)>> \in location'
  BY DEF UpsertArtifact
<1>4. Readable(x)'
  BY <1>2, <1>3 DEF Readable
<1> QED
  BY <1>4 DEF UpsertArtifact, TypeInv, TypeOK

(* What one transaction of an executor adds.                               *)
LEMMA RegisterStep ==
  ASSUME BackedInv, NEW e \in Executors, executor[e].step = "register",
         NEW next, RegisterArtifact(e, next)
  PROVE  \E d \in Documents, x \in Contents, r \in Runs :
           /\ Readable(x)' /\ artifact'[x] # None
           /\ \A y \in Contents \ {x} : artifact'[y] = artifact[y]
           /\ link' = link \cup {<<d, x>>}
           /\ item' = [item EXCEPT
                ![r][d] = IF @.status = "pending"
                          THEN [status |-> "acquired", artifact |-> x] ELSE @]
<1>1. PICK t \in Target, x \in Contents, r \in Runs :
        t = executor[e].target /\ x = executor[e].content /\ r = executor[e].run
  BY DEF BackedInv, LedgerInv, LeaseInv, TypeInv, ExecutorsOK, ExecutorOK
<1>2. /\ t.document \in Documents /\ t.url \in Urls
      /\ CollectionOf[t.document] \in Collections
  BY TargetFields
<1>3. Key(CollectionOf[t.document], x) \in stored'
  BY <1>1 DEF RegisterArtifact, BackedInv, MyKey, KeyOf
<1>4. UpsertArtifact(CollectionOf[t.document], t.url, x)
  BY <1>1 DEF RegisterArtifact
<1>5. Readable(x)' /\ \A y \in Contents \ {x} : artifact'[y] = artifact[y]
  BY <1>2, <1>3, <1>4, UpsertReadable DEF BackedInv, LedgerInv, LeaseInv
<1>6. artifact'[x] # None
  BY <1>5 DEF Readable
<1>7. /\ link' = link \cup {<<t.document, x>>}
      /\ item' = [item EXCEPT
           ![r][t.document] = IF @.status = "pending"
                              THEN [status |-> "acquired", artifact |-> x] ELSE @]
  BY <1>1 DEF RegisterArtifact
<1> QED
  BY <1>2, <1>5, <1>6, <1>7

LEMMA NextBacked == BackedInv /\ [Next]_vars => BackedInv'
<1> SUFFICES ASSUME BackedInv, [Next]_vars PROVE BackedInv'
  OBVIOUS
<1>0. /\ TypeInv /\ LedgerInv' /\ Grows
      /\ item \in [Runs -> [Documents -> ItemRow \cup {NoItem}]]
      /\ executor \in [Executors -> ExecutorState]
  BY NextLedger, GrowingStep DEF BackedInv, LedgerInv, LeaseInv, TypeInv, TypeOK
<1>1. ASSUME NEW e \in Executors, executor'[e].step = "register"
      PROVE  MyKey(e)' \in stored'
  <2>1. CASE executor'[e] = executor[e]
    <3>1. MyKey(e)' = MyKey(e) /\ MyKey(e) \in stored
      BY <1>1, <2>1 DEF MyKey, BackedInv
    <3> QED
      BY <1>0, <3>1 DEF Grows
  <2>2. CASE Store(e)
    <3>1. /\ executor' = [executor EXCEPT ![e].step = "register"]
          /\ stored' = stored \cup {MyKey(e)}
      <4>1. CASE executor' = [executor EXCEPT ![e].step = "fail"]
        BY <1>0, <1>1, <4>1 DEF ExecutorState
      <4> QED
        BY <2>2, <4>1 DEF Store
    <3>2. executor'[e] = [executor[e] EXCEPT !.step = "register"]
      BY <1>0, <3>1
    <3>3. MyKey(e)' = MyKey(e)
      BY <1>0, <3>2 DEF MyKey, ExecutorState
    <3> QED
      BY <3>1, <3>3
  <2>3. ASSUME NEW f \in Executors, f # e,
               Step(f) \/ Die(f) \/ \E r \in Runs : ClaimRun(f, r)
        PROVE  executor'[e] = executor[e]
    <3>1. CASE PendingTargets(f)
      BY <1>0, <2>3, <3>1 DEF PendingTargets
    <3> QED
      BY <1>0, <2>3, <3>1
         DEF Step, StartItem, Fetch, Store, Register, RegisterArtifact,
             MarkItemFailed, FinalizeRun, Die, ClaimRun
  <2>4. ASSUME ~Store(e), Step(e) \/ Die(e) \/ \E r \in Runs : ClaimRun(e, r)
        PROVE  executor'[e].step # "register"
    <3>1. CASE PendingTargets(e)
      <4>1. PICK T : executor' = [executor EXCEPT ![e].step = "next", ![e].todo = T]
        BY <3>1 DEF PendingTargets
      <4> QED
        BY <1>0, <4>1 DEF ExecutorState
    <3>2. CASE StartItem(e)
      BY <1>0, <3>2 DEF StartItem, ExecutorState
    <3>3. CASE Fetch(e)
      BY <1>0, <3>3 DEF Fetch, ExecutorState
    <3>4. CASE Register(e)
      BY <1>0, <3>4 DEF Register, RegisterArtifact, ExecutorState
    <3>5. CASE MarkItemFailed(e)
      BY <1>0, <3>5 DEF MarkItemFailed, ExecutorState
    <3>6. CASE FinalizeRun(e) \/ Die(e) \/ \E r \in Runs : ClaimRun(e, r)
      <4>1. Idle.step = "idle"
            /\ \A r : [Idle EXCEPT !.step = "read", !.run = r].step = "read"
        BY DEF Idle
      <4>2. \E v : /\ executor' = [executor EXCEPT ![e] = v]
                   /\ v.step \in {"idle", "read"}
        BY <3>6, <4>1 DEF FinalizeRun, Die, ClaimRun
      <4> QED
        BY <1>0, <4>2
    <3> QED
      BY <2>4, <3>1, <3>2, <3>3, <3>4, <3>5, <3>6 DEF Step
  <2> QED
    BY <1>1, <2>1, <2>2, <2>3, <2>4
       DEF Next, CreateRun, CrawlerStores, CatalogArtifact, LinkArtifact, vars
<1>2. CASE UNCHANGED <<artifact, link, item>>
  <2>1. \A x \in Contents : artifact'[x] # None => Readable(x)'
    BY <1>0, <1>2, ReadableStays DEF BackedInv
  <2> QED
    BY <1>0, <1>1, <1>2, <2>1 DEF BackedInv, Linked
<1>3. ASSUME NEW r \in Runs, NEW c \in Collections,
             NEW selection \in SUBSET Documents, CreateRun(r, c, selection)
      PROVE  BackedInv'
  <2>1. \A x \in Contents : artifact'[x] # None => Readable(x)'
    BY <1>0, <1>3, ReadableStays DEF CreateRun, artifactVars, BackedInv
  <2>2. UNCHANGED <<artifact, link>>
    BY <1>3 DEF CreateRun, artifactVars
  <2>3. \A q \in Runs, d \in Documents :
          \/ item'[q][d] = item[q][d]
          \/ item'[q][d].status \notin Obtained
          \/ item'[q][d].status = "already_present" /\ Linked(d)
    BY <1>0, <1>3, NoItemHasNoStatus DEF CreateRun, Obtained
  <2> QED
    BY <1>0, <1>1, <2>1, <2>2, <2>3 DEF BackedInv, Linked, Obtained
<1>4. ASSUME NEW e \in Executors, Register(e) PROVE BackedInv'
  <2>1. CASE UNCHANGED <<catalogVars, runVars, artifactVars, stored>>
    BY <1>2, <2>1 DEF runVars, artifactVars
  <2>2. ASSUME NEW next, RegisterArtifact(e, next) PROVE BackedInv'
    <3>1. PICK d \in Documents, x \in Contents, r \in Runs :
           /\ Readable(x)' /\ artifact'[x] # None
           /\ \A y \in Contents \ {x} : artifact'[y] = artifact[y]
           /\ link' = link \cup {<<d, x>>}
           /\ item' = [item EXCEPT
                ![r][d] = IF @.status = "pending"
                          THEN [status |-> "acquired", artifact |-> x] ELSE @]
      BY <1>4, <2>2, RegisterStep DEF Register
    <3>2. \A y \in Contents : artifact'[y] # None => Readable(y)'
      BY <1>0, <3>1, ReadableStays DEF BackedInv
    <3>3. \A k \in Documents, y \in Contents :
            <<k, y>> \in link' => artifact'[y] # None
      BY <3>1 DEF BackedInv
    <3>4. \A q \in Runs, k \in Documents :
            \/ item'[q][k] = item[q][k]
            \/ k = d /\ item'[q][k] = [status |-> "acquired", artifact |-> x]
      BY <1>0, <3>1
    <3>5. \A k \in Documents : Linked(k) => Linked(k)'
      BY <3>1 DEF Linked
    <3>6. \A q \in Runs, k \in Documents :
            /\ item'[q][k].status = "acquired" => <<k, item'[q][k].artifact>> \in link'
            /\ item'[q][k].status = "already_present" => Linked(k)'
      BY <3>1, <3>4, <3>5 DEF BackedInv
    <3> QED
      BY <1>0, <1>1, <3>2, <3>3, <3>6 DEF BackedInv
  <2> QED
    BY <1>4, <2>1, <2>2 DEF Register
<1>5. ASSUME NEW e \in Executors, MarkItemFailed(e) PROVE BackedInv'
  <2>1. \A x \in Contents : artifact'[x] # None => Readable(x)'
    BY <1>0, <1>5, ReadableStays DEF MarkItemFailed, artifactVars, BackedInv
  <2>2. UNCHANGED <<artifact, link>>
    BY <1>5 DEF MarkItemFailed, artifactVars
  <2>3. ASSUME NEW row \in ItemRow \cup {NoItem}
        PROVE  Failed(row) = row \/ Failed(row).status = "failed"
    BY NoItemHasNoStatus DEF Failed, ItemRow
  <2>4. \A q \in Runs, d \in Documents :
          item'[q][d] = item[q][d] \/ item'[q][d].status = "failed"
    BY <1>0, <1>5, <2>3 DEF MarkItemFailed
  <2> QED
    BY <1>0, <1>1, <2>1, <2>2, <2>4 DEF BackedInv, Linked
<1>6. ASSUME NEW c \in Collections, NEW x \in Contents, NEW url \in Urls,
             CatalogArtifact(c, url, x)
      PROVE  BackedInv'
  <2>1. Readable(x)' /\ \A y \in Contents \ {x} : artifact'[y] = artifact[y]
    BY <1>0, <1>6, UpsertReadable DEF CatalogArtifact
  <2>2. \A y \in Contents : artifact'[y] # None => Readable(y)'
    BY <1>0, <2>1, ReadableStays DEF BackedInv
  <2>3. UNCHANGED <<link, item>>
    BY <1>6 DEF CatalogArtifact, runVars
  <2> QED
    BY <1>0, <1>1, <2>2, <2>3 DEF BackedInv, Linked, Grows
<1>7. ASSUME NEW d \in Documents, NEW x \in Contents, LinkArtifact(d, x)
      PROVE  BackedInv'
  <2>1. \A y \in Contents : artifact'[y] # None => Readable(y)'
    BY <1>0, <1>7, ReadableStays DEF LinkArtifact, BackedInv
  <2>2. /\ UNCHANGED <<artifact, item>> /\ link' = link \cup {<<d, x>>}
        /\ artifact[x] # None
    BY <1>7 DEF LinkArtifact, runVars
  <2> QED
    BY <1>0, <1>1, <2>1, <2>2 DEF BackedInv, Linked
<1> QED
  BY <1>2, <1>3, <1>4, <1>5, <1>6, <1>7
     DEF Next, ClaimRun, Step, PendingTargets, StartItem, Fetch, Store,
         FinalizeRun, Die, CrawlerStores, runVars, artifactVars, vars

(* Whatever the ledger calls obtained has an artifact with an official     *)
(* locator and an object in the store (execute_acquisition_run).           *)
THEOREM ObtainedIsBacked == Spec => []ObtainedIsStored
<1>1. Init => BackedInv
  BY InitLedger, NoItemHasNoStatus DEF Init, Idle, BackedInv, Obtained
<1>2. BackedInv => ObtainedIsStored
  <2> SUFFICES ASSUME BackedInv, NEW r \in Runs, NEW d \in Documents,
                      item[r][d].status \in Obtained
               PROVE  /\ \E x \in Contents : <<d, x>> \in link /\ Readable(x)
                      /\ item[r][d].status = "acquired" =>
                           /\ <<d, item[r][d].artifact>> \in link
                           /\ Readable(item[r][d].artifact)
    BY DEF ObtainedIsStored
  <2>1. \A x \in Contents : <<d, x>> \in link => Readable(x)
    BY DEF BackedInv
  <2>2. link \subseteq Documents \X Contents
    BY DEF BackedInv, LedgerInv, LeaseInv, TypeInv, TypeOK
  <2> QED
    BY <2>1, <2>2 DEF BackedInv, Linked, Obtained
<1> QED
  BY <1>1, NextBacked, <1>2, PTL DEF Spec
=============================================================================
