------------------------ MODULE CorpusBackfillProofs ------------------------
(***************************************************************************)
(* The mass acquisition for any shards, jobs, documents, attempts and      *)
(* faults: type correctness, honest checkpoints, complete successes, whole *)
(* batches and final manifests.                                            *)
(***************************************************************************)
EXTENDS CorpusBackfill, TLAPS

(* The type invariant by what a step of a job disturbs: its control, what is *)
(* known of its documents, and the workflow, which it leaves alone.          *)
ControlOK ==
  /\ pc \in [Jobs -> {"queued", "restore", "item", "observed", "journaled",
                      "exited", "ended"}]
  /\ pos \in [Jobs -> Nat \ {0}]
  /\ seen \in [Jobs -> Statuses \cup {"none"}]
  /\ result \in [Jobs -> {"none", "ok", "failed"}]
FaultsOK == faults \in 0 .. MaxFaults /\ clean \in BOOLEAN
StoresOK ==
  /\ objects \subseteq Digests /\ refused \subseteq Docs
  /\ mirror \in [Jobs -> Checkpoints \cup {Absent}]
  /\ manifests \in [Jobs \X Attempts -> [Docs -> ItemStatuses] \cup {Absent}]
  /\ saved \in [Jobs -> SUBSET Checkpoints]
LocalsOK ==
  /\ journal \in [Jobs -> Checkpoints]
  /\ builder \in [Jobs -> [Docs -> ItemStatuses]]
WorkflowOK ==
  /\ line \in {Shards, Principales} /\ snapshot \in BOOLEAN
  /\ attempt \in Attempts /\ kind \in {"fresh", "resume"}
  /\ ingestion \in [Jobs -> Attempts]
  /\ verdict \in {"none", "complete", "complete_with_unavailable", "raised"}

LEMMA TypeParts ==
  BackfillTypeOK <=> ControlOK /\ FaultsOK /\ StoresOK /\ LocalsOK /\ WorkflowOK
  BY DEF BackfillTypeOK, ControlOK, FaultsOK, StoresOK, LocalsOK, WorkflowOK

LEMMA TypeNext ==
  ASSUME ControlOK', FaultsOK', StoresOK', LocalsOK', WorkflowOK'
  PROVE  BackfillTypeOK'
  BY DEF BackfillTypeOK, ControlOK, FaultsOK, StoresOK, LocalsOK, WorkflowOK

LEMMA TypeInit == BackfillInit => BackfillTypeOK
<1> SUFFICES ASSUME BackfillInit PROVE BackfillTypeOK
  OBVIOUS
<1>1. Nothing \in [Docs -> ItemStatuses] /\ Empty \in Checkpoints
  BY DEF Nothing, Empty, ItemStatuses, Checkpoints, Statuses
<1>2. 0 \in Attempts /\ 0 \in 0 .. MaxFaults /\ 1 \in Nat \ {0}
  BY BackfillBounds DEF Attempts
<1> QED
  BY <1>1, <1>2 DEF BackfillInit, BackfillTypeOK

(* The workflow's own steps, and those of a job.                            *)
LEMMA TypeWorkflow ==
  ASSUME BackfillTypeOK,
         (\E k \in {"fresh", "resume"} : Dispatch(k)) \/ RerunFailed \/ Verify
  PROVE  BackfillTypeOK'
<1>1. Empty \in Checkpoints
  BY DEF Nothing, Empty, Checkpoints
<1>2. ASSUME Settled PROVE attempt + 1 \in Attempts
  BY <1>2, BackfillBounds DEF Settled, Attempts, BackfillTypeOK
<1>3. ASSUME NEW k \in {"fresh", "resume"}, Dispatch(k) PROVE BackfillTypeOK'
  BY <1>1, <1>2, <1>3 DEF Dispatch, BackfillTypeOK
<1>4. CASE RerunFailed
  BY <1>1, <1>2, <1>4 DEF RerunFailed, BackfillTypeOK, stores
<1>5. CASE Verify
  BY <1>5 DEF Verify, BackfillTypeOK, stores, locals, world
<1> QED
  BY <1>3, <1>4, <1>5

LEMMA TypeFaults ==
  ASSUME FaultsOK, Fault \/ NoFault
  PROVE  FaultsOK'
<1>1. CASE Fault
  <2>1. faults + 1 \in 0 .. MaxFaults
    BY <1>1, BackfillBounds DEF FaultsOK, Fault
  <2> QED
    BY <1>1, <2>1 DEF FaultsOK, Fault
<1>2. CASE NoFault
  BY <1>2 DEF FaultsOK, NoFault
<1> QED
  BY <1>1, <1>2

(* A line of the journal keeps it a checkpoint.                             *)
LEMMA TypeLine ==
  ASSUME NEW c \in Checkpoints, NEW d, NEW s \in Statuses \cup {"none"}
  PROVE  /\ [c EXCEPT !.latest[d] = s] \in Checkpoints
         /\ [c EXCEPT !.torn = TRUE] \in Checkpoints
  BY DEF Checkpoints

LEMMA EmptyType == Nothing \in [Docs -> ItemStatuses] /\ Empty \in Checkpoints
  BY DEF Nothing, Empty, ItemStatuses, Checkpoints, Statuses

(* The document at an item is one of the inventory.                         *)
LEMMA ItemDoc ==
  ASSUME ControlOK, NEW j \in Jobs, pos[j] <= Len(Assigned[j])
  PROVE  Doc(j) \in Docs /\ Content[Doc(j)] \in Digests
<1>1. Assigned[j] \in Seq(Docs) /\ pos[j] \in 1 .. Len(Assigned[j])
  BY BackfillAssigned DEF ControlOK
<1> QED
  BY <1>1, BackfillContent DEF Doc

LEMMA RecordType ==
  ASSUME LocalsOK, NEW j \in Jobs, NEW s \in ItemStatuses, Record(j, s)
  PROVE  builder' \in [Jobs -> [Docs -> ItemStatuses]]
  BY DEF LocalsOK, Record

LEMMA TypeStart ==
  ASSUME BackfillTypeOK, NEW j \in Jobs,
         BeginShard(j)
         \/ ResumeShard(j)
         \/ BeginPrincipal(j)
         \/ Restore(j)
         \/ RestoreFails(j)
  PROVE  BackfillTypeOK'
<1>0. ControlOK /\ FaultsOK /\ StoresOK /\ LocalsOK /\ WorkflowOK
  BY TypeParts
<1> USE DEF Interruption, stores, batch, Start
<1>1. CASE BeginShard(j)
  <2>1. ControlOK'
    BY <1>0, <1>1 DEF BeginShard, ControlOK, Goto, Statuses
  <2>2. FaultsOK'
    BY <1>0, <1>1, TypeFaults DEF BeginShard
  <2>3. StoresOK'
    BY <1>0, <1>1 DEF BeginShard, StoresOK, LocalsOK
  <2>4. LocalsOK'
    BY <1>0, <1>1, EmptyType
       DEF BeginShard, ControlOK, StoresOK, LocalsOK, ItemStatuses
  <2>5. WorkflowOK'
    BY <1>0, <1>1 DEF BeginShard, WorkflowOK
  <2> QED
    BY <2>1, <2>2, <2>3, <2>4, <2>5, TypeNext
<1>2. CASE ResumeShard(j)
  <2>1. ControlOK'
    BY <1>0, <1>2 DEF ResumeShard, ControlOK, Goto, Exit, Statuses
  <2>2. FaultsOK'
    BY <1>0, <1>2, TypeFaults DEF ResumeShard
  <2>3. StoresOK'
    BY <1>0, <1>2 DEF ResumeShard, StoresOK, LocalsOK
  <2>4. LocalsOK'
    BY <1>0, <1>2, EmptyType
       DEF ResumeShard, ControlOK, StoresOK, LocalsOK, ItemStatuses
  <2>5. WorkflowOK'
    BY <1>0, <1>2 DEF ResumeShard, WorkflowOK
  <2> QED
    BY <2>1, <2>2, <2>3, <2>4, <2>5, TypeNext
<1>3. CASE BeginPrincipal(j)
  <2>1. ControlOK'
    BY <1>0, <1>3 DEF BeginPrincipal, ControlOK, Goto, Exit, Statuses
  <2>2. FaultsOK'
    BY <1>0, <1>3, TypeFaults DEF BeginPrincipal
  <2>3. StoresOK'
    BY <1>0, <1>3 DEF BeginPrincipal, StoresOK, LocalsOK
  <2>4. LocalsOK'
    BY <1>0, <1>3, EmptyType
       DEF BeginPrincipal, ControlOK, StoresOK, LocalsOK, ItemStatuses
  <2>5. WorkflowOK'
    BY <1>0, <1>3 DEF BeginPrincipal, WorkflowOK
  <2> QED
    BY <2>1, <2>2, <2>3, <2>4, <2>5, TypeNext
<1>4. CASE Restore(j)
  <2>1. ControlOK'
    BY <1>0, <1>4 DEF Restore, ControlOK, Goto, Statuses
  <2>2. FaultsOK'
    BY <1>0, <1>4, TypeFaults DEF Restore
  <2>3. StoresOK'
    BY <1>0, <1>4 DEF Restore, StoresOK, LocalsOK
  <2>4. LocalsOK'
    BY <1>0, <1>4 DEF Restore, ControlOK, StoresOK, LocalsOK, ItemStatuses
  <2>5. WorkflowOK'
    BY <1>0, <1>4 DEF Restore, WorkflowOK
  <2> QED
    BY <2>1, <2>2, <2>3, <2>4, <2>5, TypeNext
<1>5. CASE RestoreFails(j)
  <2>1. ControlOK'
    BY <1>0, <1>5 DEF RestoreFails, ControlOK, Goto, Exit, Statuses
  <2>2. FaultsOK'
    BY <1>0, <1>5, TypeFaults DEF RestoreFails
  <2>3. StoresOK'
    BY <1>0, <1>5 DEF RestoreFails, StoresOK, LocalsOK
  <2>4. LocalsOK'
    BY <1>0, <1>5 DEF RestoreFails, ControlOK, StoresOK, LocalsOK, ItemStatuses
  <2>5. WorkflowOK'
    BY <1>0, <1>5 DEF RestoreFails, WorkflowOK
  <2> QED
    BY <2>1, <2>2, <2>3, <2>4, <2>5, TypeNext
<1> QED
  BY <1>1, <1>2, <1>3, <1>4, <1>5

LEMMA TypeItem ==
  ASSUME BackfillTypeOK, NEW j \in Jobs,
         RecoverStored(j)
         \/ RecoverFails(j)
         \/ RecoverPrincipal(j)
         \/ RecoverUnavailable(j)
         \/ AcquireDocument(j)
         \/ AcquireUnsupported(j)
         \/ AcquireFailed(j)
         \/ PrincipalFails(j)
         \/ AcquireInterrupted(j)
  PROVE  BackfillTypeOK'
<1>0. ControlOK /\ FaultsOK /\ StoresOK /\ LocalsOK /\ WorkflowOK
  BY TypeParts
<1> USE DEF Interruption, stores, batch
<1>1. CASE RecoverStored(j)
  <2>1. ControlOK'
    BY <1>0, <1>1 DEF RecoverStored, ControlOK, Goto, Exit, Advance, Statuses
  <2>2. FaultsOK'
    BY <1>0, <1>1, TypeFaults DEF RecoverStored
  <2>3. StoresOK'
    BY <1>0, <1>1, ItemDoc DEF RecoverStored, StoresOK, LocalsOK, AtItem
  <2>4. LocalsOK'
    BY <1>0, <1>1, RecordType
       DEF RecoverStored, ControlOK, StoresOK, LocalsOK, ItemStatuses
  <2>5. WorkflowOK'
    BY <1>0, <1>1 DEF RecoverStored, WorkflowOK
  <2> QED
    BY <2>1, <2>2, <2>3, <2>4, <2>5, TypeNext
<1>2. CASE RecoverFails(j)
  <2>1. ControlOK'
    BY <1>0, <1>2 DEF RecoverFails, ControlOK, Goto, Exit, Statuses
  <2>2. FaultsOK'
    BY <1>0, <1>2, TypeFaults DEF RecoverFails
  <2>3. StoresOK'
    BY <1>0, <1>2, ItemDoc DEF RecoverFails, StoresOK, LocalsOK, AtItem
  <2>4. LocalsOK'
    BY <1>0, <1>2 DEF RecoverFails, ControlOK, StoresOK, LocalsOK, ItemStatuses
  <2>5. WorkflowOK'
    BY <1>0, <1>2 DEF RecoverFails, WorkflowOK
  <2> QED
    BY <2>1, <2>2, <2>3, <2>4, <2>5, TypeNext
<1>3. CASE RecoverPrincipal(j)
  <2>1. ControlOK'
    BY <1>0, <1>3 DEF RecoverPrincipal, ControlOK, Goto, Advance, Statuses
  <2>2. FaultsOK'
    BY <1>0, <1>3, TypeFaults DEF RecoverPrincipal
  <2>3. StoresOK'
    BY <1>0, <1>3, ItemDoc DEF RecoverPrincipal, StoresOK, LocalsOK, AtItem
  <2>4. LocalsOK'
    BY <1>0, <1>3, RecordType
       DEF RecoverPrincipal, ControlOK, StoresOK, LocalsOK, ItemStatuses
  <2>5. WorkflowOK'
    BY <1>0, <1>3 DEF RecoverPrincipal, WorkflowOK
  <2> QED
    BY <2>1, <2>2, <2>3, <2>4, <2>5, TypeNext
<1>4. CASE RecoverUnavailable(j)
  <2>1. ControlOK'
    BY <1>0, <1>4 DEF RecoverUnavailable, ControlOK, Goto, Advance, Statuses
  <2>2. FaultsOK'
    BY <1>0, <1>4, TypeFaults DEF RecoverUnavailable
  <2>3. StoresOK'
    BY <1>0, <1>4, ItemDoc DEF RecoverUnavailable, StoresOK, LocalsOK, AtItem
  <2>4. LocalsOK'
    BY <1>0, <1>4, RecordType
       DEF RecoverUnavailable, ControlOK, StoresOK, LocalsOK, ItemStatuses
  <2>5. WorkflowOK'
    BY <1>0, <1>4 DEF RecoverUnavailable, WorkflowOK
  <2> QED
    BY <2>1, <2>2, <2>3, <2>4, <2>5, TypeNext
<1>5. CASE AcquireDocument(j)
  <2>1. ControlOK'
    BY <1>0, <1>5 DEF AcquireDocument, ControlOK, Goto, Statuses
  <2>2. FaultsOK'
    BY <1>0, <1>5, TypeFaults DEF AcquireDocument
  <2>3. StoresOK'
    BY <1>0, <1>5, ItemDoc DEF AcquireDocument, StoresOK, LocalsOK, AtItem, MustAcquire
  <2>4. LocalsOK'
    BY <1>0, <1>5, RecordType
       DEF AcquireDocument, ControlOK, StoresOK, LocalsOK, ItemStatuses
  <2>5. WorkflowOK'
    BY <1>0, <1>5 DEF AcquireDocument, WorkflowOK
  <2> QED
    BY <2>1, <2>2, <2>3, <2>4, <2>5, TypeNext
<1>6. CASE AcquireUnsupported(j)
  <2>1. ControlOK'
    BY <1>0, <1>6 DEF AcquireUnsupported, ControlOK, Goto, Statuses
  <2>2. FaultsOK'
    BY <1>0, <1>6, TypeFaults DEF AcquireUnsupported
  <2>3. StoresOK'
    BY <1>0, <1>6, ItemDoc DEF AcquireUnsupported, StoresOK, LocalsOK, AtItem, MustAcquire
  <2>4. LocalsOK'
    BY <1>0, <1>6, RecordType
       DEF AcquireUnsupported, ControlOK, StoresOK, LocalsOK, ItemStatuses
  <2>5. WorkflowOK'
    BY <1>0, <1>6 DEF AcquireUnsupported, WorkflowOK
  <2> QED
    BY <2>1, <2>2, <2>3, <2>4, <2>5, TypeNext
<1>7. CASE AcquireFailed(j)
  <2>1. ControlOK'
    BY <1>0, <1>7 DEF AcquireFailed, ControlOK, Goto, Statuses
  <2>2. FaultsOK'
    BY <1>0, <1>7, TypeFaults DEF AcquireFailed
  <2>3. StoresOK'
    BY <1>0, <1>7, ItemDoc DEF AcquireFailed, StoresOK, LocalsOK, AtItem, MustAcquire
  <2>4. LocalsOK'
    BY <1>0, <1>7, RecordType
       DEF AcquireFailed, ControlOK, StoresOK, LocalsOK, ItemStatuses
  <2>5. WorkflowOK'
    BY <1>0, <1>7 DEF AcquireFailed, WorkflowOK
  <2> QED
    BY <2>1, <2>2, <2>3, <2>4, <2>5, TypeNext
<1>8. CASE PrincipalFails(j)
  <2>1. ControlOK'
    BY <1>0, <1>8 DEF PrincipalFails, ControlOK, Goto, Advance, Statuses
  <2>2. FaultsOK'
    BY <1>0, <1>8, TypeFaults DEF PrincipalFails
  <2>3. StoresOK'
    BY <1>0, <1>8, ItemDoc DEF PrincipalFails, StoresOK, LocalsOK, AtItem, MustAcquire
  <2>4. LocalsOK'
    BY <1>0, <1>8, RecordType
       DEF PrincipalFails, ControlOK, StoresOK, LocalsOK, ItemStatuses
  <2>5. WorkflowOK'
    BY <1>0, <1>8 DEF PrincipalFails, WorkflowOK
  <2> QED
    BY <2>1, <2>2, <2>3, <2>4, <2>5, TypeNext
<1>9. CASE AcquireInterrupted(j)
  <2>1. ControlOK'
    BY <1>0, <1>9 DEF AcquireInterrupted, ControlOK, Goto, Exit, Statuses
  <2>2. FaultsOK'
    BY <1>0, <1>9, TypeFaults DEF AcquireInterrupted
  <2>3. StoresOK'
    BY <1>0, <1>9, ItemDoc DEF AcquireInterrupted, StoresOK, LocalsOK, AtItem, MustAcquire
  <2>4. LocalsOK'
    BY <1>0, <1>9
       DEF AcquireInterrupted, ControlOK, StoresOK, LocalsOK, ItemStatuses
  <2>5. WorkflowOK'
    BY <1>0, <1>9 DEF AcquireInterrupted, WorkflowOK
  <2> QED
    BY <2>1, <2>2, <2>3, <2>4, <2>5, TypeNext
<1> QED
  BY <1>1, <1>2, <1>3, <1>4, <1>5, <1>6, <1>7, <1>8, <1>9

LEMMA TypeCheckpoint ==
  ASSUME BackfillTypeOK, NEW j \in Jobs,
         AppendJournal(j)
         \/ PersistMirror(j)
         \/ PersistInterrupted(j)
         \/ PersistRefiles(j)
         \/ PrincipalPersistFails(j)
  PROVE  BackfillTypeOK'
<1>0. ControlOK /\ FaultsOK /\ StoresOK /\ LocalsOK /\ WorkflowOK
  BY TypeParts
<1> USE DEF Interruption, stores, batch, MirrorLost
<1>1. CASE AppendJournal(j)
  <2>1. ControlOK'
    BY <1>0, <1>1 DEF AppendJournal, ControlOK, Goto, Statuses
  <2>2. FaultsOK'
    BY <1>0, <1>1, TypeFaults DEF AppendJournal
  <2>3. StoresOK'
    BY <1>0, <1>1, ItemDoc DEF AppendJournal, StoresOK, LocalsOK
  <2>4. LocalsOK'
    BY <1>0, <1>1, TypeLine
       DEF AppendJournal, ControlOK, StoresOK, LocalsOK, ItemStatuses
  <2>5. WorkflowOK'
    BY <1>0, <1>1 DEF AppendJournal, WorkflowOK
  <2> QED
    BY <2>1, <2>2, <2>3, <2>4, <2>5, TypeNext
<1>2. CASE PersistMirror(j)
  <2>1. ControlOK'
    BY <1>0, <1>2 DEF PersistMirror, ControlOK, Goto, Advance, Statuses
  <2>2. FaultsOK'
    BY <1>0, <1>2, TypeFaults DEF PersistMirror
  <2>3. StoresOK'
    BY <1>0, <1>2 DEF PersistMirror, StoresOK, LocalsOK
  <2>4. LocalsOK'
    BY <1>0, <1>2 DEF PersistMirror, ControlOK, StoresOK, LocalsOK, ItemStatuses
  <2>5. WorkflowOK'
    BY <1>0, <1>2 DEF PersistMirror, WorkflowOK
  <2> QED
    BY <2>1, <2>2, <2>3, <2>4, <2>5, TypeNext
<1>3. CASE PersistInterrupted(j)
  <2>1. ControlOK'
    BY <1>0, <1>3 DEF PersistInterrupted, ControlOK, Goto, Exit, Statuses
  <2>2. FaultsOK'
    BY <1>0, <1>3, TypeFaults DEF PersistInterrupted
  <2>3. StoresOK'
    BY <1>0, <1>3 DEF PersistInterrupted, StoresOK, LocalsOK
  <2>4. LocalsOK'
    BY <1>0, <1>3
       DEF PersistInterrupted, ControlOK, StoresOK, LocalsOK, ItemStatuses
  <2>5. WorkflowOK'
    BY <1>0, <1>3 DEF PersistInterrupted, WorkflowOK
  <2> QED
    BY <2>1, <2>2, <2>3, <2>4, <2>5, TypeNext
<1>4. CASE PersistRefiles(j)
  <2>1. ControlOK'
    BY <1>0, <1>4 DEF PersistRefiles, ControlOK, Goto, Statuses
  <2>2. FaultsOK'
    BY <1>0, <1>4, TypeFaults DEF PersistRefiles
  <2>3. StoresOK'
    BY <1>0, <1>4, ItemDoc DEF PersistRefiles, StoresOK, LocalsOK
  <2>4. LocalsOK'
    BY <1>0, <1>4, RecordType
       DEF PersistRefiles, ControlOK, StoresOK, LocalsOK, ItemStatuses
  <2>5. WorkflowOK'
    BY <1>0, <1>4 DEF PersistRefiles, WorkflowOK
  <2> QED
    BY <2>1, <2>2, <2>3, <2>4, <2>5, TypeNext
<1>5. CASE PrincipalPersistFails(j)
  <2>1. ControlOK'
    BY <1>0, <1>5 DEF PrincipalPersistFails, ControlOK, Goto, Advance, Statuses
  <2>2. FaultsOK'
    BY <1>0, <1>5, TypeFaults DEF PrincipalPersistFails
  <2>3. StoresOK'
    BY <1>0, <1>5, ItemDoc DEF PrincipalPersistFails, StoresOK, LocalsOK
  <2>4. LocalsOK'
    BY <1>0, <1>5, RecordType
       DEF PrincipalPersistFails, ControlOK, StoresOK, LocalsOK, ItemStatuses
  <2>5. WorkflowOK'
    BY <1>0, <1>5 DEF PrincipalPersistFails, WorkflowOK
  <2> QED
    BY <2>1, <2>2, <2>3, <2>4, <2>5, TypeNext
<1> QED
  BY <1>1, <1>2, <1>3, <1>4, <1>5

LEMMA TypeEnd ==
  ASSUME BackfillTypeOK, NEW j \in Jobs,
         Commit(j)
         \/ CommitInterrupted(j)
         \/ Stop(j)
         \/ StopPrincipal(j)
         \/ Kill(j)
         \/ PreserveEvidence(j)
         \/ LoseRunner(j)
  PROVE  BackfillTypeOK'
<1>0. ControlOK /\ FaultsOK /\ StoresOK /\ LocalsOK /\ WorkflowOK
  BY TypeParts
<1> USE DEF Interruption, stores, batch
<1>1. CASE Commit(j)
  <2>1. ControlOK'
    BY <1>0, <1>1 DEF Commit, ControlOK, Goto, Exit, Statuses, ExitStatus
  <2>2. FaultsOK'
    BY <1>0, <1>1, TypeFaults DEF Commit
  <2>3. StoresOK'
    BY <1>0, <1>1 DEF Commit, StoresOK, LocalsOK
  <2>4. LocalsOK'
    BY <1>0, <1>1 DEF Commit, ControlOK, StoresOK, LocalsOK, ItemStatuses
  <2>5. WorkflowOK'
    BY <1>0, <1>1 DEF Commit, WorkflowOK
  <2> QED
    BY <2>1, <2>2, <2>3, <2>4, <2>5, TypeNext
<1>2. CASE CommitInterrupted(j)
  <2>1. ControlOK'
    BY <1>0, <1>2 DEF CommitInterrupted, ControlOK, Goto, Exit, Statuses
  <2>2. FaultsOK'
    BY <1>0, <1>2, TypeFaults DEF CommitInterrupted
  <2>3. StoresOK'
    BY <1>0, <1>2 DEF CommitInterrupted, StoresOK, LocalsOK
  <2>4. LocalsOK'
    BY <1>0, <1>2 DEF CommitInterrupted, ControlOK, StoresOK, LocalsOK, ItemStatuses
  <2>5. WorkflowOK'
    BY <1>0, <1>2 DEF CommitInterrupted, WorkflowOK
  <2> QED
    BY <2>1, <2>2, <2>3, <2>4, <2>5, TypeNext
<1>3. CASE Stop(j)
  <2>1. ControlOK'
    BY <1>0, <1>3 DEF Stop, ControlOK, Goto, Exit, Statuses
  <2>2. FaultsOK'
    BY <1>0, <1>3, TypeFaults DEF Stop
  <2>3. StoresOK'
    BY <1>0, <1>3 DEF Stop, StoresOK, LocalsOK, AtItem
  <2>4. LocalsOK'
    BY <1>0, <1>3 DEF Stop, ControlOK, StoresOK, LocalsOK, ItemStatuses
  <2>5. WorkflowOK'
    BY <1>0, <1>3 DEF Stop, WorkflowOK
  <2> QED
    BY <2>1, <2>2, <2>3, <2>4, <2>5, TypeNext
<1>4. CASE StopPrincipal(j)
  <2>1. ControlOK'
    BY <1>0, <1>4 DEF StopPrincipal, ControlOK, Goto, Exit, Statuses
  <2>2. FaultsOK'
    BY <1>0, <1>4, TypeFaults DEF StopPrincipal
  <2>3. StoresOK'
    BY <1>0, <1>4 DEF StopPrincipal, StoresOK, LocalsOK, AtItem
  <2>4. LocalsOK'
    BY <1>0, <1>4 DEF StopPrincipal, ControlOK, StoresOK, LocalsOK, ItemStatuses
  <2>5. WorkflowOK'
    BY <1>0, <1>4 DEF StopPrincipal, WorkflowOK
  <2> QED
    BY <2>1, <2>2, <2>3, <2>4, <2>5, TypeNext
<1>5. CASE Kill(j)
  <2>1. ControlOK'
    BY <1>0, <1>5 DEF Kill, ControlOK, Goto, Exit, Statuses
  <2>2. FaultsOK'
    BY <1>0, <1>5, TypeFaults DEF Kill
  <2>3. StoresOK'
    BY <1>0, <1>5 DEF Kill, StoresOK, LocalsOK
  <2>4. LocalsOK'
    <3>1. [journal[j] EXCEPT !.torn = TRUE] \in Checkpoints
      BY <1>0, TypeLine DEF LocalsOK
    <3>2. journal' = journal \/ journal' = [journal EXCEPT ![j] = [@ EXCEPT !.torn = TRUE]]
      BY <1>5 DEF Kill
    <3>3. builder' = builder
      BY <1>5 DEF Kill
    <3> QED
      BY <1>0, <3>1, <3>2, <3>3 DEF LocalsOK
  <2>5. WorkflowOK'
    BY <1>0, <1>5 DEF Kill, WorkflowOK
  <2> QED
    BY <2>1, <2>2, <2>3, <2>4, <2>5, TypeNext
<1>6. CASE PreserveEvidence(j)
  <2>1. ControlOK'
    BY <1>0, <1>6 DEF PreserveEvidence, ControlOK, Goto, Statuses
  <2>2. FaultsOK'
    BY <1>0, <1>6, TypeFaults DEF PreserveEvidence
  <2>3. StoresOK'
    BY <1>0, <1>6 DEF PreserveEvidence, StoresOK, LocalsOK
  <2>4. LocalsOK'
    BY <1>0, <1>6 DEF PreserveEvidence, ControlOK, StoresOK, LocalsOK, ItemStatuses
  <2>5. WorkflowOK'
    BY <1>0, <1>6 DEF PreserveEvidence, WorkflowOK
  <2> QED
    BY <2>1, <2>2, <2>3, <2>4, <2>5, TypeNext
<1>7. CASE LoseRunner(j)
  <2>1. ControlOK'
    BY <1>0, <1>7 DEF LoseRunner, ControlOK, Goto, Statuses
  <2>2. FaultsOK'
    BY <1>0, <1>7, TypeFaults DEF LoseRunner
  <2>3. StoresOK'
    BY <1>0, <1>7 DEF LoseRunner, StoresOK, LocalsOK
  <2>4. LocalsOK'
    BY <1>0, <1>7 DEF LoseRunner, ControlOK, StoresOK, LocalsOK, ItemStatuses
  <2>5. WorkflowOK'
    BY <1>0, <1>7 DEF LoseRunner, WorkflowOK
  <2> QED
    BY <2>1, <2>2, <2>3, <2>4, <2>5, TypeNext
<1> QED
  BY <1>1, <1>2, <1>3, <1>4, <1>5, <1>6, <1>7

-----------------------------------------------------------------------------
(* What each step of a job leaves alone.                                    *)
ActionsOf(j) == JobStep(j) \/ JobFault(j)

LEMMA ObjectsFrame ==
  ASSUME NEW j \in Jobs, ActionsOf(j),
         ~(AcquireDocument(j) \/ AcquireInterrupted(j))
  PROVE  objects' = objects
  BY DEF ActionsOf, JobStep, JobFault, BeginShard, ResumeShard,
         BeginPrincipal, Restore, RecoverStored, RecoverPrincipal,
         RecoverUnavailable, AcquireDocument, AcquireUnsupported,
         AppendJournal, PersistMirror, Commit, PreserveEvidence,
         RestoreFails, RecoverFails, AcquireFailed, PrincipalFails,
         AcquireInterrupted, PersistInterrupted, PersistRefiles,
         PrincipalPersistFails, CommitInterrupted, Stop, StopPrincipal,
         Kill, LoseRunner, Start, MirrorLost, stores, batch

LEMMA RefusedFrame ==
  ASSUME NEW j \in Jobs, ActionsOf(j),
         ~(AcquireUnsupported(j) \/ PrincipalFails(j))
  PROVE  refused' = refused
  BY DEF ActionsOf, JobStep, JobFault, BeginShard, ResumeShard,
         BeginPrincipal, Restore, RecoverStored, RecoverPrincipal,
         RecoverUnavailable, AcquireDocument, AcquireUnsupported,
         AppendJournal, PersistMirror, Commit, PreserveEvidence,
         RestoreFails, RecoverFails, AcquireFailed, PrincipalFails,
         AcquireInterrupted, PersistInterrupted, PersistRefiles,
         PrincipalPersistFails, CommitInterrupted, Stop, StopPrincipal,
         Kill, LoseRunner, Start, MirrorLost, stores, batch

LEMMA JournalFrame ==
  ASSUME NEW j \in Jobs, ActionsOf(j),
         ~(ResumeShard(j) \/ Restore(j) \/ AppendJournal(j) \/ Kill(j))
  PROVE  journal' = journal
  BY DEF ActionsOf, JobStep, JobFault, BeginShard, ResumeShard,
         BeginPrincipal, Restore, RecoverStored, RecoverPrincipal,
         RecoverUnavailable, AcquireDocument, AcquireUnsupported,
         AppendJournal, PersistMirror, Commit, PreserveEvidence,
         RestoreFails, RecoverFails, AcquireFailed, PrincipalFails,
         AcquireInterrupted, PersistInterrupted, PersistRefiles,
         PrincipalPersistFails, CommitInterrupted, Stop, StopPrincipal,
         Kill, LoseRunner, Start, MirrorLost, stores, batch

LEMMA MirrorFrame ==
  ASSUME NEW j \in Jobs, ActionsOf(j),
         ~(PersistMirror(j) \/ PersistInterrupted(j) \/ PersistRefiles(j) \/
           PrincipalPersistFails(j))
  PROVE  mirror' = mirror
  BY DEF ActionsOf, JobStep, JobFault, BeginShard, ResumeShard,
         BeginPrincipal, Restore, RecoverStored, RecoverPrincipal,
         RecoverUnavailable, AcquireDocument, AcquireUnsupported,
         AppendJournal, PersistMirror, Commit, PreserveEvidence,
         RestoreFails, RecoverFails, AcquireFailed, PrincipalFails,
         AcquireInterrupted, PersistInterrupted, PersistRefiles,
         PrincipalPersistFails, CommitInterrupted, Stop, StopPrincipal,
         Kill, LoseRunner, Start, MirrorLost, stores, batch

LEMMA SavedFrame ==
  ASSUME NEW j \in Jobs, ActionsOf(j),
         ~(PreserveEvidence(j))
  PROVE  saved' = saved
  BY DEF ActionsOf, JobStep, JobFault, BeginShard, ResumeShard,
         BeginPrincipal, Restore, RecoverStored, RecoverPrincipal,
         RecoverUnavailable, AcquireDocument, AcquireUnsupported,
         AppendJournal, PersistMirror, Commit, PreserveEvidence,
         RestoreFails, RecoverFails, AcquireFailed, PrincipalFails,
         AcquireInterrupted, PersistInterrupted, PersistRefiles,
         PrincipalPersistFails, CommitInterrupted, Stop, StopPrincipal,
         Kill, LoseRunner, Start, MirrorLost, stores, batch

LEMMA ManifestsFrame ==
  ASSUME NEW j \in Jobs, ActionsOf(j),
         ~(Commit(j) \/ CommitInterrupted(j))
  PROVE  manifests' = manifests
  BY DEF ActionsOf, JobStep, JobFault, BeginShard, ResumeShard,
         BeginPrincipal, Restore, RecoverStored, RecoverPrincipal,
         RecoverUnavailable, AcquireDocument, AcquireUnsupported,
         AppendJournal, PersistMirror, Commit, PreserveEvidence,
         RestoreFails, RecoverFails, AcquireFailed, PrincipalFails,
         AcquireInterrupted, PersistInterrupted, PersistRefiles,
         PrincipalPersistFails, CommitInterrupted, Stop, StopPrincipal,
         Kill, LoseRunner, Start, MirrorLost, stores, batch

LEMMA BuilderFrame ==
  ASSUME NEW j \in Jobs, ActionsOf(j),
         ~(BeginShard(j) \/ ResumeShard(j) \/ BeginPrincipal(j) \/
           RecoverStored(j) \/ RecoverPrincipal(j) \/
           RecoverUnavailable(j) \/ AcquireDocument(j) \/
           AcquireUnsupported(j) \/ AcquireFailed(j) \/ PrincipalFails(j) \/
           PersistRefiles(j) \/ PrincipalPersistFails(j))
  PROVE  builder' = builder
  BY DEF ActionsOf, JobStep, JobFault, BeginShard, ResumeShard,
         BeginPrincipal, Restore, RecoverStored, RecoverPrincipal,
         RecoverUnavailable, AcquireDocument, AcquireUnsupported,
         AppendJournal, PersistMirror, Commit, PreserveEvidence,
         RestoreFails, RecoverFails, AcquireFailed, PrincipalFails,
         AcquireInterrupted, PersistInterrupted, PersistRefiles,
         PrincipalPersistFails, CommitInterrupted, Stop, StopPrincipal,
         Kill, LoseRunner, Start, MirrorLost, stores, batch

LEMMA WorkflowFrame ==
  ASSUME NEW j \in Jobs, ActionsOf(j)
  PROVE  UNCHANGED <<line, snapshot, attempt, kind, ingestion, verdict>>
  BY DEF ActionsOf, JobStep, JobFault, BeginShard, ResumeShard,
         BeginPrincipal, Restore, RecoverStored, RecoverPrincipal,
         RecoverUnavailable, AcquireDocument, AcquireUnsupported,
         AppendJournal, PersistMirror, Commit, PreserveEvidence,
         RestoreFails, RecoverFails, AcquireFailed, PrincipalFails,
         AcquireInterrupted, PersistInterrupted, PersistRefiles,
         PrincipalPersistFails, CommitInterrupted, Stop, StopPrincipal,
         Kill, LoseRunner, Start, MirrorLost, stores, batch

LEMMA OthersFrame ==
  ASSUME NEW j \in Jobs, ActionsOf(j), ControlOK, LocalsOK, NEW i \in Jobs \ {j}
  PROVE  /\ pc'[i] = pc[i] /\ pos'[i] = pos[i] /\ seen'[i] = seen[i]
         /\ result'[i] = result[i] /\ builder'[i] = builder[i]
<1>1. CASE BeginShard(j)
  BY <1>1 DEF BeginShard, ControlOK, LocalsOK, Goto, Start
<1>2. CASE ResumeShard(j)
  BY <1>2 DEF ResumeShard, ControlOK, LocalsOK, Goto, Exit, Start
<1>3. CASE BeginPrincipal(j)
  BY <1>3 DEF BeginPrincipal, ControlOK, LocalsOK, Goto, Exit, Start
<1>4. CASE Restore(j)
  BY <1>4 DEF Restore, ControlOK, LocalsOK, Goto
<1>5. CASE RecoverStored(j)
  BY <1>5 DEF RecoverStored, ControlOK, LocalsOK, Goto, Exit, Advance, Record
<1>6. CASE RecoverPrincipal(j)
  BY <1>6 DEF RecoverPrincipal, ControlOK, LocalsOK, Goto, Advance, Record
<1>7. CASE RecoverUnavailable(j)
  BY <1>7 DEF RecoverUnavailable, ControlOK, LocalsOK, Goto, Advance, Record
<1>8. CASE AcquireDocument(j)
  BY <1>8 DEF AcquireDocument, ControlOK, LocalsOK, Goto, Record
<1>9. CASE AcquireUnsupported(j)
  BY <1>9 DEF AcquireUnsupported, ControlOK, LocalsOK, Goto, Record
<1>10. CASE AppendJournal(j)
  BY <1>10 DEF AppendJournal, ControlOK, LocalsOK, Goto
<1>11. CASE PersistMirror(j)
  BY <1>11 DEF PersistMirror, ControlOK, LocalsOK, Goto, Advance
<1>12. CASE Commit(j)
  BY <1>12 DEF Commit, ControlOK, LocalsOK, Goto, Exit
<1>13. CASE PreserveEvidence(j)
  BY <1>13 DEF PreserveEvidence, ControlOK, LocalsOK, Goto
<1>14. CASE RestoreFails(j)
  BY <1>14 DEF RestoreFails, ControlOK, LocalsOK, Goto, Exit, Interruption
<1>15. CASE RecoverFails(j)
  BY <1>15 DEF RecoverFails, ControlOK, LocalsOK, Goto, Exit, Interruption
<1>16. CASE AcquireFailed(j)
  BY <1>16 DEF AcquireFailed, ControlOK, LocalsOK, Goto, Record
<1>17. CASE PrincipalFails(j)
  BY <1>17 DEF PrincipalFails, ControlOK, LocalsOK, Goto, Advance, Record
<1>18. CASE AcquireInterrupted(j)
  BY <1>18 DEF AcquireInterrupted, ControlOK, LocalsOK, Goto, Exit, Interruption
<1>19. CASE PersistInterrupted(j)
  BY <1>19
     DEF PersistInterrupted, ControlOK, LocalsOK, Goto, Exit, MirrorLost,
         Interruption
<1>20. CASE PersistRefiles(j)
  BY <1>20 DEF PersistRefiles, ControlOK, LocalsOK, Goto, Record, MirrorLost
<1>21. CASE PrincipalPersistFails(j)
  BY <1>21
     DEF PrincipalPersistFails, ControlOK, LocalsOK, Goto, Advance, Record,
         MirrorLost
<1>22. CASE CommitInterrupted(j)
  BY <1>22 DEF CommitInterrupted, ControlOK, LocalsOK, Goto, Exit, Interruption
<1>23. CASE Stop(j)
  BY <1>23 DEF Stop, ControlOK, LocalsOK, Goto, Exit, Interruption
<1>24. CASE StopPrincipal(j)
  BY <1>24 DEF StopPrincipal, ControlOK, LocalsOK, Goto, Exit, Interruption
<1>25. CASE Kill(j)
  BY <1>25 DEF Kill, ControlOK, LocalsOK, Goto, Exit
<1>26. CASE LoseRunner(j)
  BY <1>26 DEF LoseRunner, ControlOK, LocalsOK, Goto
<1> QED
  BY <1>1, <1>2, <1>3, <1>4, <1>5, <1>6, <1>7, <1>8, <1>9, <1>10, <1>11,
     <1>12, <1>13, <1>14, <1>15, <1>16, <1>17, <1>18, <1>19, <1>20, <1>21,
     <1>22, <1>23, <1>24, <1>25, <1>26 DEF ActionsOf, JobStep, JobFault

-----------------------------------------------------------------------------
(* What is written down is true: of the objects, and of the refusals.        *)
True(c, o, r) == \A d \in Docs : /\ c.latest[d] = "stored" => Content[d] \in o
                                 /\ c.latest[d] = "unavailable" => d \in r
Claims(items, o, r) ==
  \A d \in Docs : /\ items[d] \in {"uploaded", "already_present"} => Content[d] \in o
                  /\ items[d] = "unavailable" => d \in r

TrueJournals == \A j \in Jobs : True(journal[j], objects, refused)
TrueMirrors == \A j \in Jobs : mirror[j] # Absent => True(mirror[j], objects, refused)
TrueEvidence == \A j \in Jobs : \A c \in saved[j] : True(c, objects, refused)
TrueManifests == \A m \in Jobs \X Attempts :
                   manifests[m] # Absent => Claims(manifests[m], objects, refused)
TrueBuilders == \A j \in Jobs : Claims(builder[j], objects, refused)

(* What a job is about to journal is true as well, and of its document.      *)
TrueSight(j) ==
  /\ pc[j] \in {"observed", "journaled"} => pos[j] <= Len(Assigned[j])
  /\ pc[j] = "observed" /\ seen[j] = "stored" => Content[Doc(j)] \in objects
  /\ pc[j] = "observed" /\ seen[j] = "unavailable" => Doc(j) \in refused
TrueSights == \A j \in Jobs : TrueSight(j)

Honest == /\ TrueJournals /\ TrueMirrors /\ TrueEvidence
          /\ TrueManifests /\ TrueBuilders /\ TrueSights

LEMMA StaysTrue ==
  ASSUME NEW o, NEW r, NEW o2, NEW r2, o \subseteq o2, r \subseteq r2
  PROVE  /\ \A c : True(c, o, r) => True(c, o2, r2)
         /\ \A items : Claims(items, o, r) => Claims(items, o2, r2)
  BY DEF True, Claims

LEMMA NothingClaimed == \A o, r : True(Empty, o, r) /\ Claims(Nothing, o, r)
  BY DEF True, Claims, Empty, Nothing

LEMMA Grows ==
  ASSUME NEW j \in Jobs, ActionsOf(j)
  PROVE  objects \subseteq objects' /\ refused \subseteq refused'
<1>1. CASE AcquireDocument(j)
  BY <1>1, RefusedFrame DEF AcquireDocument
<1>2. CASE AcquireInterrupted(j)
  BY <1>2 DEF AcquireInterrupted, batch
<1>3. CASE AcquireUnsupported(j)
  BY <1>3 DEF AcquireUnsupported, stores
<1>4. CASE PrincipalFails(j)
  BY <1>4 DEF PrincipalFails, stores
<1> QED
  BY <1>1, <1>2, <1>3, <1>4, ObjectsFrame, RefusedFrame

(* A line of the journal that tells the truth keeps it true.                 *)
LEMMA TrueLine ==
  ASSUME NEW c \in Checkpoints, NEW o, NEW r, True(c, o, r), NEW d \in Docs,
         NEW s, s = "stored" => Content[d] \in o, s = "unavailable" => d \in r
  PROVE  True([c EXCEPT !.latest[d] = s], o, r)
  BY DEF True, Checkpoints

LEMMA JournalsStayTrue ==
  ASSUME BackfillTypeOK, Honest, NEW j \in Jobs, ActionsOf(j)
  PROVE  TrueJournals'
<1> DEFINE T(c) == True(c, objects', refused')
<1>0. ControlOK /\ LocalsOK /\ StoresOK
  BY TypeParts
<1>1. /\ \A i \in Jobs : T(journal[i]) /\ (mirror[i] # Absent => T(mirror[i]))
      /\ \A i \in Jobs : \A c \in saved[i] : T(c)
  BY StaysTrue, Grows DEF Honest, TrueJournals, TrueMirrors, TrueEvidence
<1>2. SUFFICES \A i \in Jobs : T(journal'[i])
  BY DEF TrueJournals
<1> HIDE DEF T
<1>3. CASE ResumeShard(j)
  <2>1. CASE journal' = journal
    BY <1>1, <2>1
  <2>2. ASSUME NEW c \in saved[j], journal' = [journal EXCEPT ![j] = c]
        PROVE  \A i \in Jobs : T(journal'[i])
    BY <1>0, <1>1, <2>2 DEF LocalsOK
  <2> QED
    BY <1>3, <2>1, <2>2 DEF ResumeShard
<1>4. CASE Restore(j)
  BY <1>0, <1>1, <1>4 DEF Restore, LocalsOK
<1>5. CASE AppendJournal(j)
  <2>1. /\ journal' = [journal EXCEPT ![j] = [@ EXCEPT !.latest[Doc(j)] = seen[j]]]
        /\ objects' = objects /\ refused' = refused
    BY <1>5 DEF AppendJournal, stores
  <2>2. /\ Doc(j) \in Docs /\ True(journal[j], objects, refused)
        /\ seen[j] = "stored" => Content[Doc(j)] \in objects
        /\ seen[j] = "unavailable" => Doc(j) \in refused
        /\ journal[j] \in Checkpoints
    BY <1>0, <1>5, ItemDoc DEF AppendJournal, Honest, TrueSights, TrueSight,
                               TrueJournals, LocalsOK
  <2>3. T([journal[j] EXCEPT !.latest[Doc(j)] = seen[j]])
    BY <2>1, <2>2, TrueLine DEF T
  <2> QED
    BY <1>0, <1>1, <2>1, <2>3 DEF LocalsOK
<1>6. CASE Kill(j)
  <2>1. T([journal[j] EXCEPT !.torn = TRUE])
    BY <1>0, <1>1 DEF T, True, LocalsOK, Checkpoints
  <2>2. journal' = journal \/ journal' = [journal EXCEPT ![j] = [@ EXCEPT !.torn = TRUE]]
    BY <1>6 DEF Kill
  <2> QED
    BY <1>0, <1>1, <2>1, <2>2 DEF LocalsOK
<1> QED
  BY <1>1, <1>3, <1>4, <1>5, <1>6, JournalFrame

LEMMA MirrorsStayTrue ==
  ASSUME BackfillTypeOK, Honest, NEW j \in Jobs, ActionsOf(j)
  PROVE  TrueMirrors' /\ TrueEvidence'
<1> DEFINE T(c) == True(c, objects', refused')
<1>0. LocalsOK /\ StoresOK
  BY TypeParts
<1>1. /\ \A i \in Jobs : T(journal[i]) /\ (mirror[i] # Absent => T(mirror[i]))
      /\ \A i \in Jobs : \A c \in saved[i] : T(c)
  BY StaysTrue, Grows DEF Honest, TrueJournals, TrueMirrors, TrueEvidence
<1>2. SUFFICES /\ \A i \in Jobs : mirror'[i] # Absent => T(mirror'[i])
               /\ \A i \in Jobs : \A c \in saved'[i] : T(c)
  BY DEF TrueMirrors, TrueEvidence
<1> HIDE DEF T
<1>3. mirror' = mirror \/ mirror' = [mirror EXCEPT ![j] = journal[j]]
  BY MirrorFrame DEF PersistMirror, PersistInterrupted, PersistRefiles,
                     PrincipalPersistFails, MirrorLost
<1>4. saved' = saved \/ saved' = [saved EXCEPT ![j] = @ \cup {journal[j]}]
  BY SavedFrame DEF PreserveEvidence
<1>5. \A i \in Jobs : mirror'[i] # Absent => T(mirror'[i])
  BY <1>0, <1>1, <1>3 DEF StoresOK
<1>6. \A i \in Jobs : \A c \in saved'[i] : T(c)
  BY <1>0, <1>1, <1>4 DEF StoresOK
<1> QED
  BY <1>5, <1>6

(* A manifest is the builder's items, under a key that was free.             *)
LEMMA ManifestStep ==
  ASSUME NEW j \in Jobs, ActionsOf(j)
  PROVE  \/ manifests' = manifests
         \/ /\ AtCommit(j) /\ manifests[<<j, ingestion[j]>>] = Absent
            /\ manifests' = [manifests EXCEPT ![<<j, ingestion[j]>>] = builder[j]]
  BY ManifestsFrame DEF Commit, CommitInterrupted, ManifestKey

LEMMA ManifestsStayTrue ==
  ASSUME BackfillTypeOK, Honest, NEW j \in Jobs, ActionsOf(j)
  PROVE  TrueManifests'
<1>0. LocalsOK /\ StoresOK
  BY TypeParts
<1>1. /\ \A m \in Jobs \X Attempts :
           manifests[m] # Absent => Claims(manifests[m], objects', refused')
      /\ Claims(builder[j], objects', refused')
  BY StaysTrue, Grows DEF Honest, TrueManifests, TrueBuilders
<1> QED
  BY <1>0, <1>1, ManifestStep DEF TrueManifests, StoresOK

(* A step records at most its own document, and truly.                       *)
LEMMA BuildersStayTrue ==
  ASSUME BackfillTypeOK, Honest, NEW j \in Jobs, ActionsOf(j)
  PROVE  TrueBuilders'
<1> DEFINE C(items) == Claims(items, objects', refused')
<1>0. ControlOK /\ LocalsOK
  BY TypeParts
<1>1. \A i \in Jobs : C(builder[i])
  BY StaysTrue, Grows DEF Honest, TrueBuilders
<1>2. SUFFICES C(builder'[j])
  BY <1>0, <1>1, OthersFrame DEF TrueBuilders
<1>3. ASSUME NEW s, Record(j, s),
             s \in {"uploaded", "already_present"} => Content[Doc(j)] \in objects',
             s = "unavailable" => Doc(j) \in refused'
      PROVE  C(builder'[j])
  <2>1. builder'[j] = [builder[j] EXCEPT ![Doc(j)] = s]
    BY <1>0, <1>3 DEF Record, LocalsOK
  <2> QED
    BY <1>0, <1>1, <1>3, <2>1 DEF Claims, LocalsOK
<1>4. ASSUME Start(j) PROVE C(builder'[j])
  BY <1>0, <1>4, NothingClaimed DEF Start, LocalsOK
<1> HIDE DEF C
<1>5. CASE BeginShard(j) \/ ResumeShard(j) \/ BeginPrincipal(j)
  BY <1>4, <1>5 DEF BeginShard, ResumeShard, BeginPrincipal
<1>6. CASE RecoverStored(j)
  BY <1>1, <1>3, <1>6 DEF RecoverStored, Backed, stores
<1>7. CASE RecoverPrincipal(j)
  BY <1>3, <1>7 DEF RecoverPrincipal, Backed, stores
<1>8. CASE RecoverUnavailable(j)
  <2>1. Doc(j) \in Docs /\ journal[j].latest[Doc(j)] = "unavailable"
    BY <1>0, <1>8, ItemDoc DEF RecoverUnavailable, AtItem, Latest
  <2>2. Doc(j) \in refused
    BY <2>1 DEF Honest, TrueJournals, True
  <2> QED
    BY <1>3, <1>8, <2>2 DEF RecoverUnavailable
<1>9. CASE AcquireDocument(j)
  BY <1>3, <1>9 DEF AcquireDocument, Backed
<1>10. CASE AcquireUnsupported(j)
  BY <1>3, <1>10 DEF AcquireUnsupported
<1>11. CASE AcquireFailed(j) \/ PrincipalFails(j) \/ PersistRefiles(j)
            \/ PrincipalPersistFails(j)
  BY <1>3, <1>11 DEF AcquireFailed, PrincipalFails, PersistRefiles,
                     PrincipalPersistFails
<1> QED
  BY <1>1, <1>5, <1>6, <1>7, <1>8, <1>9, <1>10, <1>11, BuilderFrame

(* The steps that leave a job between an observation and the next document.  *)
Observes(j) == \/ AcquireDocument(j) \/ AcquireUnsupported(j) \/ AcquireFailed(j)
               \/ AppendJournal(j) \/ PersistRefiles(j)

LEMMA ObservesOnly ==
  ASSUME BackfillTypeOK, NEW j \in Jobs, ActionsOf(j), ~Observes(j)
  PROVE  pc'[j] \notin {"observed", "journaled"}
<1>0. pc \in [Jobs -> {"queued", "restore", "item", "observed", "journaled",
                     "exited", "ended"}]
  BY DEF BackfillTypeOK
<1>1. CASE BeginShard(j)
  BY <1>0, <1>1 DEF BeginShard, Goto, Start
<1>2. CASE ResumeShard(j)
  BY <1>0, <1>2 DEF ResumeShard, Goto, Exit, Start
<1>3. CASE BeginPrincipal(j)
  BY <1>0, <1>3 DEF BeginPrincipal, Goto, Exit, Start
<1>4. CASE Restore(j)
  BY <1>0, <1>4 DEF Restore, Goto
<1>5. CASE RecoverStored(j)
  BY <1>0, <1>5 DEF RecoverStored, Goto, Exit, Advance
<1>6. CASE RecoverPrincipal(j)
  BY <1>0, <1>6 DEF RecoverPrincipal, Goto, Advance
<1>7. CASE RecoverUnavailable(j)
  BY <1>0, <1>7 DEF RecoverUnavailable, Goto, Advance
<1>8. CASE PersistMirror(j)
  BY <1>0, <1>8 DEF PersistMirror, Goto, Advance
<1>9. CASE Commit(j)
  BY <1>0, <1>9 DEF Commit, Goto, Exit
<1>10. CASE PreserveEvidence(j)
  BY <1>0, <1>10 DEF PreserveEvidence, Goto
<1>11. CASE RestoreFails(j)
  BY <1>0, <1>11 DEF RestoreFails, Goto, Exit, Interruption
<1>12. CASE RecoverFails(j)
  BY <1>0, <1>12 DEF RecoverFails, Goto, Exit, Interruption
<1>13. CASE PrincipalFails(j)
  BY <1>0, <1>13 DEF PrincipalFails, Goto, Advance
<1>14. CASE AcquireInterrupted(j)
  BY <1>0, <1>14 DEF AcquireInterrupted, Goto, Exit, Interruption
<1>15. CASE PersistInterrupted(j)
  BY <1>0, <1>15 DEF PersistInterrupted, Goto, Exit, Interruption, MirrorLost
<1>16. CASE PrincipalPersistFails(j)
  BY <1>0, <1>16 DEF PrincipalPersistFails, Goto, Advance, MirrorLost
<1>17. CASE CommitInterrupted(j)
  BY <1>0, <1>17 DEF CommitInterrupted, Goto, Exit, Interruption
<1>18. CASE Stop(j)
  BY <1>0, <1>18 DEF Stop, Goto, Exit, Interruption
<1>19. CASE StopPrincipal(j)
  BY <1>0, <1>19 DEF StopPrincipal, Goto, Exit, Interruption
<1>20. CASE Kill(j)
  BY <1>0, <1>20 DEF Kill, Goto, Exit
<1>21. CASE LoseRunner(j)
  BY <1>0, <1>21 DEF LoseRunner, Goto
<1> QED
  BY <1>1, <1>2, <1>3, <1>4, <1>5, <1>6, <1>7, <1>8, <1>9, <1>10, <1>11,
     <1>12, <1>13, <1>14, <1>15, <1>16, <1>17, <1>18, <1>19, <1>20, <1>21
     DEF ActionsOf, JobStep, JobFault, Observes

LEMMA SightsStayTrue ==
  ASSUME BackfillTypeOK, Honest, NEW j \in Jobs, ActionsOf(j)
  PROVE  TrueSights'
<1>0. ControlOK /\ LocalsOK
  BY TypeParts
<1>1. ASSUME NEW i \in Jobs \ {j} PROVE TrueSight(i)'
  <2>1. /\ pc'[i] = pc[i] /\ pos'[i] = pos[i] /\ seen'[i] = seen[i]
    BY <1>0, <1>1, OthersFrame
  <2>2. Doc(i)' = Doc(i)
    BY <2>1 DEF Doc
  <2> QED
    BY <2>1, <2>2, Grows DEF Honest, TrueSights, TrueSight
<1>2. ASSUME pos' = pos PROVE Doc(j)' = Doc(j)
  BY <1>2 DEF Doc
<1>3. TrueSight(j)'
  <2>1. CASE AcquireDocument(j)
    BY <1>0, <1>2, <2>1 DEF AcquireDocument, MustAcquire, AtItem, TrueSight, Goto,
                            ControlOK, LocalsOK
  <2>2. CASE AcquireUnsupported(j)
    BY <1>0, <1>2, <2>2 DEF AcquireUnsupported, MustAcquire, AtItem, TrueSight, Goto,
                            ControlOK, LocalsOK
  <2>3. CASE AcquireFailed(j)
    BY <1>0, <1>2, <2>3 DEF AcquireFailed, MustAcquire, AtItem, TrueSight, Goto,
                            ControlOK, LocalsOK
  <2>4. CASE AppendJournal(j)
    BY <1>0, <2>4 DEF AppendJournal, Honest, TrueSights, TrueSight, Goto, ControlOK
  <2>5. CASE PersistRefiles(j)
    BY <1>0, <2>5 DEF PersistRefiles, MirrorLost, Honest, TrueSights, TrueSight, Goto,
                      ControlOK, LocalsOK
  <2>6. CASE ~Observes(j)
    BY <2>6, ObservesOnly DEF TrueSight
  <2> QED
    BY <2>1, <2>2, <2>3, <2>4, <2>5, <2>6 DEF Observes
<1> QED
  BY <1>1, <1>3 DEF TrueSights

(* The workflow only forgets.                                                *)
LEMMA WorkflowForgets ==
  ASSUME BackfillTypeOK, Honest,
         (\E k \in {"fresh", "resume"} : Dispatch(k)) \/ RerunFailed \/ Verify
  PROVE  Honest'
<1>1. /\ UNCHANGED <<objects, refused, saved, manifests, builder, pos, seen>>
      /\ \A j \in Jobs : journal'[j] \in {journal[j], Empty}
      /\ \A j \in Jobs : mirror'[j] \in {mirror[j], Absent}
      /\ \A j \in Jobs : pc'[j] \in {pc[j], "queued"}
  <2>1. ASSUME NEW k \in {"fresh", "resume"}, Dispatch(k) PROVE
             /\ UNCHANGED <<objects, refused, saved, manifests, builder, pos, seen>>
             /\ \A j \in Jobs : journal'[j] \in {journal[j], Empty}
             /\ \A j \in Jobs : mirror'[j] \in {mirror[j], Absent}
             /\ \A j \in Jobs : pc'[j] \in {pc[j], "queued"}
    BY <2>1 DEF Dispatch, BackfillTypeOK
  <2>2. CASE RerunFailed
    BY <2>2 DEF RerunFailed, BackfillTypeOK, stores
  <2>3. CASE Verify
    BY <2>3 DEF Verify, BackfillTypeOK, stores, locals, world
  <2> QED
    BY <2>1, <2>2, <2>3
<1>2. TrueJournals' /\ TrueMirrors' /\ TrueEvidence'
  BY <1>1, NothingClaimed DEF Honest, TrueJournals, TrueMirrors, TrueEvidence
<1>3. TrueManifests' /\ TrueBuilders'
  BY <1>1 DEF Honest, TrueManifests, TrueBuilders
<1>4. TrueSights'
  <2>1. \A j \in Jobs : Doc(j)' = Doc(j)
    BY <1>1 DEF Doc
  <2> QED
    BY <1>1, <2>1 DEF Honest, TrueSights, TrueSight
<1> QED
  BY <1>2, <1>3, <1>4 DEF Honest

-----------------------------------------------------------------------------
LEMMA TypeJobs ==
  ASSUME BackfillTypeOK, NEW j \in Jobs, ActionsOf(j)
  PROVE  BackfillTypeOK'
  BY TypeStart, TypeItem, TypeCheckpoint, TypeEnd
     DEF ActionsOf, JobStep, JobFault

LEMMA TypeStep == BackfillTypeOK /\ [BackfillNext]_backfillVars => BackfillTypeOK'
<1>1. ASSUME BackfillTypeOK, UNCHANGED backfillVars PROVE BackfillTypeOK'
  BY <1>1 DEF BackfillTypeOK, backfillVars, stores, locals, batch, world
<1>2. ASSUME BackfillTypeOK, BackfillNext PROVE BackfillTypeOK'
  BY <1>2, TypeJobs, TypeWorkflow DEF BackfillNext, ActionsOf
<1> QED
  BY <1>1, <1>2

(* Every variable of the backfill keeps its type, for any set of jobs, any   *)
(* assignment of documents and any number of attempts and faults.            *)
THEOREM TypeCorrect == BackfillSpec => []BackfillTypeOK
  BY TypeInit, TypeStep, PTL DEF BackfillSpec

LEMMA HonestInit == BackfillInit => Honest
  BY NothingClaimed DEF BackfillInit, Honest, TrueJournals, TrueMirrors, TrueEvidence,
       TrueManifests, TrueBuilders, TrueSights, TrueSight

LEMMA HonestStep == BackfillTypeOK /\ Honest /\ [BackfillNext]_backfillVars => Honest'
<1>1. ASSUME Honest, UNCHANGED backfillVars PROVE Honest'
  <2>1. \A j \in Jobs : Doc(j)' = Doc(j)
    BY <1>1 DEF Doc, backfillVars, locals
  <2> QED
    BY <1>1, <2>1 DEF Honest, TrueJournals, TrueMirrors, TrueEvidence, TrueManifests,
       TrueBuilders, TrueSights, TrueSight, backfillVars, stores, locals, batch, world
<1>2. ASSUME BackfillTypeOK, Honest, NEW j \in Jobs, ActionsOf(j) PROVE Honest'
  BY <1>2, JournalsStayTrue, MirrorsStayTrue, ManifestsStayTrue, BuildersStayTrue,
     SightsStayTrue DEF Honest
<1>3. ASSUME BackfillTypeOK, Honest, BackfillNext PROVE Honest'
  BY <1>2, <1>3, WorkflowForgets DEF BackfillNext, ActionsOf
<1> QED
  BY <1>1, <1>3

(* Whatever is journaled, mirrored, kept as evidence, committed or about to  *)
(* be journaled is true of the object store and of the official source.      *)
THEOREM AlwaysHonest == BackfillSpec => []Honest
  BY HonestInit, HonestStep, TypeCorrect, PTL DEF BackfillSpec

(* A checkpoint or a manifest that names a stored document has its object,   *)
(* across crashes, lost acknowledgements, resumes and re-runs.               *)
THEOREM CheckpointsBacked == BackfillSpec => []CheckpointsAreBacked
<1>1. BackfillTypeOK /\ Honest => CheckpointsAreBacked
  BY DEF BackfillTypeOK, Honest, TrueJournals, TrueMirrors, TrueEvidence, TrueManifests,
         True, Claims, CheckpointsAreBacked, Sound, Backed
<1> QED
  BY <1>1, TypeCorrect, AlwaysHonest, PTL

LEMMA ManifestsFinalStep ==
  ASSUME BackfillTypeOK, [BackfillNext]_backfillVars
  PROVE  \A m \in DOMAIN manifests : manifests[m] # Absent => manifests'[m] = manifests[m]
<1>1. CASE UNCHANGED backfillVars
  BY <1>1 DEF backfillVars, stores
<1>2. ASSUME NEW j \in Jobs, ActionsOf(j)
      PROVE  \A m \in DOMAIN manifests :
               manifests[m] # Absent => manifests'[m] = manifests[m]
  BY <1>2, ManifestStep DEF BackfillTypeOK
<1>3. CASE (\E k \in {"fresh", "resume"} : Dispatch(k)) \/ RerunFailed \/ Verify
  BY <1>3 DEF Dispatch, RerunFailed, Verify, stores
<1> QED
  BY <1>1, <1>2, <1>3 DEF BackfillNext, ActionsOf

(* A committed run manifest is never rewritten, by its run or a later one.   *)
THEOREM ManifestsFinal == BackfillSpec => ManifestsAreFinal
<1>1. BackfillTypeOK /\ [BackfillNext]_backfillVars =>
        [\A m \in DOMAIN manifests :
           manifests[m] # Absent => manifests'[m] = manifests[m]]_backfillVars
  BY ManifestsFinalStep
<1> QED
  BY <1>1, TypeCorrect, PTL DEF BackfillSpec, ManifestsAreFinal

-----------------------------------------------------------------------------
(* A job at its loop has an item for every document before the current one,  *)
(* and for the current one too between the observation and the next item.    *)
Handled(j) ==
  /\ pc[j] \in {"restore", "item", "observed", "journaled"} =>
       \A i \in 1 .. Len(Assigned[j]) :
          i < pos[j] => builder[j][Assigned[j][i]] # "none"
  /\ pc[j] \in {"observed", "journaled"} => builder[j][Doc(j)] # "none"

Resolved(j) ==
  \A i \in 1 .. Len(Assigned[j]) :
     \/ Content[Assigned[j][i]] \in objects
     \/ j \in Shards /\ Assigned[j][i] \in refused

Progress == \A j \in Jobs : Handled(j) /\ (result[j] = "ok" => Resolved(j))

(* Recording keeps every item there was and adds that of the document.       *)
LEMMA Recording ==
  ASSUME LocalsOK, NEW j \in Jobs, NEW s \in ItemStatuses \ {"none"}, Record(j, s)
  PROVE  /\ \A d \in Docs : builder[j][d] # "none" => builder'[j][d] # "none"
         /\ Doc(j) \in Docs => builder'[j][Doc(j)] # "none"
  BY DEF Record, LocalsOK

LEMMA HandledStep ==
  ASSUME BackfillTypeOK, Honest, NEW j \in Jobs, ActionsOf(j), Handled(j)
  PROVE  Handled(j)'
<1> DEFINE Before(p, b) == \A i \in 1 .. Len(Assigned[j]) :
                             i < p => b[Assigned[j][i]] # "none"
<1>a. /\ ControlOK /\ LocalsOK /\ Assigned[j] \in Seq(Docs)
      /\ pc[j] \in {"observed", "journaled"} => pos[j] <= Len(Assigned[j])
  BY TypeParts, BackfillAssigned DEF Honest, TrueSights, TrueSight
<1>b. /\ \A i \in 1 .. Len(Assigned[j]) : Assigned[j][i] \in Docs
      /\ Len(Assigned[j]) \in Nat
      /\ pos[j] \in Nat \ {0}
      /\ pos[j] <= Len(Assigned[j]) => Doc(j) \in Docs
  BY <1>a, ItemDoc DEF ControlOK
<1>c. ASSUME pos'[j] = pos[j] PROVE Doc(j)' = Doc(j)
  BY <1>c DEF Doc
<1>1. CASE BeginShard(j)
  BY <1>a, <1>b, <1>c, <1>1
     DEF BeginShard, Handled, Doc, ControlOK, LocalsOK, ItemStatuses, Goto, Start
<1>2. CASE ResumeShard(j)
  BY <1>a, <1>b, <1>c, <1>2
     DEF ResumeShard, Handled, Doc, ControlOK, LocalsOK, ItemStatuses, Goto, Exit,
         Start
<1>3. CASE BeginPrincipal(j)
  BY <1>a, <1>b, <1>c, <1>3
     DEF BeginPrincipal, Handled, Doc, ControlOK, LocalsOK, ItemStatuses, Goto,
         Exit, Start
<1>4. CASE Restore(j)
  BY <1>a, <1>b, <1>c, <1>4
     DEF Restore, Handled, Doc, ControlOK, LocalsOK, ItemStatuses, Goto
<1>5. CASE RecoverStored(j)
  BY <1>a, <1>b, <1>c, <1>5, Recording
     DEF RecoverStored, Handled, Doc, ControlOK, LocalsOK, ItemStatuses, Goto,
         Exit, Advance, AtItem
<1>6. CASE RecoverPrincipal(j)
  BY <1>a, <1>b, <1>c, <1>6, Recording
     DEF RecoverPrincipal, Handled, Doc, ControlOK, LocalsOK, ItemStatuses, Goto,
         Advance, AtItem
<1>7. CASE RecoverUnavailable(j)
  BY <1>a, <1>b, <1>c, <1>7, Recording
     DEF RecoverUnavailable, Handled, Doc, ControlOK, LocalsOK, ItemStatuses, Goto,
         Advance, AtItem
<1>8. CASE AcquireDocument(j)
  BY <1>a, <1>b, <1>c, <1>8, Recording
     DEF AcquireDocument, Handled, Doc, ControlOK, LocalsOK, ItemStatuses, Goto,
         AtItem, MustAcquire
<1>9. CASE AcquireUnsupported(j)
  BY <1>a, <1>b, <1>c, <1>9, Recording
     DEF AcquireUnsupported, Handled, Doc, ControlOK, LocalsOK, ItemStatuses, Goto,
         AtItem, MustAcquire
<1>10. CASE AppendJournal(j)
  BY <1>a, <1>b, <1>c, <1>10
     DEF AppendJournal, Handled, Doc, ControlOK, LocalsOK, ItemStatuses, Goto
<1>11. CASE PersistMirror(j)
  BY <1>a, <1>b, <1>c, <1>11
     DEF PersistMirror, Handled, Doc, ControlOK, LocalsOK, ItemStatuses, Goto,
         Advance
<1>12. CASE Commit(j)
  BY <1>a, <1>b, <1>c, <1>12
     DEF Commit, Handled, Doc, ControlOK, LocalsOK, ItemStatuses, Goto, Exit
<1>13. CASE PreserveEvidence(j)
  BY <1>a, <1>b, <1>c, <1>13
     DEF PreserveEvidence, Handled, Doc, ControlOK, LocalsOK, ItemStatuses, Goto
<1>14. CASE RestoreFails(j)
  BY <1>a, <1>b, <1>c, <1>14
     DEF RestoreFails, Handled, Doc, ControlOK, LocalsOK, ItemStatuses, Goto, Exit,
         Interruption
<1>15. CASE RecoverFails(j)
  BY <1>a, <1>b, <1>c, <1>15
     DEF RecoverFails, Handled, Doc, ControlOK, LocalsOK, ItemStatuses, Goto, Exit,
         Interruption, AtItem
<1>16. CASE AcquireFailed(j)
  BY <1>a, <1>b, <1>c, <1>16, Recording
     DEF AcquireFailed, Handled, Doc, ControlOK, LocalsOK, ItemStatuses, Goto,
         AtItem, MustAcquire
<1>17. CASE PrincipalFails(j)
  BY <1>a, <1>b, <1>c, <1>17, Recording
     DEF PrincipalFails, Handled, Doc, ControlOK, LocalsOK, ItemStatuses, Goto,
         Advance, AtItem, MustAcquire
<1>18. CASE AcquireInterrupted(j)
  BY <1>a, <1>b, <1>c, <1>18
     DEF AcquireInterrupted, Handled, Doc, ControlOK, LocalsOK, ItemStatuses, Goto,
         Exit, Interruption, AtItem, MustAcquire
<1>19. CASE PersistInterrupted(j)
  BY <1>a, <1>b, <1>c, <1>19
     DEF PersistInterrupted, Handled, Doc, ControlOK, LocalsOK, ItemStatuses, Goto,
         Exit, MirrorLost, Interruption
<1>20. CASE PersistRefiles(j)
  BY <1>a, <1>b, <1>c, <1>20, Recording
     DEF PersistRefiles, Handled, Doc, ControlOK, LocalsOK, ItemStatuses, Goto,
         MirrorLost
<1>21. CASE PrincipalPersistFails(j)
  BY <1>a, <1>b, <1>c, <1>21, Recording
     DEF PrincipalPersistFails, Handled, Doc, ControlOK, LocalsOK, ItemStatuses,
         Goto, Advance, MirrorLost
<1>22. CASE CommitInterrupted(j)
  BY <1>a, <1>b, <1>c, <1>22
     DEF CommitInterrupted, Handled, Doc, ControlOK, LocalsOK, ItemStatuses, Goto,
         Exit, Interruption
<1>23. CASE Stop(j)
  BY <1>a, <1>b, <1>c, <1>23
     DEF Stop, Handled, Doc, ControlOK, LocalsOK, ItemStatuses, Goto, Exit,
         Interruption, AtItem
<1>24. CASE StopPrincipal(j)
  BY <1>a, <1>b, <1>c, <1>24
     DEF StopPrincipal, Handled, Doc, ControlOK, LocalsOK, ItemStatuses, Goto,
         Exit, Interruption, AtItem
<1>25. CASE Kill(j)
  BY <1>a, <1>b, <1>c, <1>25
     DEF Kill, Handled, Doc, ControlOK, LocalsOK, ItemStatuses, Goto, Exit
<1>26. CASE LoseRunner(j)
  BY <1>a, <1>b, <1>c, <1>26
     DEF LoseRunner, Handled, Doc, ControlOK, LocalsOK, ItemStatuses, Goto
<1> QED
  BY <1>1, <1>2, <1>3, <1>4, <1>5, <1>6, <1>7, <1>8, <1>9, <1>10, <1>11,
     <1>12, <1>13, <1>14, <1>15, <1>16, <1>17, <1>18, <1>19, <1>20, <1>21, <1>22,
     <1>23, <1>24, <1>25, <1>26 DEF ActionsOf, JobStep, JobFault

LEMMA OnlyCommitSucceeds ==
  ASSUME BackfillTypeOK, NEW j \in Jobs, ActionsOf(j), result'[j] = "ok"
  PROVE  result[j] = "ok" \/ Commit(j)
<1>a. ControlOK
  BY TypeParts
<1>1. CASE BeginShard(j)
  BY <1>a, <1>1 DEF BeginShard, ControlOK, Start
<1>2. CASE ResumeShard(j)
  BY <1>a, <1>2 DEF ResumeShard, ControlOK, Exit, Start
<1>3. CASE BeginPrincipal(j)
  BY <1>a, <1>3 DEF BeginPrincipal, ControlOK, Exit, Start
<1>4. CASE Restore(j)
  BY <1>a, <1>4 DEF Restore, ControlOK
<1>5. CASE RecoverStored(j)
  BY <1>a, <1>5 DEF RecoverStored, ControlOK, Exit
<1>6. CASE RecoverPrincipal(j)
  BY <1>a, <1>6 DEF RecoverPrincipal, ControlOK
<1>7. CASE RecoverUnavailable(j)
  BY <1>a, <1>7 DEF RecoverUnavailable, ControlOK
<1>8. CASE AcquireDocument(j)
  BY <1>a, <1>8 DEF AcquireDocument, ControlOK
<1>9. CASE AcquireUnsupported(j)
  BY <1>a, <1>9 DEF AcquireUnsupported, ControlOK
<1>10. CASE AppendJournal(j)
  BY <1>a, <1>10 DEF AppendJournal, ControlOK
<1>11. CASE PersistMirror(j)
  BY <1>a, <1>11 DEF PersistMirror, ControlOK
<1>12. CASE Commit(j)
  BY <1>a, <1>12 DEF Commit, ControlOK, Exit
<1>13. CASE PreserveEvidence(j)
  BY <1>a, <1>13 DEF PreserveEvidence, ControlOK
<1>14. CASE RestoreFails(j)
  BY <1>a, <1>14 DEF RestoreFails, ControlOK, Exit, Interruption
<1>15. CASE RecoverFails(j)
  BY <1>a, <1>15 DEF RecoverFails, ControlOK, Exit, Interruption
<1>16. CASE AcquireFailed(j)
  BY <1>a, <1>16 DEF AcquireFailed, ControlOK
<1>17. CASE PrincipalFails(j)
  BY <1>a, <1>17 DEF PrincipalFails, ControlOK
<1>18. CASE AcquireInterrupted(j)
  BY <1>a, <1>18 DEF AcquireInterrupted, ControlOK, Exit, Interruption
<1>19. CASE PersistInterrupted(j)
  BY <1>a, <1>19 DEF PersistInterrupted, ControlOK, Exit, Interruption
<1>20. CASE PersistRefiles(j)
  BY <1>a, <1>20 DEF PersistRefiles, ControlOK
<1>21. CASE PrincipalPersistFails(j)
  BY <1>a, <1>21 DEF PrincipalPersistFails, ControlOK
<1>22. CASE CommitInterrupted(j)
  BY <1>a, <1>22 DEF CommitInterrupted, ControlOK, Exit, Interruption
<1>23. CASE Stop(j)
  BY <1>a, <1>23 DEF Stop, ControlOK, Exit, Interruption
<1>24. CASE StopPrincipal(j)
  BY <1>a, <1>24 DEF StopPrincipal, ControlOK, Exit, Interruption
<1>25. CASE Kill(j)
  BY <1>a, <1>25 DEF Kill, ControlOK, Exit
<1>26. CASE LoseRunner(j)
  BY <1>a, <1>26 DEF LoseRunner, ControlOK
<1> QED
  BY <1>1, <1>2, <1>3, <1>4, <1>5, <1>6, <1>7, <1>8, <1>9, <1>10, <1>11,
     <1>12, <1>13, <1>14, <1>15, <1>16, <1>17, <1>18, <1>19, <1>20, <1>21, <1>22,
     <1>23, <1>24, <1>25, <1>26 DEF ActionsOf, JobStep, JobFault

LEMMA ProgressInit == BackfillInit => Progress
  BY DEF BackfillInit, Progress, Handled

(* A commit that succeeds has an item that says so for every document.       *)
LEMMA CommitResolves ==
  ASSUME BackfillTypeOK, Honest, NEW j \in Jobs, Handled(j), Commit(j), result'[j] = "ok",
         result[j] # "ok"
  PROVE  Resolved(j)'
<1>1. /\ ControlOK /\ LocalsOK /\ Assigned[j] \in Seq(Docs)
      /\ objects' = objects /\ refused' = refused
  BY TypeParts, BackfillAssigned DEF Commit
<1>2. /\ NoneFailed(builder[j]) /\ (j \in Principales => AllStored(j))
      /\ AtCommit(j)
  BY <1>1 DEF Commit, Exit, ExitStatus, ControlOK
<1>3. ASSUME NEW i \in 1 .. Len(Assigned[j])
      PROVE  /\ Assigned[j][i] \in Docs
             /\ builder[j][Assigned[j][i]] \in ItemStatuses \ {"none", "failed"}
  BY <1>1, <1>2 DEF AtCommit, Handled, NoneFailed, LocalsOK, ControlOK
<1>4. Claims(builder[j], objects, refused)
  BY DEF Honest, TrueBuilders
<1>5. ASSUME NEW i \in 1 .. Len(Assigned[j])
      PROVE  \/ Content[Assigned[j][i]] \in objects
             \/ j \in Shards /\ Assigned[j][i] \in refused
  BY <1>2, <1>3, <1>4, <1>5 DEF Claims, ItemStatuses, AllStored, Jobs
<1> QED
  BY <1>1, <1>5 DEF Resolved

LEMMA ProgressJobs ==
  ASSUME BackfillTypeOK, Honest, Progress, NEW j \in Jobs, ActionsOf(j)
  PROVE  Progress'
<1>1. ControlOK /\ LocalsOK /\ objects \subseteq objects' /\ refused \subseteq refused'
  BY TypeParts, Grows
<1>2. \A i \in Jobs : result[i] = "ok" => Resolved(i)'
  BY <1>1 DEF Progress, Resolved
<1>3. ASSUME NEW i \in Jobs \ {j}
      PROVE  Handled(i)' /\ (result'[i] = "ok" => Resolved(i)')
  <2>1. /\ pc'[i] = pc[i] /\ pos'[i] = pos[i]
        /\ result'[i] = result[i] /\ builder'[i] = builder[i]
    BY <1>1, OthersFrame
  <2>2. Doc(i)' = Doc(i)
    BY <2>1 DEF Doc
  <2> QED
    BY <1>2, <2>1, <2>2 DEF Progress, Handled
<1>4. Handled(j)'
  BY HandledStep DEF Progress
<1>5. result'[j] = "ok" => Resolved(j)'
  BY <1>2, OnlyCommitSucceeds, CommitResolves DEF Progress
<1> QED
  BY <1>3, <1>4, <1>5 DEF Progress

LEMMA ProgressStep ==
  BackfillTypeOK /\ Honest /\ Progress /\ [BackfillNext]_backfillVars => Progress'
<1>1. ASSUME Progress, UNCHANGED backfillVars PROVE Progress'
  <2>1. \A j \in Jobs : Doc(j)' = Doc(j)
    BY <1>1 DEF Doc, backfillVars, locals
  <2> QED
    BY <1>1, <2>1 DEF Progress, Handled, Resolved, backfillVars, stores, locals, world
<1>2. ASSUME BackfillTypeOK, Progress,
             (\E k \in {"fresh", "resume"} : Dispatch(k)) \/ RerunFailed \/ Verify
      PROVE  Progress'
  <2>1. /\ UNCHANGED <<objects, refused, builder, pos>>
        /\ \A j \in Jobs : /\ pc'[j] \in {pc[j], "queued"}
                           /\ result'[j] \in {result[j], "none"}
    <3>1. CASE \E k \in {"fresh", "resume"} : Dispatch(k)
      BY <3>1 DEF Dispatch, BackfillTypeOK
    <3>2. CASE RerunFailed
      BY <3>2 DEF RerunFailed, BackfillTypeOK, stores
    <3>3. CASE Verify
      BY <3>3 DEF Verify, stores, locals, world
    <3> QED
      BY <1>2, <3>1, <3>2, <3>3
  <2>2. \A j \in Jobs : Doc(j)' = Doc(j)
    BY <2>1 DEF Doc
  <2> QED
    BY <1>2, <2>1, <2>2 DEF Progress, Handled, Resolved
<1> QED
  BY <1>1, <1>2, ProgressJobs DEF BackfillNext, ActionsOf

(* A job that exits 0 has every document assigned to it in the object store, *)
(* or refused by the official locator where the script accepts that.         *)
THEOREM SuccessComplete == BackfillSpec => []SuccessIsComplete
<1>1. Progress => SuccessIsComplete
  BY DEF Progress, Resolved, SuccessIsComplete, Backed
<1>2. BackfillSpec => []Progress
  BY ProgressInit, ProgressStep, TypeCorrect, AlwaysHonest, PTL DEF BackfillSpec
<1> QED
  BY <1>1, <1>2, PTL

-----------------------------------------------------------------------------
(* Ingestion ids are attempts of the past, and a manifest bears the id of a  *)
(* run that its job has had.                                                 *)
BatchIds ==
  /\ \A j \in Jobs : ingestion[j] <= attempt
  /\ \A j \in Jobs, a \in Attempts : manifests[<<j, a>>] # Absent => a <= ingestion[j]

LEMMA BatchIdsInit == BackfillInit => BatchIds
  BY DEF BackfillInit, BatchIds, Attempts

LEMMA BatchIdsStep ==
  BackfillTypeOK /\ BatchIds /\ [BackfillNext]_backfillVars => BatchIds'
<1>1. ASSUME BatchIds, UNCHANGED backfillVars PROVE BatchIds'
  BY <1>1 DEF BatchIds, backfillVars, stores, batch
<1>2. ASSUME BackfillTypeOK, BatchIds, NEW j \in Jobs, ActionsOf(j) PROVE BatchIds'
  <2>1. ingestion' = ingestion /\ attempt' = attempt
    BY <1>2, WorkflowFrame
  <2>2. ASSUME NEW i \in Jobs, NEW a \in Attempts, manifests'[<<i, a>>] # Absent
        PROVE  a <= ingestion[i]
    <3>1. manifests[<<i, a>>] # Absent \/ a = ingestion[i]
      BY <1>2, <2>2, ManifestStep DEF BackfillTypeOK
    <3> QED
      BY <1>2, <3>1, BackfillBounds DEF BatchIds, Attempts
  <2> QED
    BY <1>2, <2>1, <2>2 DEF BatchIds
<1>3. ASSUME BackfillTypeOK, BatchIds,
             (\E k \in {"fresh", "resume"} : Dispatch(k)) \/ RerunFailed \/ Verify
      PROVE  BatchIds'
  <2>1. /\ manifests' = manifests /\ attempt \in Nat /\ attempt <= attempt'
        /\ attempt' \in Nat
        /\ \A j \in Jobs : ingestion'[j] \in {ingestion[j], attempt'}
    <3>1. CASE \E k \in {"fresh", "resume"} : Dispatch(k)
      BY <3>1, <1>3, BackfillBounds DEF Dispatch, BackfillTypeOK, Attempts
    <3>2. CASE RerunFailed
      BY <3>2, <1>3, BackfillBounds DEF RerunFailed, BackfillTypeOK, stores, Attempts
    <3>3. CASE Verify
      BY <3>3, <1>3, BackfillBounds DEF Verify, BackfillTypeOK, stores, Attempts
    <3> QED
      BY <1>3, <3>1, <3>2, <3>3
  <2>2. \A j \in Jobs : ingestion[j] \in Nat
    BY <1>3, BackfillBounds DEF BackfillTypeOK, Attempts
  <2>3. Attempts \subseteq Nat
    BY BackfillBounds DEF Attempts
  <2> QED
    BY <1>3, <2>1, <2>2, <2>3 DEF BatchIds
<1> QED
  BY <1>1, <1>2, <1>3 DEF BackfillNext, ActionsOf

LEMMA WholeInit == BackfillInit => VerifiedBatchIsWhole
  BY DEF BackfillInit, VerifiedBatchIsWhole

(* What the verification looks at suffices.                                  *)
LEMMA VerifySuffices ==
  ASSUME BackfillTypeOK, Honest, BatchIds, Verify
  PROVE  VerifiedBatchIsWhole'
<1>1. /\ UNCHANGED <<objects, refused, manifests, ingestion, attempt>>
      /\ attempt \in Attempts /\ Attempts \subseteq Nat
      /\ \A j \in Jobs : ingestion[j] \in Nat
  BY BackfillBounds DEF Verify, stores, world, BackfillTypeOK, Attempts
<1>2. SUFFICES ASSUME verdict' \in {"complete", "complete_with_unavailable"}
               PROVE  /\ \A j \in Shards : InBatch(j)
                      /\ \A d \in Docs : Backed(d) \/ d \in refused
                      /\ verdict' = "complete" => \A d \in Docs : Backed(d)
  BY <1>1 DEF VerifiedBatchIsWhole, InBatch, Backed
<1>3. /\ EveryPartition /\ AllSucceeded /\ \A d \in Docs : Accounted(d)
      /\ verdict' = "complete" => ~SomeUnavailable
  BY <1>2 DEF Verify
<1>4. ASSUME NEW j \in Shards PROVE InBatch(j)
  <2>1. j \in Jobs /\ manifests[<<j, attempt>>] # Absent
    BY <1>3 DEF EveryPartition, Items, Jobs
  <2>2. ingestion[j] <= attempt /\ attempt <= ingestion[j]
    BY <1>1, <2>1 DEF BatchIds
  <2> QED
    BY <1>1, <2>1, <2>2 DEF InBatch
<1>5. ASSUME NEW d \in Docs
      PROVE  /\ Backed(d) \/ d \in refused
             /\ verdict' = "complete" => Backed(d)
  <2>1. PICK j \in Shards : Items(j)[d] # "none"
    BY <1>3 DEF Accounted
  <2>2. /\ Items(j) \in [Docs -> ItemStatuses]
        /\ Items(j)[d] # "failed"
        /\ Claims(Items(j), objects, refused)
    BY <1>1, <1>3 DEF EveryPartition, AllSucceeded, NoneFailed, Items, Honest,
                      TrueManifests, BackfillTypeOK, Jobs
  <2>3. Items(j)[d] \in {"uploaded", "already_present", "unavailable"}
    BY <2>1, <2>2 DEF ItemStatuses
  <2> QED
    BY <1>3, <2>2, <2>3 DEF Claims, Backed, SomeUnavailable
<1> QED
  BY <1>4, <1>5

LEMMA WholeStep ==
  BackfillTypeOK /\ Honest /\ BatchIds /\ VerifiedBatchIsWhole
  /\ [BackfillNext]_backfillVars => VerifiedBatchIsWhole'
<1>1. ASSUME VerifiedBatchIsWhole, UNCHANGED backfillVars PROVE VerifiedBatchIsWhole'
  BY <1>1 DEF VerifiedBatchIsWhole, InBatch, Backed, backfillVars, stores, batch, world
<1>2. ASSUME VerifiedBatchIsWhole, NEW j \in Jobs, ActionsOf(j)
      PROVE  VerifiedBatchIsWhole'
  <2>1. /\ objects \subseteq objects' /\ refused \subseteq refused'
        /\ UNCHANGED <<verdict, ingestion, attempt>>
    BY <1>2, Grows, WorkflowFrame
  <2> QED
    BY <1>2, <2>1 DEF VerifiedBatchIsWhole, InBatch, Backed
<1>3. CASE (\E k \in {"fresh", "resume"} : Dispatch(k)) \/ RerunFailed
  BY <1>3 DEF Dispatch, RerunFailed, VerifiedBatchIsWhole
<1> QED
  BY <1>1, <1>2, <1>3, VerifySuffices DEF BackfillNext, ActionsOf

(* A batch is certified only when one attempt committed all its manifests,   *)
(* and then every document of the inventory is stored or was refused.        *)
THEOREM VerifiedWhole == BackfillSpec => []VerifiedBatchIsWhole
  BY BatchIdsInit, BatchIdsStep, WholeInit, WholeStep, TypeCorrect, AlwaysHonest, PTL
     DEF BackfillSpec
=============================================================================
