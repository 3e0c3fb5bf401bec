--------------------------- MODULE CorpusBackfill ---------------------------
(***************************************************************************)
(* The mass acquisition of official documents into object storage:         *)
(* backend/scripts/scj_1994_storage_backfill.py (a batch of shards of one  *)
(* certified inventory, started by a workflow), its final                  *)
(* verify_scj_1994_storage_backfill.py, and scj_principales_backfill.py (a *)
(* single job on a host that keeps its disk), with the recovery journal and *)
(* its mirror (acquisition/recovery.py) and the run manifest               *)
(* (acquisition/manifest.py).                                              *)
(*                                                                         *)
(* A checkpoint is the latest-state view of a journal: what it says of each *)
(* document, and whether its last line is torn.  A document is its content *)
(* address: Content maps it to the digest its bytes have.                  *)
(***************************************************************************)
EXTENDS Naturals, Sequences

CONSTANTS Shards,       \* the shards of a certified batch
          Principales,  \* jobs of the other script, each with its own disk
          Docs,         \* source identifiers of the inventory
          Digests,      \* content addresses
          Content,      \* the digest of the document a locator yields
          Assigned,     \* the documents of a job, in the order of its loop
          Absent,       \* no object under a key
          MaxAttempts,  \* bound: workflow attempts
          MaxFaults     \* bound: faults of storage, source, process or runner

Jobs == Shards \cup Principales

ASSUME BackfillJobs == Shards \cap Principales = {}
ASSUME BackfillContent == Content \in [Docs -> Digests]
ASSUME BackfillAssigned == Assigned \in [Jobs -> Seq(Docs)]
ASSUME BackfillBounds == MaxAttempts \in Nat /\ MaxFaults \in Nat

VARIABLES line,       \* the jobs started here: the batch's or the others
          objects,    \* digests present under the legal-document prefix
          mirror,     \* the checkpoint object of a job, or Absent
          manifests,  \* run manifests: <<job, ingestion id>> to items or Absent
          snapshot,   \* the certified inventory is durable
          saved,      \* journals earlier attempts uploaded as evidence
          journal,    \* the local journal file of a job
          pc, pos,    \* the job's control and its place in the loop
          seen,       \* the observation being checkpointed
          builder,    \* the manifest builder's items
          result,     \* how the job of the current attempt ended
          attempt,    \* ordinal of the workflow attempt: its batch id
          kind,       \* dispatched "fresh" or to "resume" an earlier one
          ingestion,  \* the ingestion id a job works under
          verdict,    \* what the verification of this attempt said
          refused,    \* documents whose locator once yielded no document
          faults,     \* faults so far
          clean       \* no fault in this attempt

stores == <<objects, mirror, manifests, snapshot, saved>>
locals == <<journal, pc, pos, seen, builder, result>>
batch  == <<line, attempt, kind, ingestion, verdict>>
world  == <<refused, faults, clean>>
backfillVars == <<stores, locals, batch, world>>

Attempts == 0 .. MaxAttempts
Statuses == {"stored", "unavailable", "failed"}
ItemStatuses == {"none", "uploaded", "already_present", "unavailable", "failed"}
Nothing == [d \in Docs |-> "none"]
Empty == [latest |-> Nothing, torn |-> FALSE]
Checkpoints == [latest: [Docs -> Statuses \cup {"none"}], torn: BOOLEAN]

Doc(j) == Assigned[j][pos[j]]
AtItem(j) == pc[j] = "item" /\ pos[j] <= Len(Assigned[j])
Backed(d) == Content[d] \in objects
Latest(j) == journal[j].latest[Doc(j)]


ASSUME BackfillAbsent == Absent \notin Checkpoints \cup [Docs -> ItemStatuses]

BackfillInit ==
    /\ line \in {Shards, Principales} \ {{}}
    /\ objects = {} /\ snapshot = FALSE
    /\ mirror = [j \in Jobs |-> Absent]
    /\ manifests = [m \in Jobs \X Attempts |-> Absent]
    /\ saved = [j \in Jobs |-> {}]
    /\ journal = [j \in Jobs |-> Empty]
    /\ pc = [j \in Jobs |-> "ended"]
    /\ pos = [j \in Jobs |-> 1]
    /\ seen = [j \in Jobs |-> "none"]
    /\ builder = [j \in Jobs |-> Nothing]
    /\ result = [j \in Jobs |-> "none"]
    /\ attempt = 0 /\ kind = "fresh" /\ verdict = "none"
    /\ ingestion = [j \in Jobs |-> 0]
    /\ refused = {} /\ faults = 0 /\ clean = TRUE

(* A fault uses up the budget; a step without one leaves it alone.         *)
Fault == faults < MaxFaults /\ faults' = faults + 1 /\ clean' = FALSE
NoFault == UNCHANGED <<faults, clean>>

Goto(j, l) == pc' = [pc EXCEPT ![j] = l]
(* The process returns or dies; the workflow step after it still runs.     *)
Exit(j, r) == Goto(j, "exited") /\ result' = [result EXCEPT ![j] = r]
(* classify_infrastructure_error: a failure of storage, credentials, rate or *)
(* transport that its attempts did not cure stops the job, not the document. *)
Interruption(j) == Fault /\ Exit(j, "failed")
Advance(j) == Goto(j, "item") /\ pos' = [pos EXCEPT ![j] = @ + 1]
Record(j, status) == builder' = [builder EXCEPT ![j][Doc(j)] = status]

-----------------------------------------------------------------------------
(* The workflow.  Its concurrency group lets one attempt run at a time.    *)

Settled == /\ \A j \in line : pc[j] = "ended"
           /\ verdict # "none" \/ line # Shards \/ \E j \in line : result[j] # "ok"
           /\ attempt < MaxAttempts

(* workflow_dispatch: all shards, with or without resume_run_id; or the     *)
(* other script started again, under the same explicit ingestion id when it *)
(* resumes.  storage-preflight makes the certified inventory durable first. *)
Dispatch(k) ==
    /\ Settled
    /\ attempt' = attempt + 1 /\ kind' = k
    /\ snapshot' = TRUE /\ verdict' = "none" /\ clean' = TRUE
    /\ LET keeps(j) == j \notin line \/ (j \in Principales /\ k = "resume") IN
         /\ ingestion' = [j \in Jobs |-> IF keeps(j) THEN ingestion[j]
                                         ELSE attempt + 1]
         /\ journal' = [j \in Jobs |-> IF keeps(j) THEN journal[j] ELSE Empty]
         /\ mirror' = [j \in Jobs |-> IF j \in Principales /\ ~keeps(j)
                                      THEN Absent ELSE mirror[j]]
    /\ pc' = [j \in Jobs |-> IF j \in line THEN "queued" ELSE pc[j]]
    /\ result' = [j \in Jobs |-> "none"]
    /\ UNCHANGED <<line, objects, manifests, saved, pos, seen, builder, refused,
                   faults>>

(* "Re-run failed jobs": run_attempt, and with it the batch id, is new for  *)
(* the shards that failed and old in the manifests of those that did not.  *)
RerunFailed ==
    /\ Settled /\ line = Shards
    /\ \E j \in Shards : result[j] = "failed"
    /\ attempt' = attempt + 1 /\ verdict' = "none" /\ clean' = TRUE
    /\ LET again == {j \in Shards : result[j] = "failed"} IN
         /\ pc' = [j \in Jobs |-> IF j \in again THEN "queued" ELSE pc[j]]
         /\ result' = [j \in Jobs |-> IF j \in again THEN "none" ELSE result[j]]
         /\ ingestion' = [j \in Jobs |-> IF j \in again THEN attempt + 1
                                         ELSE ingestion[j]]
         /\ journal' = [j \in Jobs |-> IF j \in again THEN Empty ELSE journal[j]]
    /\ UNCHANGED <<line, stores, kind, pos, seen, builder, refused, faults>>

-----------------------------------------------------------------------------
(* The start of a shard.  One that resumes copies the journal of an earlier  *)
(* attempt; without that evidence, with none of its records, or with a torn *)
(* line in it, the job fails at once.                                        *)
Start(j) ==
    /\ pc[j] = "queued" /\ NoFault
    /\ pos' = [pos EXCEPT ![j] = 1]
    /\ builder' = [builder EXCEPT ![j] = Nothing]
    /\ UNCHANGED <<stores, batch, seen, refused>>

BeginShard(j) ==
    /\ j \in Shards /\ kind = "fresh" /\ Start(j)
    /\ Goto(j, "restore") /\ UNCHANGED <<journal, result>>

ResumeShard(j) ==
    /\ j \in Shards /\ kind = "resume" /\ Start(j)
    /\ \/ /\ saved[j] = {}
          /\ Exit(j, "failed") /\ UNCHANGED journal
       \/ \E c \in saved[j] :
             /\ journal' = [journal EXCEPT ![j] = c]
             /\ IF c.torn \/ c.latest = Nothing
                THEN Exit(j, "failed")
                ELSE Goto(j, "item") /\ UNCHANGED result

(* A job of the other script finds its own file; a torn line ends it too.   *)
BeginPrincipal(j) ==
    /\ j \in Principales /\ Start(j) /\ UNCHANGED journal
    /\ IF journal[j].torn THEN Exit(j, "failed")
       ELSE /\ Goto(j, IF journal[j].latest = Nothing THEN "restore" ELSE "item")
            /\ UNCHANGED result

(* load_if_present: the mirror fills a missing or empty journal.            *)
Restore(j) ==
    /\ pc[j] = "restore" /\ NoFault /\ Goto(j, "item")
    /\ journal' = IF mirror[j] = Absent THEN journal
                  ELSE [journal EXCEPT ![j] = mirror[j]]
    /\ UNCHANGED <<stores, batch, pos, seen, builder, result, refused>>

RestoreFails(j) ==
    /\ pc[j] = "restore" /\ Interruption(j)
    /\ UNCHANGED <<stores, batch, journal, pos, seen, builder, refused>>

(* A checkpointed "stored" is believed after a HEAD of its object; a shard   *)
(* whose object is not there dies.                                           *)
RecoverStored(j) ==
    /\ j \in Shards /\ AtItem(j) /\ Latest(j) = "stored" /\ NoFault
    /\ IF Backed(Doc(j))
       THEN Record(j, "already_present") /\ Advance(j) /\ UNCHANGED result
       ELSE Exit(j, "failed") /\ UNCHANGED <<pos, builder>>
    /\ UNCHANGED <<stores, batch, journal, seen, refused>>

RecoverFails(j) ==
    /\ j \in Shards /\ AtItem(j) /\ Latest(j) = "stored" /\ Interruption(j)
    /\ UNCHANGED <<stores, batch, journal, pos, seen, builder, refused>>

(* The other script records the document as failed, whatever the HEAD says   *)
(* against it.                                                               *)
RecoverPrincipal(j) ==
    /\ j \in Principales /\ AtItem(j) /\ Latest(j) = "stored"
    /\ \/ /\ NoFault
          /\ Record(j, IF Backed(Doc(j)) THEN "already_present" ELSE "failed")
       \/ Fault /\ Record(j, "failed")
    /\ Advance(j)
    /\ UNCHANGED <<stores, batch, journal, seen, result, refused>>

(* The first script reuses a checkpointed "unavailable" without asking.      *)
RecoverUnavailable(j) ==
    /\ j \in Shards /\ AtItem(j) /\ Latest(j) = "unavailable"
    /\ Record(j, "unavailable") /\ Advance(j) /\ NoFault
    /\ UNCHANGED <<stores, batch, journal, seen, result, refused>>

MustAcquire(j) ==
    /\ AtItem(j) /\ Latest(j) # "stored"
    /\ j \in Shards => Latest(j) # "unavailable"

(* acquire_candidates: download, content address, put unless present.       *)
AcquireDocument(j) ==
    /\ MustAcquire(j) /\ NoFault
    /\ objects' = objects \cup {Content[Doc(j)]}
    /\ Record(j, IF Backed(Doc(j)) THEN "already_present" ELSE "uploaded")
    /\ seen' = [seen EXCEPT ![j] = "stored"]
    /\ Goto(j, "observed")
    /\ UNCHANGED <<mirror, manifests, snapshot, saved, batch, journal, pos,
                   result, refused>>

(* The locator yields no document: accounted for by a shard.                *)
AcquireUnsupported(j) ==
    /\ j \in Shards /\ MustAcquire(j) /\ NoFault
    /\ refused' = refused \cup {Doc(j)}
    /\ Record(j, "unavailable") /\ Goto(j, "observed")
    /\ seen' = [seen EXCEPT ![j] = "unavailable"]
    /\ UNCHANGED <<stores, batch, journal, pos, result>>

(* The document, not the storage, fails after its attempts.                 *)
AcquireFailed(j) ==
    /\ j \in Shards /\ MustAcquire(j) /\ Fault
    /\ Record(j, "failed") /\ Goto(j, "observed")
    /\ seen' = [seen EXCEPT ![j] = "failed"]
    /\ UNCHANGED <<stores, batch, journal, pos, result, refused>>

(* To the other script both are a failure that leaves no checkpoint.        *)
PrincipalFails(j) ==
    /\ j \in Principales /\ MustAcquire(j)
    /\ \/ NoFault /\ refused' = refused \cup {Doc(j)}
       \/ Fault /\ UNCHANGED refused
    /\ Record(j, "failed") /\ Advance(j)
    /\ UNCHANGED <<stores, batch, journal, seen, result>>

(* Mutant: the interruption is swallowed and the document journaled.        *)
AcquireRegardless(j) ==
    /\ MustAcquire(j) /\ Fault
    /\ objects' \in {objects, objects \cup {Content[Doc(j)]}}
    /\ seen' = [seen EXCEPT ![j] = "stored"] /\ Goto(j, "observed")
    /\ UNCHANGED <<mirror, manifests, snapshot, saved, batch, journal, pos,
                   builder, result, refused>>

(* GlobalAcquisitionInterruption, with or without the object in place.      *)
AcquireInterrupted(j) ==
    /\ MustAcquire(j) /\ Interruption(j)
    /\ objects' \in {objects, objects \cup {Content[Doc(j)]}}
    /\ UNCHANGED <<mirror, manifests, snapshot, saved, batch, journal, pos,
                   seen, builder, refused>>

(* Mutant: the journal takes the manifest's word for the item.              *)
AppendItemStatus(j) ==
    /\ pc[j] = "observed" /\ NoFault
    /\ journal' = [journal EXCEPT ![j].latest[Doc(j)] = builder[j][Doc(j)]]
    /\ Goto(j, "journaled")
    /\ UNCHANGED <<stores, batch, pos, seen, builder, result, refused>>

(* AcquisitionRecoveryJournal.append: written, flushed and synced.          *)
AppendJournal(j) ==
    /\ pc[j] = "observed" /\ NoFault
    /\ journal' = [journal EXCEPT ![j].latest[Doc(j)] = seen[j]]
    /\ Goto(j, "journaled")
    /\ UNCHANGED <<stores, batch, pos, seen, builder, result, refused>>

(* S3RecoveryCheckpointMirror.persist: the compact latest state.            *)
PersistMirror(j) ==
    /\ pc[j] = "journaled" /\ NoFault
    /\ mirror' = [mirror EXCEPT ![j] = journal[j]]
    /\ Advance(j)
    /\ UNCHANGED <<objects, manifests, snapshot, saved, batch, journal, seen,
                   builder, result, refused>>

(* persist raises, having written or not.  A failure of the infrastructure  *)
(* (and any failure when the observation is not a stored document) ends the *)
(* shard.                                                                    *)
MirrorLost(j) ==
    /\ pc[j] = "journaled"
    /\ mirror' \in {mirror, [mirror EXCEPT ![j] = journal[j]]}
    /\ UNCHANGED <<objects, manifests, snapshot, saved, batch, journal, refused>>

PersistInterrupted(j) ==
    /\ j \in Shards /\ MirrorLost(j) /\ Interruption(j)
    /\ UNCHANGED <<pos, seen, builder>>

(* Another error of a stored document lands in the item's own handler, which *)
(* files it as failed and checkpoints that.                                  *)
PersistRefiles(j) ==
    /\ j \in Shards /\ MirrorLost(j) /\ seen[j] = "stored" /\ Fault
    /\ Record(j, "failed") /\ Goto(j, "observed")
    /\ seen' = [seen EXCEPT ![j] = "failed"]
    /\ UNCHANGED <<pos, result>>

(* The other script files the document as failed whatever the error.        *)
PrincipalPersistFails(j) ==
    /\ j \in Principales /\ MirrorLost(j) /\ Fault
    /\ Record(j, "failed") /\ Advance(j)
    /\ UNCHANGED <<seen, result>>

-----------------------------------------------------------------------------
(* Mutant: the ingestion id leaves out the run attempt.                     *)
ManifestKeyOfRun(j) == <<j, 0>>

ManifestKey(j) == <<j, ingestion[j]>>
(* build: the run's status is "succeeded" when no item failed.              *)
NoneFailed(items) == \A d \in Docs : items[d] # "failed"
(* The other script's own count: every document it discovered is stored.    *)
AllStored(j) == \A i \in 1 .. Len(Assigned[j]) :
                    builder[j][Assigned[j][i]] \in {"uploaded", "already_present"}
(* Mutant: the exit status of a partial run is zero.                        *)
ExitStatusPartial(j) == IF builder[j] # Nothing THEN "ok" ELSE "failed"

ExitStatus(j) == IF NoneFailed(builder[j]) /\ (j \in Principales => AllStored(j))
                 THEN "ok" ELSE "failed"
AtCommit(j) == pc[j] = "item" /\ pos[j] > Len(Assigned[j])

(* Mutant: the manifest is put without looking.                             *)
CommitUnchecked(j) ==
    /\ AtCommit(j) /\ NoFault
    /\ manifests' = [manifests EXCEPT ![ManifestKey(j)] = builder[j]]
    /\ Exit(j, ExitStatus(j))
    /\ UNCHANGED <<objects, mirror, snapshot, saved, batch, journal, pos, seen,
                   builder, refused>>

(* commit refuses a key that exists, puts the manifest, and the exit status *)
(* says whether some document failed.                                        *)
Commit(j) ==
    /\ AtCommit(j) /\ NoFault
    /\ IF manifests[ManifestKey(j)] = Absent
       THEN /\ manifests' = [manifests EXCEPT ![ManifestKey(j)] = builder[j]]
            /\ Exit(j, ExitStatus(j))
       ELSE Exit(j, "failed") /\ UNCHANGED manifests
    /\ UNCHANGED <<objects, mirror, snapshot, saved, batch, journal, pos, seen,
                   builder, refused>>

(* The storage fails the commit; a lost answer leaves the manifest there.   *)
CommitInterrupted(j) ==
    /\ AtCommit(j) /\ Interruption(j)
    /\ \/ UNCHANGED manifests
       \/ /\ manifests[ManifestKey(j)] = Absent
          /\ manifests' = [manifests EXCEPT ![ManifestKey(j)] = builder[j]]
    /\ UNCHANGED <<objects, mirror, snapshot, saved, batch, journal, pos, seen,
                   builder, refused>>

(* A signal is honoured at the top of the loop; the other script ends there *)
(* as well when its discovery page fails or has drifted.                     *)
Stop(j) ==
    /\ j \in Shards /\ AtItem(j) /\ Interruption(j)
    /\ UNCHANGED <<stores, batch, journal, pos, seen, builder, refused>>

StopPrincipal(j) ==
    /\ j \in Principales /\ AtItem(j) /\ Interruption(j)
    /\ UNCHANGED <<stores, batch, journal, pos, seen, builder, refused>>

(* The process is killed; inside append it leaves a torn last line.         *)
Kill(j) ==
    /\ pc[j] \in {"item", "observed", "journaled"} /\ Fault /\ Exit(j, "failed")
    /\ \/ UNCHANGED journal
       \/ /\ pc[j] = "observed"
          /\ journal' = [journal EXCEPT ![j].torn = TRUE]
    /\ UNCHANGED <<stores, batch, pos, seen, builder, refused>>

(* "Preserve shard evidence" (if: always()), unless the runner is lost.     *)
PreserveEvidence(j) ==
    /\ pc[j] = "exited" /\ NoFault /\ Goto(j, "ended")
    /\ saved' = IF j \in Shards THEN [saved EXCEPT ![j] = @ \cup {journal[j]}]
                ELSE saved
    /\ UNCHANGED <<objects, mirror, manifests, snapshot, batch, journal, pos,
                   seen, builder, result, refused>>

(* The runner is lost, or a newer dispatch cancels this attempt.            *)
LoseRunner(j) ==
    /\ j \in Shards /\ pc[j] # "ended" /\ Fault
    /\ Goto(j, "ended") /\ result' = [result EXCEPT ![j] = "failed"]
    /\ UNCHANGED <<stores, batch, journal, pos, seen, builder, refused>>

-----------------------------------------------------------------------------
(* verify_scj_1994_storage_backfill: the manifests of this batch id cover   *)
(* every partition, all succeeded, name every source identifier, and every  *)
(* object they name is listed.                                               *)
InBatch(j) == ingestion[j] = attempt
(* Mutant: any manifest of the partition will do.                           *)
ItemsOfAnyBatch(j) == manifests[<<j, ingestion[j]>>]

Items(j) == manifests[<<j, attempt>>]
EveryPartition == \A j \in Shards : Items(j) # Absent
AllSucceeded == \A j \in Shards : NoneFailed(Items(j))
Accounted(d) == \E j \in Shards : Items(j)[d] # "none"
Listed == \A j \in Shards, d \in Docs :
            Items(j)[d] \in {"uploaded", "already_present"} => Backed(d)
SomeUnavailable == \E j \in Shards, d \in Docs : Items(j)[d] = "unavailable"

Verify ==
    /\ line = Shards /\ verdict = "none"
    /\ \A j \in Shards : pc[j] = "ended" /\ result[j] = "ok"
    /\ verdict' = IF /\ snapshot /\ EveryPartition /\ AllSucceeded
                     /\ \A d \in Docs : Accounted(d)
                     /\ Listed
                  THEN IF SomeUnavailable THEN "complete_with_unavailable"
                       ELSE "complete"
                  ELSE "raised"
    /\ UNCHANGED <<stores, locals, line, attempt, kind, ingestion, world>>

JobStep(j) == \/ BeginShard(j) \/ ResumeShard(j) \/ BeginPrincipal(j)
              \/ Restore(j)
              \/ RecoverStored(j) \/ RecoverPrincipal(j) \/ RecoverUnavailable(j)
              \/ AcquireDocument(j) \/ AcquireUnsupported(j)
              \/ AppendJournal(j) \/ PersistMirror(j) \/ Commit(j)
              \/ PreserveEvidence(j)
JobFault(j) == \/ RestoreFails(j) \/ RecoverFails(j)
               \/ AcquireFailed(j) \/ PrincipalFails(j) \/ AcquireInterrupted(j)
               \/ PersistInterrupted(j) \/ PersistRefiles(j)
               \/ PrincipalPersistFails(j)
               \/ CommitInterrupted(j) \/ Stop(j) \/ StopPrincipal(j)
               \/ Kill(j) \/ LoseRunner(j)

BackfillNext == \/ \E k \in {"fresh", "resume"} : Dispatch(k)
                \/ RerunFailed
                \/ \E j \in Jobs : JobStep(j) \/ JobFault(j)
                \/ Verify

BackfillSpec == BackfillInit /\ [][BackfillNext]_backfillVars
(* A job that was started runs, and the verification follows the shards.    *)
BackfillFairSpec == /\ BackfillSpec
                    /\ \A j \in Jobs : WF_backfillVars(JobStep(j))
                    /\ WF_backfillVars(Verify)

-----------------------------------------------------------------------------
BackfillTypeOK ==
    /\ line \in {Shards, Principales}
    /\ objects \subseteq Digests
    /\ mirror \in [Jobs -> Checkpoints \cup {Absent}]
    /\ manifests \in [Jobs \X Attempts -> [Docs -> ItemStatuses] \cup {Absent}]
    /\ snapshot \in BOOLEAN
    /\ saved \in [Jobs -> SUBSET Checkpoints]
    /\ journal \in [Jobs -> Checkpoints]
    /\ pc \in [Jobs -> {"queued", "restore", "item", "observed", "journaled",
                        "exited", "ended"}]
    /\ pos \in [Jobs -> Nat \ {0}]
    /\ seen \in [Jobs -> Statuses \cup {"none"}]
    /\ builder \in [Jobs -> [Docs -> ItemStatuses]]
    /\ result \in [Jobs -> {"none", "ok", "failed"}]
    /\ attempt \in Attempts /\ kind \in {"fresh", "resume"}
    /\ ingestion \in [Jobs -> Attempts]
    /\ verdict \in {"none", "complete", "complete_with_unavailable", "raised"}
    /\ refused \subseteq Docs /\ faults \in 0 .. MaxFaults /\ clean \in BOOLEAN

(* A checkpoint of any kind (local journal, mirror, artifact of an earlier   *)
(* attempt) that says "stored", and a manifest that lists a stored document, *)
(* have the object behind them, whatever crashed or was resumed in between. *)
Sound(c) == \A d \in Docs : c.latest[d] = "stored" => Backed(d)
CheckpointsAreBacked ==
    /\ \A j \in Jobs : /\ Sound(journal[j])
                       /\ mirror[j] # Absent => Sound(mirror[j])
                       /\ \A c \in saved[j] : Sound(c)
    /\ \A m \in DOMAIN manifests, d \in Docs :
          /\ manifests[m] # Absent
          /\ manifests[m][d] \in {"uploaded", "already_present"}
          => Backed(d)

(* A job that exits 0 has resolved every document assigned to it: stored,    *)
(* or refused by the official locator (and the second script accepts only   *)
(* stored ones), in this attempt or in one whose checkpoint it resumed.     *)
SuccessIsComplete ==
    \A j \in Jobs : result[j] = "ok" =>
        \A i \in 1 .. Len(Assigned[j]) :
            \/ Backed(Assigned[j][i])
            \/ j \in Shards /\ Assigned[j][i] \in refused

(* The verification certifies a batch only when one attempt committed all    *)
(* its manifests, and then every document of the inventory is stored or was *)
(* refused: re-running failed jobs alone is never certified.                *)
VerifiedBatchIsWhole ==
    verdict \in {"complete", "complete_with_unavailable"} =>
        /\ \A j \in Shards : InBatch(j)
        /\ \A d \in Docs : Backed(d) \/ d \in refused
        /\ verdict = "complete" => \A d \in Docs : Backed(d)

(* A committed run manifest is never changed by a later run.                *)
ManifestsAreFinal ==
    [][\A m \in DOMAIN manifests :
          manifests[m] # Absent => manifests'[m] = manifests[m]]_backfillVars

(* An attempt that starts fresh and meets no fault of its own is certified,  *)
(* however the attempts before it died: torn journals, lagging mirrors,      *)
(* objects without a checkpoint and half-committed batches do not block it. *)
FreshAttempt == line = Shards /\ attempt > 0 /\ kind = "fresh" /\ verdict = "none"
                /\ \A j \in Shards : InBatch(j)
FreshAttemptCompletes ==
    FreshAttempt ~> ~clean \/ verdict \in {"complete", "complete_with_unavailable"}
=============================================================================
