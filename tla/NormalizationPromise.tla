------------------------- MODULE NormalizationPromise -------------------------
(***************************************************************************)
(* What a normalization run promises its readers, with no worker, loop,    *)
(* store or retry in it: sources are decided one by one and for good while *)
(* the run is open; a run is sealed only when every planned source is      *)
(* decided; what it records for downstream consumers is exactly what was   *)
(* decided, written once; and it is closed only after that.  Only a run    *)
(* that failed may be recorded with sources undecided.                     *)
(***************************************************************************)
CONSTANTS Runs, Sources, Planned, Verdicts, Undecided, None

(* What the theorems ask of the constants.                                 *)
PromiseAssumption ==
  /\ Planned \subseteq Sources
  /\ None \notin [Sources -> Verdicts \cup {Undecided}]

VARIABLES
  phase,    \* absent, open, sealed, closed or failed
  verdict,  \* what was decided about each source of the run
  record    \* the record published for the run, or None

vars == <<phase, verdict, record>>

Phases == {"absent", "open", "sealed", "closed", "failed"}
Decisions == [Sources -> Verdicts \cup {Undecided}]

(* Each run has a phase, a decision or none per source, and at most one    *)
(* record (normalization_runs, normalization_run_items,                    *)
(* normalization_manifests).                                               *)
TypeOK ==
  /\ phase \in [Runs -> Phases]
  /\ verdict \in [Runs -> Decisions]
  /\ record \in [Runs -> Decisions \cup {None}]

AllDecided(r) == \A s \in Planned : verdict[r][s] # Undecided

Init ==
  /\ phase = [r \in Runs |-> "absent"]
  /\ verdict = [r \in Runs |-> [s \in Sources |-> Undecided]]
  /\ record = [r \in Runs |-> None]

Open(r) ==
  /\ phase[r] = "absent"
  /\ phase' = [phase EXCEPT ![r] = "open"]
  /\ UNCHANGED <<verdict, record>>

Decide(r, s, v) ==
  /\ phase[r] = "open" /\ verdict[r][s] = Undecided
  /\ verdict' = [verdict EXCEPT ![r][s] = v]
  /\ UNCHANGED <<phase, record>>

Seal(r) ==
  /\ phase[r] = "open" /\ AllDecided(r)
  /\ phase' = [phase EXCEPT ![r] = "sealed"]
  /\ UNCHANGED <<verdict, record>>

(* A failed run may be recorded too: the worker finalizes a run its circuit *)
(* breaker failed, and reconciliation asks for a quality report of every   *)
(* source, not for a verdict.  A source that a worker had assessed when it *)
(* died is then recorded undecided.                                        *)
Record(r) ==
  /\ phase[r] \in {"sealed", "failed"} /\ record[r] = None
  /\ record' = [record EXCEPT ![r] = verdict[r]]
  /\ UNCHANGED <<phase, verdict>>

Close(r) ==
  /\ phase[r] = "sealed" /\ record[r] # None
  /\ phase' = [phase EXCEPT ![r] = "closed"]
  /\ UNCHANGED <<verdict, record>>

Fail(r) ==
  /\ phase[r] \in {"open", "sealed"}
  /\ phase' = [phase EXCEPT ![r] = "failed"]
  /\ UNCHANGED <<verdict, record>>

Next ==
  \E r \in Runs :
    \/ Open(r) \/ Seal(r) \/ Record(r) \/ Close(r) \/ Fail(r)
    \/ \E s \in Planned, v \in Verdicts : Decide(r, s, v)

Spec == Init /\ [][Next]_vars

(* A record, once there, stays equal to what was decided, and is complete  *)
(* unless the run failed: no source is decided again behind the reader's   *)
(* back (the run's manifest against its items, persist_manifest and        *)
(* _transition).                                                           *)
RecordIsFinal ==
  \A r \in Runs : record[r] # None =>
    record[r] = verdict[r] /\ (phase[r] # "failed" => AllDecided(r))

(* A closed run has its record (close_run after persist_manifest).         *)
ClosedHasRecord ==
  \A r \in Runs : phase[r] = "closed" => record[r] # None
=============================================================================
