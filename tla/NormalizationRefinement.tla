------------------------ MODULE NormalizationRefinement ------------------------
(* The executor and finalizer, run by one worker at a time, implement      *)
(* NormalizationPromise.                                                   *)
EXTENDS NormalizationRun

(* None, which stands for no decision and no record, is neither.           *)
ASSUME NoneIsNoDecision ==
  None \notin Item /\ None \notin [Sources -> Item \cup {None}]

PhaseOf(status) ==
  CASE status = "running" -> "open"
    [] status = "reconciling" -> "sealed"
    [] status \in Closed -> "closed"
    [] OTHER -> status

(* An item is decided when it has a terminal status; what was decided is   *)
(* the status together with the evidence.                                  *)
VerdictOf(items) ==
  [s \in Sources |-> IF items[s].status \in TerminalItem THEN items[s]
                     ELSE None]
RecordOf(row) ==
  IF row = None THEN None ELSE VerdictOf(row.manifest.view.items)

phase == [r \in Runs |-> PhaseOf(run[r].status)]
verdict == [r \in Runs |-> VerdictOf(item[r])]
record == [r \in Runs |-> RecordOf(manifestRow[r])]

Promise == INSTANCE NormalizationPromise WITH
  Verdicts <- [status : TerminalItem, artifact : Artifacts \cup {None}],
  Undecided <- None

(* Every step of the control plane is a step the promise allows, or none.  *)
PromiseKept == Promise!Spec
=============================================================================
