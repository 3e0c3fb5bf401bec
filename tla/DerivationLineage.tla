--------------------------- MODULE DerivationLineage ---------------------------
(***************************************************************************)
(* The lineage of derived artifacts inside one scope:                      *)
(* corpus.artifact_derivations, the ancestor/descendant pairs its insert   *)
(* trigger keeps in corpus.artifact_derivation_paths, and the two rules of *)
(* that table that are to keep the lineage free of cycles: no artifact is  *)
(* its own ancestor, and an unordered pair of artifacts occurs once.       *)
(*                                                                         *)
(* A session is a database transaction at READ COMMITTED that inserts one  *)
(* derivation, as register_child_derived_artifact does.  The trigger's     *)
(* statement reads the committed pairs once and then inserts its rows one  *)
(* by one; a row whose pair another open transaction has inserted waits    *)
(* until that transaction ends.                                            *)
(***************************************************************************)
EXTENDS Naturals

CONSTANTS
  Artifacts,  \* derived artifacts
  Sessions,   \* database sessions
  None

LineageAssumption == None \notin Artifacts \X Artifacts

ASSUME LineageConstantsOK == LineageAssumption

VARIABLES
  edges,   \* committed derivations <<parent, derived>>
  paths,   \* committed pairs <<ancestor, descendant>>
  session, \* [edge, the pairs still to insert, the pairs inserted]
  overlapped  \* history: two transactions were open at the same time

vars == <<edges, paths, session, overlapped>>

Pairs == Artifacts \X Artifacts
ProperPairs == {pair \in Pairs : pair[1] # pair[2]}
Opposite(pair) == <<pair[2], pair[1]>>
IdleSession == [edge |-> None, todo |-> {}, rows |-> {}]
Open(s) == session[s].edge # None

Init ==
  /\ edges = {} /\ paths = {}
  /\ session = [s \in Sessions |-> IdleSession]
  /\ overlapped = FALSE

(* Mutant: the trigger forgets what was already derived from the child.    *)
NewPairsUpwards(p, d) ==
  {pair \in Pairs : /\ pair[1] = p \/ <<pair[1], p>> \in paths
                    /\ pair[2] = d}
(* The trigger's cross join: the parent and its ancestors with the child   *)
(* and its descendants.                                                    *)
NewPairs(p, d) ==
  {pair \in Pairs : /\ pair[1] = p \/ <<pair[1], p>> \in paths
                    /\ pair[2] = d \/ <<d, pair[2]>> \in paths}

(* The derivation row, and the snapshot of the trigger's statement.  The   *)
(* row CHECK rejects an artifact derived from itself; the UNIQUE makes a   *)
(* second insert of the same derivation wait for the first.                *)
InsertDerivation(s, p, d) ==
  /\ ~Open(s) /\ p # d /\ <<p, d>> \notin edges
  /\ \A t \in Sessions : session[t].edge # <<p, d>>
  /\ session' = [session EXCEPT
       ![s] = [edge |-> <<p, d>>, todo |-> NewPairs(p, d), rows |-> {}]]
  /\ overlapped' = (overlapped \/ \E t \in Sessions : Open(t))
  /\ UNCHANGED <<edges, paths>>

(* Mutants: no unordered-pair index; no CHECK on the pair.                 *)
RejectedSelfOnly(s, pair) == pair[1] = pair[2]
RejectedOppositeOnly(s, pair) ==
  pair[1] # pair[2] /\ Opposite(pair) \in paths \cup session[s].rows
Rejected(s, pair) ==
  pair[1] = pair[2] \/ Opposite(pair) \in paths \cup session[s].rows

Awaited(s, pair) ==
  \E t \in Sessions \ {s} :
    pair \in session[t].rows \/ Opposite(pair) \in session[t].rows

(* ON CONFLICT DO NOTHING when the same pair is committed.                 *)
InsertPath(s) ==
  \E pair \in session[s].todo :
    /\ ~Rejected(s, pair) /\ ~Awaited(s, pair)
    /\ session' = [session EXCEPT
         ![s].todo = @ \ {pair},
         ![s].rows = IF pair \in paths THEN @ ELSE @ \cup {pair}]
    /\ UNCHANGED <<edges, paths, overlapped>>

(* unique_violation or check_violation: the trigger raises.                *)
RejectCycle(s) ==
  /\ \E pair \in session[s].todo : Rejected(s, pair) /\ ~Awaited(s, pair)
  /\ session' = [session EXCEPT ![s] = IdleSession]
  /\ UNCHANGED <<edges, paths, overlapped>>

Commit(s) ==
  /\ Open(s) /\ session[s].todo = {}
  /\ edges' = edges \cup {session[s].edge}
  /\ paths' = paths \cup session[s].rows
  /\ session' = [session EXCEPT ![s] = IdleSession]
  /\ UNCHANGED overlapped

(* The client goes away, or PostgreSQL picks it as a deadlock victim.      *)
RollBack(s) ==
  /\ Open(s)
  /\ session' = [session EXCEPT ![s] = IdleSession]
  /\ UNCHANGED <<edges, paths, overlapped>>

Next ==
  \E s \in Sessions :
    \/ \E p, d \in Artifacts : InsertDerivation(s, p, d)
    \/ InsertPath(s) \/ RejectCycle(s) \/ Commit(s) \/ RollBack(s)

Spec == Init /\ [][Next]_vars

-----------------------------------------------------------------------------
(* No session and no committed row holds an artifact as its own ancestor.  *)
TypeOK ==
  /\ edges \subseteq Pairs
  /\ paths \subseteq ProperPairs
  /\ session \in [Sessions -> [edge : Pairs \cup {None}, todo : SUBSET Pairs,
                               rows : SUBSET ProperPairs]]
  /\ overlapped \in BOOLEAN

(* Two artifacts are never each other's ancestors, however many sessions   *)
(* derive one from the other at the same time: every committed derivation  *)
(* has its pair, and of a pair and its opposite at most one is committed   *)
(* or about to be (the trigger and the unordered-pair index).              *)
OppositeEdgesExcluded ==
  /\ edges \subseteq paths
  /\ \A pair \in paths : Opposite(pair) \notin paths
  /\ \A s \in Sessions : \A pair \in session[s].rows :
       Opposite(pair) \notin paths

(* The pairs are the lineage: they order the artifacts strictly, contain   *)
(* every derivation, and each pair starts with a derivation.               *)
PairsAreLineage ==
  /\ edges \subseteq paths
  /\ \A pair \in paths : pair[1] # pair[2]
  /\ \A p, q \in paths : p[2] = q[1] => <<p[1], q[2]>> \in paths
  /\ \A pair \in paths : \E e \in edges :
       /\ e[1] = pair[1]
       /\ e[2] = pair[2] \/ <<e[2], pair[2]>> \in paths

(* Until two transactions overlap, the pair table is the transitive        *)
(* closure of the lineage and no cycle is committed, whatever the order in *)
(* which edges arrive (record_derived_artifact_paths).                     *)
PathsOrderLineage == ~overlapped => PairsAreLineage

(* As the implementation status and the documentation of derived artifacts *)
(* have it, PostgreSQL rejects lineage cycles: every nonempty set of       *)
(* artifacts has one that is not the parent of another of the set.         *)
LineageIsAcyclic ==
  \A S \in SUBSET Artifacts : S # {} =>
    \E x \in S : \A y \in S : <<x, y>> \notin edges
=============================================================================
