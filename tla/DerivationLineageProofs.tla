------------------------ MODULE DerivationLineageProofs ------------------------
(* What holds of the derivation lineage for every set of artifacts and     *)
(* sessions.                                                               *)
EXTENDS DerivationLineage, TLAPS

LEMMA InitType == Init => TypeOK /\ ~overlapped
<1>1. Init => overlapped \in BOOLEAN /\ ~overlapped
  BY DEF Init
<1>2. Init => edges \subseteq Pairs /\ paths \subseteq ProperPairs
  BY DEF Init
<1>3. Init => session \in [Sessions -> [edge : Pairs \cup {None},
                                       todo : SUBSET Pairs,
                                       rows : SUBSET ProperPairs]]
  BY DEF Init, IdleSession
<1> QED
  BY <1>1, <1>2, <1>3 DEF TypeOK

(* The pairs and sessions always have their types; in particular no        *)
(* artifact is ever recorded as its own ancestor (the CHECK of             *)
(* artifact_derivation_paths).                                             *)
THEOREM TypeCorrect == Spec => []TypeOK
<1>1. Init => TypeOK
  BY InitType
<1>2. TypeOK /\ [Next]_vars => TypeOK'
  <2> SUFFICES ASSUME TypeOK, [Next]_vars PROVE TypeOK'
    OBVIOUS
  <2>1. ASSUME NEW s \in Sessions, NEW p \in Artifacts, NEW d \in Artifacts,
               InsertDerivation(s, p, d)
        PROVE  TypeOK'
    BY <2>1 DEF InsertDerivation, TypeOK, NewPairs, Pairs
  <2>2. ASSUME NEW s \in Sessions, InsertPath(s) PROVE TypeOK'
    <3>1. PICK pair \in session[s].todo :
            /\ ~Rejected(s, pair)
            /\ session' = [session EXCEPT
                 ![s].todo = @ \ {pair},
                 ![s].rows = IF pair \in paths THEN @ ELSE @ \cup {pair}]
      BY <2>2 DEF InsertPath
    <3>2. /\ edges' = edges /\ paths' = paths /\ pair \in ProperPairs
          /\ overlapped' = overlapped
      BY <2>2, <3>1 DEF InsertPath, Rejected, TypeOK, ProperPairs
    <3> QED
      BY <3>1, <3>2 DEF TypeOK
  <2>3. ASSUME NEW s \in Sessions, RejectCycle(s) PROVE TypeOK'
    BY <2>3 DEF RejectCycle, TypeOK, IdleSession
  <2>4. ASSUME NEW s \in Sessions, Commit(s) PROVE TypeOK'
    BY <2>4 DEF Commit, Open, TypeOK, IdleSession
  <2>5. ASSUME NEW s \in Sessions, RollBack(s) PROVE TypeOK'
    BY <2>5 DEF RollBack, TypeOK, IdleSession
  <2>6. CASE UNCHANGED vars
    BY <2>6 DEF vars, TypeOK
  <2> QED
    BY <2>1, <2>2, <2>3, <2>4, <2>5, <2>6 DEF Next
<1> QED
  BY <1>1, <1>2, PTL DEF Spec

-----------------------------------------------------------------------------
(* Opposite edges.  The pairs open sessions hold exclude each other, and a *)
(* session's own derivation is among the pairs it still has to insert, has *)
(* inserted, or found committed.                                           *)

RowsExcludeEachOther ==
  \A s, t \in Sessions : \A pair \in session[s].rows :
    /\ Opposite(pair) \notin session[t].rows
    /\ s # t => pair \notin session[t].rows

EdgeIsCovered ==
  \A s \in Sessions : Open(s) =>
    session[s].edge \in session[s].todo \cup session[s].rows \cup paths

OppositeInv ==
  TypeOK /\ OppositeEdgesExcluded /\ RowsExcludeEachOther /\ EdgeIsCovered

LEMMA OppositeTwice ==
  \A pair \in Pairs :
    Opposite(pair) \in Pairs /\ Opposite(Opposite(pair)) = pair
  BY DEF Opposite, Pairs

(* One step from OppositeInv keeps its three parts.                        *)
LEMMA OppositeStep == OppositeInv /\ TypeOK' /\ [Next]_vars => OppositeInv'
<1> SUFFICES ASSUME OppositeInv, TypeOK', [Next]_vars
             PROVE  (OppositeEdgesExcluded /\ RowsExcludeEachOther
                       /\ EdgeIsCovered)'
  BY DEF OppositeInv
<1> USE OppositeTwice DEF OppositeInv, TypeOK, ProperPairs
<1>1. ASSUME NEW s \in Sessions, NEW p \in Artifacts, NEW d \in Artifacts,
             InsertDerivation(s, p, d)
      PROVE  (OppositeEdgesExcluded /\ RowsExcludeEachOther
                /\ EdgeIsCovered)'
  <2>1. /\ session'[s].edge = <<p, d>> /\ session'[s].rows = {}
        /\ <<p, d>> \in session'[s].todo
        /\ \A t \in Sessions \ {s} : session'[t] = session[t]
        /\ edges' = edges /\ paths' = paths
    BY <1>1 DEF InsertDerivation, NewPairs, Pairs
  <2> QED
    BY <2>1 DEF OppositeEdgesExcluded, RowsExcludeEachOther, EdgeIsCovered,
                Open
<1>2. ASSUME NEW s \in Sessions, InsertPath(s)
      PROVE  (OppositeEdgesExcluded /\ RowsExcludeEachOther
                /\ EdgeIsCovered)'
  <2>1. PICK pair \in session[s].todo :
          /\ ~Rejected(s, pair) /\ ~Awaited(s, pair)
          /\ session' = [session EXCEPT
               ![s].todo = @ \ {pair},
               ![s].rows = IF pair \in paths THEN @ ELSE @ \cup {pair}]
    BY <1>2 DEF InsertPath
  <2>2. edges' = edges /\ paths' = paths /\ pair \in Pairs
    BY <1>2 DEF InsertPath
  <2>3. /\ Opposite(pair) \notin paths \cup session[s].rows
        /\ Opposite(pair) # pair
    BY <2>1, <2>2 DEF Rejected, Opposite, Pairs
  <2>4. /\ \A t \in Sessions \ {s} : session'[t] = session[t]
        /\ session'[s].edge = session[s].edge
        /\ session'[s].todo = session[s].todo \ {pair}
        /\ session'[s].rows = IF pair \in paths THEN session[s].rows
                              ELSE session[s].rows \cup {pair}
    BY <2>1
  <2>5. OppositeEdgesExcluded'
    BY <2>2, <2>3, <2>4 DEF OppositeEdgesExcluded
  <2>6. RowsExcludeEachOther'
    BY <2>1, <2>2, <2>3, <2>4 DEF RowsExcludeEachOther, Awaited
  <2>7. EdgeIsCovered'
    BY <2>2, <2>4 DEF EdgeIsCovered, Open
  <2> QED
    BY <2>5, <2>6, <2>7
<1>3. ASSUME NEW s \in Sessions,
             session' = [session EXCEPT ![s] = IdleSession],
             UNCHANGED <<edges, paths>>
      PROVE  (OppositeEdgesExcluded /\ RowsExcludeEachOther
                /\ EdgeIsCovered)'
  BY <1>3 DEF OppositeEdgesExcluded, RowsExcludeEachOther, EdgeIsCovered,
              Open, IdleSession
<1>4. ASSUME NEW s \in Sessions, Commit(s)
      PROVE  (OppositeEdgesExcluded /\ RowsExcludeEachOther
                /\ EdgeIsCovered)'
  <2>1. /\ edges' = edges \cup {session[s].edge}
        /\ paths' = paths \cup session[s].rows
        /\ session[s].todo = {} /\ Open(s)
        /\ session'[s] = IdleSession
        /\ \A t \in Sessions \ {s} : session'[t] = session[t]
    BY <1>4 DEF Commit
  <2>2. session[s].edge \in paths'
    BY <2>1 DEF EdgeIsCovered
  <2>3. \A pair \in paths' : Opposite(pair) \notin paths'
    BY <2>1 DEF OppositeEdgesExcluded, RowsExcludeEachOther
  <2>4. \A t \in Sessions : \A pair \in session'[t].rows :
          Opposite(pair) \notin paths'
    BY <2>1 DEF OppositeEdgesExcluded, RowsExcludeEachOther, IdleSession
  <2>5. OppositeEdgesExcluded'
    BY <2>1, <2>2, <2>3, <2>4 DEF OppositeEdgesExcluded
  <2>6. (RowsExcludeEachOther /\ EdgeIsCovered)'
    BY <2>1 DEF RowsExcludeEachOther, EdgeIsCovered, Open, IdleSession
  <2> QED
    BY <2>5, <2>6
<1>5. CASE UNCHANGED vars
  BY <1>5 DEF vars, OppositeEdgesExcluded, RowsExcludeEachOther,
              EdgeIsCovered, Open
<1> QED
  BY <1>1, <1>2, <1>3, <1>4, <1>5 DEF Next, RejectCycle, RollBack

(* Whatever the sessions do at the same time, no two artifacts become each *)
(* other's ancestors, and every committed derivation has its pair: this is *)
(* what the unordered-pair index buys.                                     *)
THEOREM OppositeEdgesNeverCommit == Spec => []OppositeEdgesExcluded
<1>1. Init => OppositeInv
  <2>1. Init => OppositeEdgesExcluded /\ RowsExcludeEachOther
                  /\ EdgeIsCovered
    BY DEF Init, OppositeEdgesExcluded, RowsExcludeEachOther, EdgeIsCovered,
           Open, IdleSession
  <2> QED
    BY <2>1, InitType DEF OppositeInv
<1>2. OppositeInv => OppositeEdgesExcluded
  BY DEF OppositeInv
<1> QED
  BY <1>1, <1>2, TypeCorrect, OppositeStep, PTL DEF Spec

-----------------------------------------------------------------------------
(* Transactions that do not overlap. *)

(* The one open session has inserted, has to insert and found committed    *)
(* what its trigger's cross join holds.                                    *)
CrossJoinInv ==
  \A s \in Sessions : Open(s) =>
    /\ \A t \in Sessions : Open(t) => t = s
    /\ \E p, d \in Artifacts :
         /\ session[s].edge = <<p, d>>
         /\ session[s].rows \cup session[s].todo \subseteq NewPairs(p, d)
         /\ NewPairs(p, d) \subseteq
              session[s].rows \cup session[s].todo \cup paths

SerialInv == TypeOK /\ (~overlapped => PairsAreLineage /\ CrossJoinInv)

(* Adding the cross join of an edge keeps the pairs a strict order that    *)
(* starts every pair with a derivation, if it put no artifact above        *)
(* itself.                                                                 *)
LEMMA CrossJoinKeepsOrder ==
  ASSUME NEW p \in Artifacts, NEW d \in Artifacts,
         edges \subseteq Pairs, paths \subseteq Pairs, PairsAreLineage,
         edges' = edges \cup {<<p, d>>},
         paths' = paths \cup NewPairs(p, d),
         \A pair \in NewPairs(p, d) : pair[1] # pair[2]
  PROVE  PairsAreLineage'
<1> DEFINE new == NewPairs(p, d)
<1>1. \A x, y \in Artifacts :
        <<x, y>> \in new <=> /\ x = p \/ <<x, p>> \in paths
                             /\ y = d \/ <<d, y>> \in paths
  BY DEF NewPairs, Pairs
<1>2. /\ new \subseteq Pairs
      /\ \A pair \in Pairs : pair = <<pair[1], pair[2]>>
      /\ \A pair \in Pairs : pair[1] \in Artifacts /\ pair[2] \in Artifacts
  BY DEF NewPairs, Pairs
<1>3. \A x, y, z \in Artifacts :
        <<x, y>> \in paths /\ <<y, z>> \in paths => <<x, z>> \in paths
  BY DEF PairsAreLineage
<1>4. \A x \in Artifacts : <<x, x>> \notin new
  OBVIOUS
<1> HIDE DEF new
<1>5. edges' \subseteq paths'
  <2>1. <<p, d>> \in new
    BY <1>1
  <2> QED
    BY <2>1 DEF PairsAreLineage, new
<1>6. \A pair \in paths' : pair[1] # pair[2]
  BY DEF PairsAreLineage, new
<1>7. ASSUME NEW x \in Artifacts, NEW y \in Artifacts, NEW z \in Artifacts,
             <<x, y>> \in paths', <<y, z>> \in paths'
      PROVE  <<x, z>> \in paths'
  <2>1. CASE <<x, y>> \in new /\ <<y, z>> \in new
    <3>1. <<y, y>> \in new
      BY <2>1, <1>1
    <3> QED
      BY <3>1, <1>4
  <2>2. CASE <<x, y>> \in new /\ <<y, z>> \in paths
    <3>1. z = d \/ <<d, z>> \in paths
      BY <2>2, <1>1, <1>3
    <3>2. <<x, z>> \in new
      BY <2>2, <3>1, <1>1
    <3> QED
      BY <3>2 DEF new
  <2>3. CASE <<x, y>> \in paths /\ <<y, z>> \in new
    <3>1. x = p \/ <<x, p>> \in paths
      BY <2>3, <1>1, <1>3
    <3>2. <<x, z>> \in new
      BY <2>3, <3>1, <1>1
    <3> QED
      BY <3>2 DEF new
  <2>4. CASE <<x, y>> \in paths /\ <<y, z>> \in paths
    BY <2>4, <1>3
  <2> QED
    BY <1>7, <2>1, <2>2, <2>3, <2>4 DEF new
<1>8. ASSUME NEW x \in Artifacts, NEW y \in Artifacts, <<x, y>> \in new
      PROVE  \E e \in edges' :
               e[1] = x /\ (e[2] = y \/ <<e[2], y>> \in paths')
  <2>1. CASE x = p
    <3>1. /\ <<p, d>> \in edges' /\ <<p, d>>[1] = x /\ <<p, d>>[2] = d
          /\ d = y \/ <<d, y>> \in paths
      BY <2>1, <1>1, <1>8
    <3> QED
      BY <3>1
  <2>2. CASE <<x, p>> \in paths
    <3>1. PICK e \in edges : e[1] = x /\ (e[2] = p \/ <<e[2], p>> \in paths)
      BY <2>2 DEF PairsAreLineage
    <3>2. <<e[2], y>> \in new
      BY <3>1, <1>1, <1>2, <1>8
    <3> QED
      BY <3>1, <3>2 DEF new
  <2> QED
    BY <1>1, <1>8, <2>1, <2>2
<1>9. \A pair \in paths' : \E e \in edges' :
        e[1] = pair[1] /\ (e[2] = pair[2] \/ <<e[2], pair[2]>> \in paths')
  <2> SUFFICES ASSUME NEW pair \in paths'
               PROVE  \E e \in edges' :
                        /\ e[1] = pair[1]
                        /\ e[2] = pair[2] \/ <<e[2], pair[2]>> \in paths'
    OBVIOUS
  <2>1. CASE pair \in paths
    BY <2>1 DEF PairsAreLineage
  <2>2. CASE pair \in new
    BY <2>2, <1>2, <1>8
  <2> QED
    BY <2>1, <2>2 DEF new
<1>10. \A q, r \in paths' : q[2] = r[1] => <<q[1], r[2]>> \in paths'
  BY <1>2, <1>7 DEF new
<1> QED
  BY <1>5, <1>6, <1>9, <1>10 DEF PairsAreLineage

(* As long as transactions do not overlap the recorded pairs stay the      *)
(* strict order the derivations generate, however long the lineage grows   *)
(* and in whatever order its edges arrive: no derivation closes a cycle.   *)
THEOREM SerialWritersKeepOrder == Spec => []PathsOrderLineage
<1>1. Init => SerialInv
  <2>1. Init => PairsAreLineage /\ CrossJoinInv
    BY DEF Init, PairsAreLineage, CrossJoinInv, Open, IdleSession
  <2> QED
    BY <2>1, InitType DEF SerialInv
<1>2. SerialInv /\ TypeOK' /\ [Next]_vars => SerialInv'
  <2> DEFINE Goal == (PairsAreLineage /\ CrossJoinInv)'
  <2> SUFFICES ASSUME SerialInv, TypeOK', [Next]_vars, ~overlapped'
               PROVE  Goal
    BY DEF SerialInv
  <2> USE DEF TypeOK, ProperPairs
  <2>0. TypeOK /\ ~overlapped /\ PairsAreLineage /\ CrossJoinInv
    BY DEF SerialInv, Next, InsertDerivation, InsertPath, RejectCycle, Commit,
           RollBack, vars
  <2>1. ASSUME NEW s \in Sessions, NEW p \in Artifacts, NEW d \in Artifacts,
               InsertDerivation(s, p, d)
        PROVE  Goal
    <3>1. /\ edges' = edges /\ paths' = paths
          /\ \A t \in Sessions : ~Open(t)
          /\ session'[s] = [edge |-> <<p, d>>, todo |-> NewPairs(p, d),
                            rows |-> {}]
          /\ \A t \in Sessions \ {s} : session'[t] = session[t]
      BY <2>0, <2>1 DEF InsertDerivation
    <3>2. NewPairs(p, d)' = NewPairs(p, d)
      BY <3>1 DEF NewPairs
    <3>3. PairsAreLineage'
      BY <2>0, <3>1 DEF PairsAreLineage
    <3>4. CrossJoinInv'
      BY <3>1, <3>2 DEF CrossJoinInv, Open
    <3> QED
      BY <3>3, <3>4
  <2>2. ASSUME NEW s \in Sessions, InsertPath(s)
        PROVE  Goal
    <3>1. PICK pair \in session[s].todo :
            session' = [session EXCEPT
               ![s].todo = @ \ {pair},
               ![s].rows = IF pair \in paths THEN @ ELSE @ \cup {pair}]
      BY <2>2 DEF InsertPath
    <3>2. /\ edges' = edges /\ paths' = paths
          /\ session'[s].edge = session[s].edge
          /\ session'[s].todo = session[s].todo \ {pair}
          /\ session'[s].rows = IF pair \in paths THEN session[s].rows
                                ELSE session[s].rows \cup {pair}
          /\ \A t \in Sessions \ {s} : session'[t] = session[t]
      BY <2>0, <3>1, <2>2 DEF InsertPath
    <3>3. PairsAreLineage'
      BY <2>0, <3>2 DEF PairsAreLineage
    <3>4. ASSUME Open(s) PROVE CrossJoinInv'
      <4>1. PICK p \in Artifacts, d \in Artifacts :
              /\ session[s].edge = <<p, d>>
              /\ session[s].rows \cup session[s].todo \subseteq NewPairs(p, d)
              /\ NewPairs(p, d) \subseteq
                   session[s].rows \cup session[s].todo \cup paths
        BY <2>0, <3>4 DEF CrossJoinInv
      <4>2. NewPairs(p, d)' = NewPairs(p, d)
        BY <3>2 DEF NewPairs
      <4>3. \A t \in Sessions : session'[t].edge # None => t = s
        BY <2>0, <3>2, <3>4 DEF CrossJoinInv, Open
      <4> QED
        BY <3>2, <4>1, <4>2, <4>3 DEF CrossJoinInv, Open
    <3>5. ASSUME ~Open(s) PROVE CrossJoinInv'
      <4>1. \A q, e : NewPairs(q, e)' = NewPairs(q, e)
        BY <3>2 DEF NewPairs
      <4> QED
        BY <2>0, <3>2, <3>5, <4>1 DEF CrossJoinInv, Open
    <3> QED
      BY <3>3, <3>4, <3>5
  <2>3. ASSUME NEW s \in Sessions,
               session' = [session EXCEPT ![s] = IdleSession],
               UNCHANGED <<edges, paths>>
        PROVE  Goal
    <3>1. \A q, e : NewPairs(q, e)' = NewPairs(q, e)
      BY <2>3 DEF NewPairs
    <3>2. /\ session'[s].edge = None
          /\ \A t \in Sessions \ {s} : session'[t] = session[t]
      BY <2>0, <2>3 DEF IdleSession
    <3>3. CrossJoinInv'
      BY <2>0, <2>3, <3>1, <3>2 DEF CrossJoinInv, Open
    <3> QED
      BY <2>0, <2>3, <3>3 DEF PairsAreLineage
  <2>4. ASSUME NEW s \in Sessions, Commit(s)
        PROVE  Goal
    <3>1. /\ edges' = edges \cup {session[s].edge}
          /\ paths' = paths \cup session[s].rows
          /\ session[s].todo = {} /\ Open(s)
          /\ session'[s] = IdleSession
          /\ \A t \in Sessions \ {s} : session'[t] = session[t]
      BY <2>0, <2>4 DEF Commit
    <3>2. PICK p \in Artifacts, d \in Artifacts :
            /\ session[s].edge = <<p, d>>
            /\ session[s].rows \subseteq NewPairs(p, d)
            /\ NewPairs(p, d) \subseteq session[s].rows \cup paths
      BY <2>0, <3>1 DEF CrossJoinInv
    <3>3. paths' = paths \cup NewPairs(p, d)
      BY <3>1, <3>2
    <3>4. \A pair \in NewPairs(p, d) : pair[1] # pair[2]
      BY <2>0, <3>2
    <3>5. PairsAreLineage'
      BY <2>0, <3>1, <3>2, <3>3, <3>4, CrossJoinKeepsOrder
    <3>6. \A t \in Sessions : session'[t].edge = None
      BY <2>0, <3>1 DEF CrossJoinInv, Open, IdleSession
    <3>7. CrossJoinInv'
      BY <3>6 DEF CrossJoinInv, Open
    <3> QED
      BY <3>5, <3>7
  <2>5. CASE UNCHANGED vars
    <3>1. edges' = edges /\ paths' = paths /\ session' = session
      BY <2>5 DEF vars
    <3>2. PairsAreLineage'
      BY <2>0, <3>1 DEF PairsAreLineage
    <3>3. \A p, d : NewPairs(p, d)' = NewPairs(p, d)
      BY <3>1 DEF NewPairs
    <3>4. CrossJoinInv'
      BY <2>0, <3>1, <3>3 DEF CrossJoinInv, Open
    <3> QED
      BY <3>2, <3>4
  <2> QED
    BY <2>1, <2>2, <2>3, <2>4, <2>5 DEF Next, RejectCycle, RollBack
<1>3. SerialInv => PathsOrderLineage
  BY DEF SerialInv, PathsOrderLineage
<1> QED
  BY <1>1, <1>2, <1>3, TypeCorrect, PTL DEF Spec
=============================================================================
