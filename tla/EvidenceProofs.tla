---------------------------- MODULE EvidenceProofs ----------------------------
(***************************************************************************)
(* The parts of the evidence scenes for any constants.  The legal corpus:   *)
(* types, grounded knowledge and the agreement of overlapping promotions.  *)
(* The reading of a scan: lemmas on the library's sums and flattenings, on *)
(* sorted listings and on the chunking recursion; the view of a scan; the  *)
(* budget of a discovery run; the sources of an extraction.  And the scenes *)
(* together, with the invariant of the census and its OCR.                 *)
(***************************************************************************)
EXTENDS MCEvidence, LiteralOcrProofs, FiniteSetTheorems, SequenceTheorems

-----------------------------------------------------------------------------
(* The two tables of rows in order are sequences.                           *)
Committed == [by : Principals, request : Requests]

(* The type invariant in the two halves that the two kinds of writers touch. *)
GraphOK ==
  /\ observation \in [Observations -> {"absent", "observed", "accepted",
                                       "rejected", "superseded", "conflicting"}]
  /\ asserted \subseteq Assertions
  /\ evidence \in Seq(Assertions \X Observations)
  /\ tx \in [Connections -> [step : {"none", "identity", "assertion", "write"},
                             obs : Observations \cup {Unresolved},
                             row : SUBSET Assertions]]
CanonOK ==
  /\ decisions \in Seq(Committed)
  /\ norm \in [Norms -> {"absent", "candidate", "verified"}]
  /\ source \in [Norms -> SUBSET {"candidate", "verified"}]
TypeInv == GraphOK /\ CanonOK

LEMMA RowsOfAppend ==
  ASSUME NEW S, NEW s \in Seq(S), NEW x \in S
  PROVE  /\ Rows(Append(s, x)) = Rows(s) \cup {x}
         /\ Append(s, x) \in Seq(S)
         /\ \A i \in DOMAIN Append(s, x) :
               Append(s, x)[i] = x \/ (i \in DOMAIN s /\ Append(s, x)[i] = s[i])
<1>1. /\ Append(s, x) \in Seq(S) /\ DOMAIN s = 1 .. Len(s) /\ Len(s) \in Nat
      /\ DOMAIN Append(s, x) = 1 .. Len(s) + 1
      /\ \A i \in 1 .. Len(s) : Append(s, x)[i] = s[i]
      /\ Append(s, x)[Len(s) + 1] = x
  OBVIOUS
<1>2. 1 .. Len(s) + 1 = 1 .. Len(s) \cup {Len(s) + 1}
  BY <1>1
<1> QED
  BY <1>1, <1>2 DEF Rows

LEMMA TypeParts == TypeInv => LegalTypeOK
<1> SUFFICES ASSUME TypeInv PROVE LegalTypeOK
  OBVIOUS
<1>1. Rows(evidence) \subseteq Assertions \X Observations
  BY DEF TypeInv, GraphOK, Rows
<1>2. \A i \in DOMAIN decisions : decisions[i] \in Committed
  BY DEF TypeInv, CanonOK
<1> QED
  BY <1>1, <1>2 DEF TypeInv, GraphOK, CanonOK, LegalTypeOK, Committed

LEMMA TypeInit == LegalInit => TypeInv
  BY DEF LegalInit, TypeInv, GraphOK, CanonOK, NoTx

(* A promotion that has begun is of an observation with a target.           *)
Underway(c) == tx[c].step # "none" =>
                 tx[c].obs \in Observations /\ Relation[tx[c].obs] # Unresolved
AllUnderway == \A c \in Connections : Underway(c)

(* A promotion past the identity has found an assertion of its relation or   *)
(* brings its own, and then nobody else has one or is about to.             *)
Midway(c) == tx[c].step \in {"assertion", "write"}
Target(c) == Relation[tx[c].obs]
Ready(c) ==
  Midway(c) => \/ tx[c].row = {<<Target(c), tx[c].obs>>}
               \/ tx[c].row = {} /\ \E a \in asserted : a[1] = Target(c)
Alone(c) ==
  Midway(c) /\ tx[c].row # {} =>
    /\ \A a \in asserted : a[1] # Target(c)
    /\ \A b \in Connections \ {c} : ~Inserting(b, Target(c))
Promotions == \A c \in Connections : Ready(c) /\ Alone(c)

LEMMA GraphTypes ==
  ASSUME TypeInv, AllUnderway, Promotions, GraphNext
  PROVE  TypeInv' /\ AllUnderway'
<1>0. GraphOK /\ CanonOK
  BY Zenon DEF TypeInv
<1>1. CanonOK'
  BY <1>0 DEF GraphNext, RecordObservation, Curate, BeginPromotion, ResolveIdentity,
              LockAssertion, CommitPromotion, Rollback, CanonOK
<1>2. ASSUME NEW o \in Observations, RecordObservation(o) \/ Curate(o)
      PROVE  GraphOK' /\ AllUnderway'
  BY <1>0, <1>2 DEF RecordObservation, Curate, GraphOK, AllUnderway, Underway
<1>3. ASSUME NEW o \in Observations, NEW c \in Connections, BeginPromotion(c, o)
      PROVE  GraphOK' /\ AllUnderway'
  BY <1>0, <1>3 DEF BeginPromotion, Promotable, GraphOK, AllUnderway, Underway
<1>4. ASSUME NEW c \in Connections, ResolveIdentity(c) PROVE GraphOK' /\ AllUnderway'
  <2> DEFINE row == IF \E a \in asserted : a[1] = Relation[tx[c].obs] THEN {}
                    ELSE {<<Relation[tx[c].obs], tx[c].obs>>}
  <2>1. tx[c].obs \in Observations /\ row \in SUBSET Assertions
    BY <1>4 DEF ResolveIdentity, AllUnderway, Underway, Assertions, Relations
  <2>2. tx' = [tx EXCEPT ![c] = [@ EXCEPT !.step = "assertion", !.row = row]]
    BY <1>0, <1>4 DEF ResolveIdentity, GraphOK
  <2> HIDE DEF row
  <2>3. GraphOK'
    <3>1. [tx[c] EXCEPT !.step = "assertion", !.row = row]
            \in [step : {"none", "identity", "assertion", "write"},
                 obs : Observations \cup {Unresolved}, row : SUBSET Assertions]
      BY <1>0, <2>1 DEF GraphOK
    <3>2. UNCHANGED <<observation, asserted, evidence>>
      BY <1>4 DEF ResolveIdentity
    <3> QED
      BY <1>0, <2>2, <3>1, <3>2 DEF GraphOK
  <2>4. AllUnderway'
    BY <1>0, <1>4, <2>2 DEF ResolveIdentity, GraphOK, AllUnderway, Underway
  <2> QED
    BY <2>3, <2>4
<1>5. ASSUME NEW c \in Connections, LockAssertion(c) PROVE GraphOK' /\ AllUnderway'
  <2>1. /\ tx' = [tx EXCEPT ![c] = [@ EXCEPT !.step = "write"]]
        /\ UNCHANGED <<observation, asserted, evidence>> /\ tx[c].step = "assertion"
    BY <1>5 DEF LockAssertion
  <2>2. [tx[c] EXCEPT !.step = "write"]
          \in [step : {"none", "identity", "assertion", "write"},
               obs : Observations \cup {Unresolved}, row : SUBSET Assertions]
    BY <1>0 DEF GraphOK
  <2>3. GraphOK'
    BY <1>0, <2>1, <2>2 DEF GraphOK
  <2>4. AllUnderway'
    BY <1>0, <2>1 DEF GraphOK, AllUnderway, Underway
  <2> QED
    BY <2>3, <2>4
<1>6. ASSUME NEW c \in Connections, Rollback(c) PROVE GraphOK' /\ AllUnderway'
  BY <1>0, <1>6 DEF Rollback, NoTx, GraphOK, AllUnderway, Underway
<1>7. ASSUME NEW c \in Connections, CommitPromotion(c) PROVE GraphOK' /\ AllUnderway'
  <2>1. /\ tx[c].obs \in Observations /\ Relation[tx[c].obs] \in Relations
        /\ tx[c].row \subseteq Assertions /\ tx[c].step = "write"
    BY <1>0, <1>7 DEF CommitPromotion, AllUnderway, Underway, GraphOK, Relations
  <2>2. \E a \in asserted \cup tx[c].row : a[1] = Relation[tx[c].obs]
    <3>1. CASE tx[c].row = {<<Relation[tx[c].obs], tx[c].obs>>}
      <4>1. /\ <<Relation[tx[c].obs], tx[c].obs>> \in tx[c].row
            /\ <<Relation[tx[c].obs], tx[c].obs>>[1] = Relation[tx[c].obs]
        BY <3>1
      <4> QED
        BY <4>1
    <3>2. CASE \E a \in asserted : a[1] = Relation[tx[c].obs]
      BY <3>2
    <3> QED
      BY <2>1, <3>1, <3>2 DEF Promotions, Ready, Midway, Target
  <2>3. Current(Relation[tx[c].obs], asserted \cup tx[c].row) \in Assertions
    BY <1>0, <2>1, <2>2 DEF Current, GraphOK
  <2>4. evidence' \in Seq(Assertions \X Observations)
    BY <1>0, <1>7, <2>1, <2>3, RowsOfAppend DEF CommitPromotion, WithEvidence, GraphOK
  <2>5. GraphOK'
    BY <1>0, <1>7, <2>1, <2>4 DEF CommitPromotion, GraphOK, NoTx
  <2>6. AllUnderway'
    BY <1>0, <1>7 DEF CommitPromotion, GraphOK, AllUnderway, Underway, NoTx
  <2> QED
    BY <2>5, <2>6
<1> QED
  BY <1>1, <1>2, <1>3, <1>4, <1>5, <1>6, <1>7 DEF GraphNext, TypeInv

LEMMA PromotionsStep ==
  ASSUME TypeInv, Promotions, GraphNext
  PROVE  Promotions'
<1>0. GraphOK
  BY DEF TypeInv
<1> USE DEF Midway, Target, Inserting
<1>1. ASSUME NEW o \in Observations, RecordObservation(o) \/ Curate(o)
      PROVE  Promotions'
  BY <1>1 DEF RecordObservation, Curate, Promotions, Ready, Alone
<1>2. ASSUME NEW c \in Connections, UNCHANGED asserted, tx'[c].step \in {"none", "identity"},
             \A b \in Connections \ {c} : tx'[b] = tx[b]
      PROVE  Promotions'
  BY <1>2 DEF Promotions, Ready, Alone
<1>3. ASSUME NEW o \in Observations, NEW c \in Connections, BeginPromotion(c, o)
      PROVE  Promotions'
  BY <1>0, <1>2, <1>3 DEF BeginPromotion, GraphOK
<1>4. ASSUME NEW c \in Connections, Rollback(c) PROVE Promotions'
  BY <1>0, <1>2, <1>4 DEF Rollback, NoTx, GraphOK
<1>5. ASSUME NEW c \in Connections, LockAssertion(c) PROVE Promotions'
  BY <1>0, <1>5 DEF LockAssertion, GraphOK, Promotions, Ready, Alone
<1>6. ASSUME NEW c \in Connections, ResolveIdentity(c) PROVE Promotions'
  <2>1. /\ UNCHANGED asserted /\ tx'[c].obs = tx[c].obs /\ tx'[c].step = "assertion"
        /\ \A b \in Connections \ {c} : tx'[b] = tx[b] /\ ~Inserting(b, Target(c))
        /\ tx'[c].row = IF \E a \in asserted : a[1] = Target(c) THEN {}
                        ELSE {<<Target(c), tx[c].obs>>}
    BY <1>0, <1>6 DEF ResolveIdentity, GraphOK
  <2>2. Ready(c)' /\ Alone(c)'
    BY <2>1 DEF Ready, Alone
  <2>3. ASSUME NEW b \in Connections \ {c} PROVE Ready(b)' /\ Alone(b)'
    BY <2>1, <2>3 DEF Promotions, Ready, Alone
  <2> QED
    BY <2>2, <2>3 DEF Promotions
<1>7. ASSUME NEW c \in Connections, CommitPromotion(c) PROVE Promotions'
  <2>1. /\ asserted' = asserted \cup tx[c].row /\ tx'[c].step = "none"
        /\ tx[c].step = "write"
        /\ \A b \in Connections \ {c} : tx'[b] = tx[b]
    BY <1>0, <1>7 DEF CommitPromotion, GraphOK, NoTx
  <2>2. ASSUME NEW b \in Connections \ {c} PROVE Ready(b)' /\ Alone(b)'
    <3>1. Ready(b)'
      BY <2>1, <2>2 DEF Promotions, Ready
    <3>2. ASSUME Midway(b), tx[b].row # {} PROVE \A a \in tx[c].row : a[1] # Target(b)
      BY <2>1, <2>2, <3>2 DEF Promotions, Ready, Alone
    <3>3. Alone(b)'
      BY <2>1, <2>2, <3>2 DEF Promotions, Alone
    <3> QED
      BY <3>1, <3>3
  <2>3. Ready(c)' /\ Alone(c)'
    BY <2>1 DEF Ready, Alone
  <2> QED
    BY <2>2, <2>3 DEF Promotions
<1> QED
  BY <1>1, <1>3, <1>4, <1>5, <1>6, <1>7 DEF GraphNext

-----------------------------------------------------------------------------
(* The writers of decisions and norms.                                      *)
LEMMA CanonFrame ==
  ASSUME CanonNext
  PROVE  UNCHANGED <<observation, asserted, evidence, tx>>
  BY DEF CanonNext, CommitDecision, CreateNorm, AttachSource, VerifyNorm, graphVars

LEMMA GraphFrame ==
  ASSUME GraphNext
  PROVE  UNCHANGED <<decisions, norm, source>>
  BY DEF GraphNext, RecordObservation, Curate, BeginPromotion, ResolveIdentity,
         LockAssertion, CommitPromotion, Rollback

LEMMA CanonTypes ==
  ASSUME TypeInv, CanonNext
  PROVE  TypeInv'
<1>0. GraphOK /\ CanonOK
  BY DEF TypeInv
<1>1. GraphOK'
  BY <1>0, CanonFrame DEF GraphOK
<1>2. ASSUME NEW p \in Principals, NEW q \in Requests, NEW approved, NEW audited,
             NEW faithful, CommitDecision(p, q, approved, audited, faithful)
      PROVE  CanonOK'
  <2>1. [by |-> p, request |-> q] \in Committed
    BY DEF Committed
  <2>2. Append(decisions, [by |-> p, request |-> q]) \in Seq(Committed)
    BY <1>0, <2>1, RowsOfAppend DEF CanonOK
  <2> QED
    BY <1>0, <1>2, <2>2 DEF CommitDecision, CanonOK
<1>3. ASSUME NEW n \in Norms, CreateNorm(n) \/ VerifyNorm(n) PROVE CanonOK'
  BY <1>0, <1>3 DEF CreateNorm, VerifyNorm, CanonOK
<1>4. ASSUME NEW n \in Norms, NEW s \in {"candidate", "verified"}, AttachSource(n, s)
      PROVE  CanonOK'
  BY <1>0, <1>4 DEF AttachSource, CanonOK
<1> QED
  BY <1>1, <1>2, <1>3, <1>4 DEF CanonNext, TypeInv

TxInv == TypeInv /\ AllUnderway /\ Promotions

LEMMA TxInit == LegalInit => TxInv
  BY TypeInit DEF LegalInit, NoTx, TxInv, AllUnderway, Underway, Promotions, Ready,
                  Alone, Midway

LEMMA TxStep == TxInv /\ [LegalNext]_legalVars => TxInv'
<1>1. ASSUME TxInv, GraphNext PROVE TxInv'
  BY <1>1, GraphTypes, PromotionsStep DEF TxInv
<1>2. ASSUME TxInv, UNCHANGED <<observation, asserted, evidence, tx>>
      PROVE  AllUnderway' /\ Promotions'
  BY <1>2 DEF TxInv, AllUnderway, Underway, Promotions, Ready, Alone, Midway, Target,
              Inserting
<1>3. ASSUME TxInv, CanonNext PROVE TxInv'
  BY <1>2, <1>3, CanonFrame, CanonTypes DEF TxInv
<1>4. ASSUME TxInv, UNCHANGED legalVars PROVE TxInv'
  <2>1. TypeInv'
    BY <1>4 DEF TxInv, TypeInv, GraphOK, CanonOK, legalVars, graphVars
  <2> QED
    BY <1>2, <1>4, <2>1 DEF TxInv, legalVars, graphVars
<1> QED
  BY <1>1, <1>3, <1>4 DEF LegalNext

(* Every table and every session keeps its type.                            *)
THEOREM LegalTypesCorrect == LegalSpec => []LegalTypeOK
<1>1. TxInv => LegalTypeOK
  BY TypeParts DEF TxInv
<1> QED
  BY <1>1, TxInit, TxStep, PTL DEF LegalSpec

-----------------------------------------------------------------------------
(* The agreement, and that evidence is of an assertion there is.            *)
OneAssertion == \A a, b \in asserted : a[1] = b[1] => a = b
OriginAccepted == \A a \in asserted : observation[a[2]] = "accepted"
AcceptedIsEvidence ==
  \A o \in Paged :
     observation[o] = "accepted" <=>
        \E a \in asserted : a[1] = Relation[o] /\ <<a, o>> \in Rows(evidence)
EvidenceOnce == \A i, j \in DOMAIN evidence : evidence[i] = evidence[j] => i = j
EvidenceOfAsserted == \A x \in Rows(evidence) : x[1] \in asserted
AgreeInv == OneAssertion /\ OriginAccepted /\ AcceptedIsEvidence /\ EvidenceOnce
            /\ EvidenceOfAsserted

LEMMA AgreeInit == LegalInit => AgreeInv
  BY LegalPaged DEF LegalInit, AgreeInv, OneAssertion, OriginAccepted, AcceptedIsEvidence,
         EvidenceOnce, EvidenceOfAsserted, Rows

(* A step that only moves an observation that was not accepted, or a session. *)
LEMMA AgreeQuiet ==
  ASSUME TypeInv, AgreeInv, UNCHANGED <<asserted, evidence>>,
         \A o \in Observations : observation'[o] = "accepted" <=> observation[o] = "accepted"
  PROVE  AgreeInv'
<1>1. \A a \in asserted : a[2] \in Observations
  BY DEF TypeInv, GraphOK, Assertions
<1> QED
  BY <1>1, LegalPaged DEF AgreeInv, OneAssertion, OriginAccepted, AcceptedIsEvidence,
       EvidenceOnce, EvidenceOfAsserted, Rows

(* The evidence a commit leaves: the row of its observation, once.           *)
LEMMA EvidenceGrows ==
  ASSUME GraphOK, EvidenceOnce, NEW o \in Observations, NEW a \in Assertions,
         evidence' = WithEvidence(o, a)
  PROVE  /\ Rows(evidence') = IF o \in Paged THEN Rows(evidence) \cup {<<a, o>>}
                              ELSE Rows(evidence)
         /\ EvidenceOnce'
<1>1. CASE o \notin Paged \/ <<a, o>> \in Rows(evidence)
  <2>1. evidence' = evidence
    BY <1>1 DEF WithEvidence
  <2>2. Rows(evidence)' = Rows(evidence)
    BY <2>1 DEF Rows
  <2> QED
    BY <1>1, <2>1, <2>2 DEF EvidenceOnce
<1>2. CASE evidence' = Append(evidence, <<a, o>>) /\ <<a, o>> \notin Rows(evidence)
              /\ o \in Paged
  <2>1. evidence \in Seq(Assertions \X Observations)
    BY DEF GraphOK
  <2>2. Rows(evidence') = Rows(evidence) \cup {<<a, o>>}
    BY <1>2, <2>1, RowsOfAppend
  <2>3. /\ DOMAIN evidence' = 1 .. Len(evidence) + 1 /\ Len(evidence) \in Nat
        /\ DOMAIN evidence = 1 .. Len(evidence)
        /\ \A i \in 1 .. Len(evidence) :
              evidence'[i] = evidence[i] /\ evidence'[i] # <<a, o>>
        /\ evidence'[Len(evidence) + 1] = <<a, o>>
    BY <1>2, <2>1 DEF Rows
  <2>4. EvidenceOnce'
    BY <2>3 DEF EvidenceOnce
  <2> QED
    BY <1>2, <2>2, <2>4
<1> QED
  BY <1>1, <1>2 DEF WithEvidence

LEMMA AgreeCommit ==
  ASSUME TxInv, AgreeInv, NEW c \in Connections, CommitPromotion(c)
  PROVE  AgreeInv'
<1> DEFINE o == tx[c].obs
           r == Relation[o]
           rows == asserted \cup tx[c].row
           cur == Current(r, rows)
<1>0. /\ GraphOK /\ o \in Observations /\ r \in Relations /\ tx[c].row \subseteq Assertions
      /\ \/ tx[c].row = {} /\ \E a \in asserted : a[1] = r
         \/ tx[c].row = {<<r, o>>} /\ \A a \in asserted : a[1] # r
  BY DEF TxInv, TypeInv, AllUnderway, Underway, GraphOK, Relations, CommitPromotion,
         Promotions, Ready, Alone, Midway, Target
<1>1. /\ asserted' = rows
      /\ observation' = [observation EXCEPT ![o] = "accepted"]
      /\ evidence' = WithEvidence(o, cur)
  BY DEF CommitPromotion
<1>2. rows \subseteq Assertions
  BY <1>0 DEF GraphOK
<1>3. (\A a \in tx[c].row : a[1] = r /\ a[2] = o) /\ \E a \in rows : a[1] = r
  <2>1. <<r, o>>[1] = r /\ <<r, o>>[2] = o
    OBVIOUS
  <2> QED
    BY <1>0, <2>1
<1>4. cur \in rows /\ cur[1] = r
  BY <1>3 DEF Current
<1>5. /\ observation'[o] = "accepted"
      /\ \A p \in Observations \ {o} : observation'[p] = observation[p]
  BY <1>0, <1>1 DEF GraphOK
<1>6. /\ Rows(evidence)' = IF o \in Paged THEN Rows(evidence) \cup {<<cur, o>>}
                           ELSE Rows(evidence)
      /\ EvidenceOnce'
  <2>1. Rows(evidence)' = Rows(evidence')
    BY DEF Rows
  <2> HIDE DEF cur, o
  <2> QED
    BY <1>0, <1>1, <1>2, <1>4, <2>1, EvidenceGrows DEF AgreeInv
<1> HIDE DEF o, r, rows, cur
<1>7. OneAssertion'
  BY <1>0, <1>1, <1>3 DEF rows, AgreeInv, OneAssertion
<1>8. OriginAccepted'
  <2>1. \A a \in asserted : a[2] \in Observations /\ observation[a[2]] = "accepted"
    BY <1>0 DEF GraphOK, Assertions, AgreeInv, OriginAccepted
  <2> QED
    BY <1>1, <1>3, <1>5, <2>1 DEF rows, OriginAccepted
<1>9. EvidenceOfAsserted'
  <2>1. <<cur, o>>[1] = cur
    OBVIOUS
  <2> QED
    BY <1>1, <1>4, <1>6, <2>1 DEF rows, AgreeInv, EvidenceOfAsserted
<1>10. AcceptedIsEvidence'
  <2>1. ASSUME o \in Paged
        PROVE  \E a \in rows : a[1] = Relation[o] /\ <<a, o>> \in Rows(evidence)'
    BY <1>4, <1>6, <2>1 DEF r
  <2>2. ASSUME NEW p \in Paged, p # o
        PROVE  /\ observation'[p] = observation[p]
               /\ \A a \in rows : <<a, p>> \in Rows(evidence)' =>
                                 a \in asserted /\ <<a, p>> \in Rows(evidence)
               /\ \A a \in asserted : <<a, p>> \in Rows(evidence) =>
                                 a \in rows /\ <<a, p>> \in Rows(evidence)'
    <3>1. \A a : <<a, p>>[1] = a /\ <<a, p>> # <<cur, o>>
      BY <2>2
    <3>2. p \in Observations
      BY LegalPaged
    <3> QED
      BY <1>5, <1>6, <2>2, <3>1, <3>2 DEF rows, AgreeInv, EvidenceOfAsserted
  <2>3. ASSUME NEW p \in Paged
        PROVE  observation'[p] = "accepted" <=>
                 \E a \in rows : a[1] = Relation[p] /\ <<a, p>> \in Rows(evidence)'
    <3>1. CASE p = o
      BY <1>5, <2>1, <2>3, <3>1
    <3>2. CASE p # o
      BY <2>2, <2>3, <3>2 DEF AgreeInv, AcceptedIsEvidence
    <3> QED
      BY <3>1, <3>2
  <2> QED
    BY <1>1, <2>3 DEF AcceptedIsEvidence
<1> QED
  BY <1>6, <1>7, <1>8, <1>9, <1>10 DEF AgreeInv

LEMMA AgreeStep == TxInv /\ AgreeInv /\ [LegalNext]_legalVars => AgreeInv'
<1>1. ASSUME TxInv, AgreeInv, GraphNext,
             ~\E c \in Connections : CommitPromotion(c)
      PROVE  AgreeInv'
  <2>1. UNCHANGED <<asserted, evidence>>
    BY <1>1 DEF GraphNext, RecordObservation, Curate, BeginPromotion, ResolveIdentity,
                LockAssertion, Rollback
  <2>2. \A o \in Observations :
           observation'[o] = "accepted" <=> observation[o] = "accepted"
    <3>1. observation \in [Observations -> {"absent", "observed", "accepted",
                                            "rejected", "superseded", "conflicting"}]
      BY <1>1 DEF TxInv, TypeInv, GraphOK
    <3>2. ASSUME NEW p \in Observations, RecordObservation(p) \/ Curate(p)
          PROVE  \A o \in Observations :
                    observation'[o] = "accepted" <=> observation[o] = "accepted"
      BY <3>1, <3>2 DEF RecordObservation, Curate
    <3>3. ASSUME NEW c \in Connections,
                 \/ ResolveIdentity(c) \/ LockAssertion(c) \/ Rollback(c)
                 \/ \E p \in Observations : BeginPromotion(c, p)
          PROVE  UNCHANGED observation
      BY <3>3 DEF BeginPromotion, ResolveIdentity, LockAssertion, Rollback
    <3> QED
      BY <1>1, <3>2, <3>3 DEF GraphNext
  <2>3. TypeInv
    BY <1>1, Zenon DEF TxInv
  <2> QED
    BY <1>1, <2>1, <2>2, <2>3, AgreeQuiet
<1>2. ASSUME TxInv, AgreeInv, UNCHANGED <<observation, asserted, evidence>>
      PROVE  AgreeInv'
  BY <1>2, AgreeQuiet DEF TxInv
<1> QED
  BY <1>1, <1>2, AgreeCommit, CanonFrame DEF LegalNext, GraphNext, legalVars, graphVars

(* However many sessions promote observations of one relation at once, are  *)
(* rolled back or repeat a promotion, the relation has one current assertion *)
(* and each accepted observation with a page is evidence of it, once.        *)
THEOREM PromotionsAlwaysAgree == LegalSpec => []PromotionsAgree
<1>1. AgreeInv => PromotionsAgree
  BY DEF AgreeInv, OneAssertion, OriginAccepted, AcceptedIsEvidence, EvidenceOnce,
         PromotionsAgree
<1> QED
  BY <1>1, TxInit, TxStep, AgreeInit, AgreeStep, PTL DEF LegalSpec

-----------------------------------------------------------------------------
(* A decision that was authorized, bound and validated is grounded.          *)
Grounded(d) ==
  LET q == d.request IN
    /\ q.scope = PublicScope \/ q.scope \in d.by.orgs
    /\ \A k \in DOMAIN q.pages :
          /\ ArtifactScope[q.pages[k][1]] = q.scope
          /\ k > 1 => q.pages[k - 1][2] < q.pages[k][2]
DecisionsGrounded == \A i \in DOMAIN decisions : Grounded(decisions[i])
NormsGrounded == \A n \in Norms : norm[n] = "verified" => "verified" \in source[n]

LEMMA CommitGrounds ==
  ASSUME NEW p \in Principals, NEW q \in Requests, NEW approved, NEW audited,
         NEW faithful, CommitDecision(p, q, approved, audited, faithful)
  PROVE  Grounded([by |-> p, request |-> q])
<1>1. q.scope = PublicScope \/ q.scope \in p.orgs
  BY DEF CommitDecision, MayWrite
<1>2. PICK n \in 1 .. 2 : q.pages \in [1 .. n -> Artifacts \X (1 .. 2)]
  BY DEF Requests, Bindings
<1>3. ASSUME NEW k \in DOMAIN q.pages
      PROVE  /\ ArtifactScope[q.pages[k][1]] = q.scope
             /\ k > 1 => q.pages[k - 1][2] < q.pages[k][2]
  <2>1. k \in 1 .. n /\ (k > 1 => k - 1 \in 1 .. n /\ k - 1 < k)
    BY <1>2
  <2> QED
    BY <1>2, <2>1 DEF CommitDecision, ArtifactInScope, PagesValid
<1> QED
  BY <1>1, <1>3 DEF Grounded

LEMMA GroundedStep ==
  TxInv /\ DecisionsGrounded /\ NormsGrounded /\ [LegalNext]_legalVars
    => DecisionsGrounded' /\ NormsGrounded'
<1>1. ASSUME DecisionsGrounded, NormsGrounded, UNCHANGED <<decisions, norm, source>>
      PROVE  DecisionsGrounded' /\ NormsGrounded'
  BY <1>1 DEF DecisionsGrounded, NormsGrounded
<1>2. ASSUME TxInv, DecisionsGrounded, NormsGrounded, NEW p \in Principals,
             NEW q \in Requests, NEW approved, NEW audited, NEW faithful,
             CommitDecision(p, q, approved, audited, faithful)
      PROVE  DecisionsGrounded' /\ NormsGrounded'
  <2> DEFINE d == [by |-> p, request |-> q]
  <2>1. decisions' = Append(decisions, d) /\ UNCHANGED <<norm, source>>
    BY <1>2 DEF CommitDecision
  <2>2. decisions \in Seq(Committed) /\ d \in Committed /\ Grounded(d)
    BY <1>2, CommitGrounds DEF TxInv, TypeInv, CanonOK, Committed
  <2> HIDE DEF d
  <2>3. \A i \in DOMAIN decisions' :
          decisions'[i] = d \/ (i \in DOMAIN decisions /\ decisions'[i] = decisions[i])
    BY <2>1, <2>2, RowsOfAppend
  <2> QED
    BY <1>2, <2>1, <2>2, <2>3 DEF DecisionsGrounded, NormsGrounded
<1>3. ASSUME TxInv, DecisionsGrounded, NormsGrounded, NEW n \in Norms,
             \/ CreateNorm(n) \/ VerifyNorm(n)
             \/ \E s \in {"candidate", "verified"} : AttachSource(n, s)
      PROVE  DecisionsGrounded' /\ NormsGrounded'
  BY <1>3 DEF CreateNorm, VerifyNorm, AttachSource, DecisionsGrounded, NormsGrounded,
              TxInv, TypeInv, CanonOK
<1> QED
  BY <1>1, <1>2, <1>3, GraphFrame DEF LegalNext, CanonNext, legalVars

(* A committed decision was in its principal's scope, from an artifact of    *)
(* that scope and whole pages in order; a verified norm has a verified       *)
(* source, whatever is created, attached and verified in between.            *)
THEOREM KnowledgeAlwaysGrounded == LegalSpec => []KnowledgeIsGrounded
<1>1. LegalInit => DecisionsGrounded /\ NormsGrounded
  BY DEF LegalInit, DecisionsGrounded, NormsGrounded
<1>2. DecisionsGrounded /\ NormsGrounded => KnowledgeIsGrounded
  BY DEF DecisionsGrounded, NormsGrounded, Grounded, KnowledgeIsGrounded
<1> QED
  BY <1>1, <1>2, TxInit, TxStep, GroundedStep, PTL DEF LegalSpec

-----------------------------------------------------------------------------
(* Induction, without an operator for the prover to instantiate: a set of   *)
(* naturals with 0 and the successors of its members is all of them.        *)
LEMMA AllOfNat ==
  ASSUME NEW S, S \subseteq Nat, 0 \in S, \A n \in S : n + 1 \in S
  PROVE  S = Nat
<1> SUFFICES ASSUME Nat \ S # {} PROVE FALSE
  OBVIOUS
<1>1. PICK x \in Nat \ S : \A y \in Nat \ S : x <= y
  BY SmallestOfNat
<1>2. x # 0 /\ x - 1 \in Nat /\ ~(x <= x - 1)
  BY <1>1
<1>3. x - 1 \in S
  BY <1>1, <1>2
<1>4. (x - 1) + 1 = x
  BY <1>1
<1> QED
  BY <1>1, <1>3, <1>4

(* Sums: the recursion of the library's fold is that of a function there is, *)
(* so a sum of naturals is one, and the empty sum is 0.                     *)
Chosen(s) == CHOOSE x \in s : TRUE
Adding(fun, sum, s) == IF s = {} THEN 0
                       ELSE fun[Chosen(s)] + sum[s \ {Chosen(s)}]
IsSum(sum, fun, S) == sum = [s \in SUBSET S |-> Adding(fun, sum, s)]

LEMMA ChosenIsIn ==
  ASSUME NEW s, s # {} PROVE Chosen(s) \in s
  BY DEF Chosen

LEMMA SumExists ==
  ASSUME NEW S, IsFiniteSet(S), NEW fun
  PROVE  \E sum : IsSum(sum, fun, S)
<1> DEFINE Upto(n, sum) == \A s \in SUBSET S :
                              Cardinality(s) <= n => sum[s] = Adding(fun, sum, s)
           N == {n \in Nat : \E sum : Upto(n, sum)}
<1>0. \A s \in SUBSET S : IsFiniteSet(s) /\ Cardinality(s) \in Nat
                          /\ Cardinality(s) <= Cardinality(S)
                          /\ (Cardinality(s) = 0 <=> s = {})
  BY FS_Subset, FS_CardinalityType, FS_EmptySet
<1>1. 0 \in N
  <2> DEFINE zero == [s \in SUBSET S |-> 0]
  <2>1. Upto(0, zero)
    <3> SUFFICES ASSUME NEW s \in SUBSET S, Cardinality(s) <= 0
                 PROVE  zero[s] = Adding(fun, zero, s)
      OBVIOUS
    <3>1. s = {}
      BY <1>0
    <3> QED
      BY <3>1 DEF Adding
  <2> QED
    BY <2>1
<1>2. ASSUME NEW n \in N PROVE n + 1 \in N
  <2>1. PICK old : Upto(n, old)
    BY <1>2
  <2> DEFINE new == [s \in SUBSET S |-> Adding(fun, old, s)]
  <2>2. ASSUME NEW s \in SUBSET S, Cardinality(s) <= n + 1
        PROVE  new[s] = Adding(fun, new, s)
    <3>1. CASE s = {}
      BY <3>1 DEF Adding
    <3>2. CASE s # {}
      <4> DEFINE t == s \ {Chosen(s)}
      <4>1. t \in SUBSET S /\ Cardinality(t) = Cardinality(s) - 1
        BY <1>0, <3>2, ChosenIsIn, FS_RemoveElement
      <4>2. Cardinality(t) <= n
        BY <1>0, <2>2, <4>1
      <4>3. new[t] = old[t]
        BY <2>1, <4>1, <4>2
      <4> QED
        BY <3>2, <4>3 DEF Adding
    <3> QED
      BY <3>1, <3>2
  <2>3. Upto(n + 1, new)
    BY <2>2
  <2> HIDE DEF new, Upto
  <2>4. \E sum : Upto(n + 1, sum)
    BY <2>3
  <2> QED
    BY <2>4, <1>2
<1> HIDE DEF Upto
<1>3. N = Nat
  BY <1>1, <1>2, AllOfNat
<1>4. PICK sum : Upto(Cardinality(S), sum)
  BY <1>3, FS_CardinalityType
<1> DEFINE all == [s \in SUBSET S |-> sum[s]]
<1>5. ASSUME NEW s \in SUBSET S PROVE Adding(fun, sum, s) = Adding(fun, all, s)
  <2>1. s \ {Chosen(s)} \in SUBSET S
    OBVIOUS
  <2> QED
    BY <2>1 DEF Adding
<1>6. \A s \in SUBSET S : sum[s] = Adding(fun, sum, s)
  BY <1>0, <1>4 DEF Upto
<1>7. IsSum(all, fun, S)
  BY <1>5, <1>6 DEF IsSum
<1> HIDE DEF all
<1> QED
  BY <1>7

TheSum(fun, S) == CHOOSE sum : IsSum(sum, fun, S)
LEMMA SumUnfolds ==
  ASSUME NEW S, IsFiniteSet(S), NEW fun
  PROVE  /\ SumFunctionOnSet(fun, S) = TheSum(fun, S)[S]
         /\ \A s \in SUBSET S : TheSum(fun, S)[s] = Adding(fun, TheSum(fun, S), s)
<1>1. SumFunctionOnSet(fun, S) = TheSum(fun, S)[S]
  BY Zenon DEF SumFunctionOnSet, FoldFunctionOnSet, MapThenFoldSet, TheSum, IsSum, Adding, Chosen
<1>2. IsSum(TheSum(fun, S), fun, S)
  BY SumExists, Zenon DEF TheSum
<1>3. \A s \in SUBSET S : TheSum(fun, S)[s] = Adding(fun, TheSum(fun, S), s)
  BY <1>2, Zenon DEF IsSum
<1> QED
  BY <1>1, <1>3

LEMMA SumOfNaturals ==
  ASSUME NEW S, IsFiniteSet(S), NEW fun, \A x \in S : fun[x] \in Nat
  PROVE  SumFunctionOnSet(fun, S) \in Nat
<1> DEFINE sum == TheSum(fun, S)
           N == {n \in Nat : \A s \in SUBSET S : Cardinality(s) = n => sum[s] \in Nat}
<1>0. \A s \in SUBSET S : IsFiniteSet(s) /\ Cardinality(s) \in Nat
                          /\ (Cardinality(s) = 0 <=> s = {})
                          /\ sum[s] = Adding(fun, sum, s)
  BY FS_Subset, FS_CardinalityType, FS_EmptySet, SumUnfolds
<1> HIDE DEF sum
<1>1. 0 \in N
  BY <1>0 DEF Adding
<1>2. ASSUME NEW n \in N PROVE n + 1 \in N
  <2> SUFFICES ASSUME NEW s \in SUBSET S, Cardinality(s) = n + 1 PROVE sum[s] \in Nat
    BY <1>2
  <2>1. s # {} /\ Chosen(s) \in s
    BY <1>0, <1>2, ChosenIsIn
  <2>2. s \ {Chosen(s)} \in SUBSET S /\ Cardinality(s \ {Chosen(s)}) = n
    BY <1>0, <1>2, <2>1, FS_RemoveElement, SMTT(30)
  <2>3. sum[s \ {Chosen(s)}] \in Nat
    BY <1>2, <2>2
  <2>4. fun[Chosen(s)] \in Nat
    BY <2>1
  <2>5. sum[s] = Adding(fun, sum, s)
    BY <1>0
  <2> QED
    BY <2>1, <2>3, <2>4, <2>5 DEF Adding
<1>3. N = Nat
  BY <1>1, <1>2, AllOfNat
<1>4. sum[S] \in Nat
  BY <1>3, <1>0
<1> QED
  BY <1>4, SumUnfolds DEF sum

LEMMA EmptySum == \A fun : SumFunctionOnSet(fun, {}) = 0
<1> TAKE fun
<1>1. SumFunctionOnSet(fun, {}) = TheSum(fun, {})[{}]
      /\ TheSum(fun, {})[{}] = Adding(fun, TheSum(fun, {}), {})
  BY SumUnfolds, FS_EmptySet
<1> QED
  BY <1>1 DEF Adding

-----------------------------------------------------------------------------
(* Ordering: the number of elements before an element is its place, so      *)
(* InOrder lists the set, each element once, by growing key.                *)
LEMMA InOrderSorts ==
  ASSUME NEW S, IsFiniteSet(S), NEW key, \A x \in S : key[x] \in Int,
         \A x, y \in S : key[x] = key[y] => x = y
  PROVE  /\ InOrder(S, key) \in [1 .. Cardinality(S) -> S]
         /\ \A x \in S : \E n \in 1 .. Cardinality(S) : InOrder(S, key)[n] = x
         /\ \A m, n \in 1 .. Cardinality(S) :
               m < n => key[InOrder(S, key)[m]] < key[InOrder(S, key)[n]]
<1> DEFINE Smaller(x) == {y \in S : key[y] < key[x]}
           N == Cardinality(S)
           rank == [x \in S |-> Cardinality(Smaller(x))]
           list == InOrder(S, key)
<1>0. N \in Nat
  BY FS_CardinalityType
<1>1. ASSUME NEW x \in S
      PROVE  IsFiniteSet(Smaller(x)) /\ rank[x] \in 0 .. N - 1
  <2>1. Smaller(x) \in SUBSET (S \ {x})
    OBVIOUS
  <2>2. IsFiniteSet(S \ {x}) /\ Cardinality(S \ {x}) = N - 1
    BY FS_RemoveElement
  <2>3. /\ IsFiniteSet(Smaller(x)) /\ Cardinality(Smaller(x)) <= N - 1
        /\ Cardinality(Smaller(x)) \in Nat
    BY <2>1, <2>2, FS_Subset, FS_CardinalityType
  <2> HIDE DEF Smaller, N
  <2> QED
    BY <2>3, <1>0
<1>2. ASSUME NEW x \in S, NEW y \in S, key[x] < key[y] PROVE rank[x] < rank[y]
  <2>1. Smaller(x) \in SUBSET Smaller(y) /\ x \in Smaller(y) /\ x \notin Smaller(x)
    BY <1>2
  <2>2. Smaller(x) # Smaller(y)
    BY <2>1
  <2> HIDE DEF Smaller
  <2>3. IsFiniteSet(Smaller(y)) /\ Cardinality(Smaller(y)) \in Nat
        /\ Cardinality(Smaller(x)) \in Nat
    BY <1>1, FS_CardinalityType
  <2>4. Cardinality(Smaller(x)) <= Cardinality(Smaller(y))
        /\ Cardinality(Smaller(x)) # Cardinality(Smaller(y))
    BY <2>1, <2>2, <2>3, FS_Subset
  <2> QED
    BY <2>3, <2>4
<1>a. rank \in [S -> 0 .. N - 1]
  BY <1>1
<1> HIDE DEF rank, N
<1>b. \A x \in S : rank[x] \in Int
  BY <1>0, <1>a
<1>3. \A x, y \in S : key[x] < key[y] <=> rank[x] < rank[y]
  <2> SUFFICES ASSUME NEW x \in S, NEW y \in S, rank[x] < rank[y]
               PROVE  key[x] < key[y]
    BY <1>2
  <2>1. rank[x] \in Int /\ rank[y] \in Int
    BY <1>b
  <2>2. ~(key[y] < key[x]) /\ key[x] # key[y]
    BY <1>2, <2>1
  <2> QED
    BY <2>2
<1>4. \A x, y \in S : rank[x] = rank[y] => x = y
  <2> SUFFICES ASSUME NEW x \in S, NEW y \in S, rank[x] = rank[y] PROVE x = y
    OBVIOUS
  <2>1. rank[x] \in Int /\ rank[y] \in Int
    BY <1>b
  <2>2. ~(key[y] < key[x]) /\ ~(key[x] < key[y])
    BY <1>2, <2>1
  <2> QED
    BY <2>2
<1>5. rank \in Surjection(S, 0 .. N - 1)
  <2>1. IsFiniteSet(0 .. N - 1) /\ Cardinality(0 .. N - 1) = N
    BY <1>0, FS_Interval
  <2>2. rank \in Injection(S, 0 .. N - 1)
    BY <1>a, <1>4 DEF Injection, IsInjective
  <2> QED
    BY <2>1, <2>2, FS_Injection DEF N
<1>6. ASSUME NEW n \in 1 .. N PROVE list[n] \in S /\ rank[list[n]] = n - 1
  <2>1. n - 1 \in 0 .. N - 1
    BY <1>0
  <2>2. PICK x \in S : rank[x] = n - 1
    BY <1>5, <2>1 DEF Surjection
  <2>3. Cardinality(Smaller(x)) = n - 1
    BY <2>2 DEF rank
  <2>4. list[n] = CHOOSE z \in S : Cardinality(Smaller(z)) = n - 1
    BY DEF InOrder, N
  <2> HIDE DEF list
  <2>5. list[n] \in S /\ Cardinality(Smaller(list[n])) = n - 1
    BY <2>3, <2>4
  <2> QED
    BY <2>5 DEF rank
<1>7. list \in [1 .. N -> S]
  <2> DEFINE at(n) == CHOOSE x \in S : Cardinality(Smaller(x)) = n - 1
  <2>1. list = [n \in 1 .. N |-> at(n)]
    BY DEF InOrder, N
  <2> HIDE DEF list, at
  <2> QED
    BY <1>6, <2>1
<1> HIDE DEF list
<1>8. ASSUME NEW x \in S PROVE \E n \in 1 .. N : list[n] = x
  <2> DEFINE n == rank[x] + 1
  <2>1. n \in 1 .. N /\ rank[x] = n - 1
    <3>1. rank[x] \in 0 .. N - 1
      BY <1>1
    <3> QED
      BY <1>0, <3>1
  <2> HIDE DEF n
  <2>2. list[n] \in S /\ rank[list[n]] = rank[x]
    BY <1>6, <2>1
  <2>3. list[n] = x
    BY <1>4, <2>2
  <2> QED
    BY <2>1, <2>3
<1>9. ASSUME NEW m \in 1 .. N, NEW n \in 1 .. N, m < n
      PROVE  key[list[m]] < key[list[n]]
  <2>1. rank[list[m]] < rank[list[n]]
    BY <1>6, <1>9
  <2> QED
    BY <1>3, <1>6, <2>1
<1> QED
  BY <1>7, <1>8, <1>9 DEF list, N

-----------------------------------------------------------------------------
(* Flattening: the recursion of the library's function again, and what it    *)
(* makes of two lists of sequences joined.                                  *)
Joining(seqs, f, i) == IF i = 1 THEN seqs[i] ELSE f[i - 1] \o seqs[i]
IsFlattening(f, seqs) == f = [i \in 1 .. Len(seqs) |-> Joining(seqs, f, i)]
TheFlattening(seqs) == CHOOSE f : IsFlattening(f, seqs)

LEMMA FlatteningExists ==
  ASSUME NEW seqs, Len(seqs) \in Nat
  PROVE  \E f : IsFlattening(f, seqs)
<1> DEFINE L == Len(seqs)
           Upto(n, f) == \A i \in 1 .. L : i <= n => f[i] = Joining(seqs, f, i)
           N == {n \in Nat : \E f : Upto(n, f)}
<1>1. 0 \in N
  <2>1. \A f : Upto(0, f)
    OBVIOUS
  <2> QED
    BY <2>1
<1>2. ASSUME NEW n \in N PROVE n + 1 \in N
  <2>1. PICK old : Upto(n, old)
    BY <1>2
  <2> DEFINE new == [i \in 1 .. L |-> Joining(seqs, old, i)]
  <2>2. ASSUME NEW i \in 1 .. L, i <= n + 1 PROVE new[i] = Joining(seqs, new, i)
    <3>1. CASE i = 1
      BY <3>1 DEF Joining
    <3>2. CASE i # 1
      <4>1. i - 1 \in 1 .. L /\ i - 1 <= n
        BY <1>2, <2>2, <3>2
      <4>2. new[i - 1] = old[i - 1]
        BY <2>1, <4>1
      <4> QED
        BY <3>2, <4>2 DEF Joining
    <3> QED
      BY <3>1, <3>2
  <2>3. Upto(n + 1, new)
    BY <2>2
  <2> HIDE DEF new, Upto
  <2>4. \E f : Upto(n + 1, f)
    BY <2>3
  <2> QED
    BY <2>4, <1>2
<1> HIDE DEF Upto
<1>3. N = Nat
  BY <1>1, <1>2, AllOfNat
<1>4. PICK f : Upto(L, f)
  BY <1>3
<1> DEFINE all == [i \in 1 .. L |-> f[i]]
<1>5. ASSUME NEW i \in 1 .. L PROVE f[i] = Joining(seqs, all, i)
  <2>1. f[i] = Joining(seqs, f, i)
    BY <1>4 DEF Upto
  <2>2. i # 1 => i - 1 \in 1 .. L
    OBVIOUS
  <2> QED
    BY <2>1, <2>2 DEF Joining
<1>6. IsFlattening(all, seqs)
  BY <1>5 DEF IsFlattening
<1> HIDE DEF all
<1> QED
  BY <1>6

LEMMA FlattenUnfolds ==
  ASSUME NEW seqs, Len(seqs) \in Nat \ {0}
  PROVE  /\ FlattenSeq(seqs) = TheFlattening(seqs)[Len(seqs)]
         /\ \A i \in 1 .. Len(seqs) :
               TheFlattening(seqs)[i] = Joining(seqs, TheFlattening(seqs), i)
<1>1. FlattenSeq(seqs) = TheFlattening(seqs)[Len(seqs)]
  BY Zenon DEF FlattenSeq, TheFlattening, IsFlattening, Joining
<1>2. IsFlattening(TheFlattening(seqs), seqs)
  BY FlatteningExists, Zenon DEF TheFlattening
<1>3. \A i \in 1 .. Len(seqs) :
         TheFlattening(seqs)[i] = Joining(seqs, TheFlattening(seqs), i)
  BY <1>2, Zenon DEF IsFlattening
<1> QED
  BY <1>1, <1>3

LEMMA FlattenTypes ==
  ASSUME NEW D, NEW seqs \in Seq(Seq(D)), seqs # <<>>
  PROVE  /\ Len(seqs) \in Nat \ {0}
         /\ \A i \in 1 .. Len(seqs) : TheFlattening(seqs)[i] \in Seq(D)
<1> DEFINE f == TheFlattening(seqs)
           N == {n \in Nat : \A i \in 1 .. Len(seqs) : i <= n => f[i] \in Seq(D)}
<1>0. Len(seqs) \in Nat \ {0} /\ \A i \in 1 .. Len(seqs) : seqs[i] \in Seq(D)
  OBVIOUS
<1>1. \A i \in 1 .. Len(seqs) : f[i] = Joining(seqs, f, i)
  BY <1>0, FlattenUnfolds
<1> HIDE DEF f
<1>2. 0 \in N
  OBVIOUS
<1>3. ASSUME NEW n \in N PROVE n + 1 \in N
  <2>n. n + 1 \in Nat
    BY <1>3
  <2> SUFFICES ASSUME NEW i \in 1 .. Len(seqs), i <= n + 1 PROVE f[i] \in Seq(D)
    BY <2>n, Zenon
  <2>1. CASE i = 1
    BY <1>0, <1>1, <2>1 DEF Joining
  <2>2. CASE i # 1
    <3>1. i - 1 \in 1 .. Len(seqs) /\ i - 1 <= n
      BY <1>0, <1>3, <2>2
    <3>2. f[i - 1] \in Seq(D) /\ seqs[i] \in Seq(D)
      BY <1>0, <1>3, <3>1
    <3>3. f[i] = f[i - 1] \o seqs[i]
      BY <1>1, <2>2 DEF Joining
    <3> QED
      BY <3>2, <3>3
  <2> QED
    BY <2>1, <2>2
<1>4. N = Nat
  BY <1>2, <1>3, AllOfNat
<1>5. Len(seqs) \in N
  BY <1>0, <1>4
<1>6. \A i \in 1 .. Len(seqs) : f[i] \in Seq(D)
  BY <1>0, <1>5
<1> QED
  BY <1>0, <1>6 DEF f

LEMMA FlattenOne == \A s : FlattenSeq(<<s>>) = s
<1> TAKE s
<1> DEFINE one == <<s>>
<1>1. Len(one) = 1 /\ one[1] = s
  OBVIOUS
<1> HIDE DEF one
<1>2. Len(one) \in Nat \ {0} /\ 1 \in 1 .. Len(one)
  BY <1>1
<1>3. FlattenSeq(one) = TheFlattening(one)[1]
      /\ TheFlattening(one)[1] = Joining(one, TheFlattening(one), 1)
  BY <1>1, <1>2, FlattenUnfolds
<1>4. FlattenSeq(one) = s
  BY <1>1, <1>3 DEF Joining
<1> QED
  BY <1>4 DEF one

LEMMA FlattenEmpty == FlattenSeq(<<>>) = <<>>
  BY DEF FlattenSeq

Joined(x, y) == x \o y
LEMMA Associates ==
  \A D : \A x, y, z \in Seq(D) : Joined(Joined(x, y), z) = Joined(x, Joined(y, z))
  BY ConcatAssociative DEF Joined

LEMMA FlattenConcat ==
  ASSUME NEW D, NEW a \in Seq(Seq(D)), NEW b \in Seq(Seq(D)), a # <<>>, b # <<>>
  PROVE  FlattenSeq(a \o b) = FlattenSeq(a) \o FlattenSeq(b)
<1>f. \A x, y, z \in Seq(D) : Joined(Joined(x, y), z) = Joined(x, Joined(y, z))
  BY Associates
<1> DEFINE ab == a \o b
           f == TheFlattening(a)
           g == TheFlattening(b)
           h == TheFlattening(ab)
           k == Len(a)
           l == Len(b)
<1>0. k \in Nat \ {0} /\ l \in Nat \ {0}
  BY EmptySeq
<1>a. /\ ab \in Seq(Seq(D)) /\ Len(ab) = k + l
      /\ \A i \in 1 .. k : ab[i] = a[i]
      /\ \A i \in 1 .. l : ab[k + i] = b[i]
  OBVIOUS
<1>b. ab # <<>> /\ Len(ab) \in Nat \ {0}
  BY <1>0, <1>a
<1>c. \A i \in 1 .. l : b[i] \in Seq(D)
  OBVIOUS
<1>1. /\ FlattenSeq(a) = f[k]
      /\ \A i \in 1 .. k : f[i] \in Seq(D) /\ f[i] = Joining(a, f, i)
  BY <1>0, FlattenUnfolds, FlattenTypes
<1>2. /\ FlattenSeq(b) = g[l]
      /\ \A i \in 1 .. l : g[i] \in Seq(D) /\ g[i] = Joining(b, g, i)
  BY <1>0, FlattenUnfolds, FlattenTypes
<1>d. FlattenSeq(ab) = h[Len(ab)] /\ \A i \in 1 .. Len(ab) : h[i] = Joining(ab, h, i)
  BY <1>b, FlattenUnfolds
<1> HIDE DEF f, g, h, ab, k, l
<1>e. FlattenSeq(ab) = h[k + l] /\ \A i \in 1 .. k + l : h[i] = Joining(ab, h, i)
  BY <1>a, <1>d
<1>3. h[k] = f[k]
  <2> DEFINE N == {n \in Nat : \A i \in 1 .. k : i <= n => h[i] = f[i]}
  <2>1. 0 \in N
    BY <1>0
  <2>2. ASSUME NEW n \in N PROVE n + 1 \in N
    <3>n. n + 1 \in Nat
      BY <2>2
    <3> SUFFICES ASSUME NEW i \in 1 .. k, i <= n + 1 PROVE h[i] = f[i]
      BY <3>n, Zenon
    <3>0. n \in Nat /\ i \in Nat \ {0} /\ i \in 1 .. k + l
      BY <1>0, <2>2
    <3>1. h[i] = Joining(ab, h, i) /\ f[i] = Joining(a, f, i) /\ ab[i] = a[i]
      BY <1>1, <1>a, <1>e, <3>0
    <3>2. CASE i = 1
      BY <3>1, <3>2 DEF Joining
    <3>3. CASE i # 1
      <4>1. i - 1 \in 1 .. k /\ i - 1 <= n
        BY <1>0, <3>0, <3>3
      <4>2. h[i - 1] = f[i - 1]
        BY <2>2, <4>1
      <4> QED
        BY <3>1, <3>3, <4>2 DEF Joining
    <3> QED
      BY <3>2, <3>3
  <2>3. N = Nat
    BY <2>1, <2>2, AllOfNat
  <2>4. k \in Nat /\ k \in 1 .. k /\ k <= k
    BY <1>0
  <2>5. k \in N
    BY <2>3, <2>4
  <2> QED
    BY <2>4, <2>5
<1>4. h[k + l] = f[k] \o g[l]
  <2> DEFINE J(i) == Joined(f[k], g[i])
             N == {n \in Nat : \A i \in 1 .. l : i <= n => h[k + i] = J(i)}
  <2> HIDE DEF J
  <2>1. 0 \in N
    BY <1>0
  <2>2. ASSUME NEW n \in N PROVE n + 1 \in N
    <3>n. n + 1 \in Nat
      BY <2>2
    <3> SUFFICES ASSUME NEW i \in 1 .. l, i <= n + 1 PROVE h[k + i] = J(i)
      BY <3>n, Zenon
    <3>0. n \in Nat /\ i \in Nat \ {0} /\ k + i \in 1 .. k + l /\ k + i # 1
          /\ (k + i) - 1 = k + (i - 1)
      BY <1>0, <2>2
    <3>1. h[k + i] = Joining(ab, h, k + i) /\ g[i] = Joining(b, g, i) /\ ab[k + i] = b[i]
      BY <1>2, <1>a, <1>e, <3>0
    <3>2. h[k + i] = Joined(h[k + (i - 1)], b[i])
      BY <3>0, <3>1 DEF Joining, Joined
    <3>3. CASE i = 1
      <4>1. k + (i - 1) = k
        BY <1>0, <3>3
      <4>2. g[i] = b[i]
        BY <3>1, <3>3 DEF Joining
      <4> QED
        BY <1>3, <3>2, <4>1, <4>2 DEF J
    <3>4. CASE i # 1
      <4>1. i - 1 \in 1 .. l /\ i - 1 <= n
        BY <1>0, <3>0, <3>4
      <4>2. h[k + (i - 1)] = J(i - 1)
        BY <2>2, <4>1
      <4>3. k \in 1 .. k
        BY <1>0
      <4>4. f[k] \in Seq(D) /\ g[i - 1] \in Seq(D) /\ b[i] \in Seq(D)
        BY <1>1, <1>2, <1>c, <4>1, <4>3
      <4>5. Joined(Joined(f[k], g[i - 1]), b[i]) = Joined(f[k], Joined(g[i - 1], b[i]))
        BY <1>f, <4>4, Zenon
      <4>6. g[i] = Joined(g[i - 1], b[i])
        BY <3>1, <3>4 DEF Joining, Joined
      <4> QED
        BY <3>2, <4>2, <4>5, <4>6 DEF J
    <3> QED
      BY <3>3, <3>4
  <2>3. N = Nat
    BY <2>1, <2>2, AllOfNat
  <2>4. l \in Nat /\ l \in 1 .. l /\ l <= l
    BY <1>0
  <2>5. l \in N
    BY <2>3, <2>4
  <2>6. h[k + l] = J(l)
    BY <2>4, <2>5
  <2> QED
    BY <2>6 DEF J, Joined
<1>5. FlattenSeq(ab) = FlattenSeq(a) \o FlattenSeq(b)
  BY <1>1, <1>2, <1>3, <1>4, <1>e
<1> QED
  BY <1>5 DEF ab

-----------------------------------------------------------------------------
(* Chunking: halves of a sequence are shorter and make it up again, so the   *)
(* recursion defines a function, by induction on the length of its argument. *)
FirstHalf(p) == SubSeq(p, 1, Len(p) \div 2)
SecondHalf(p) == SubSeq(p, Len(p) \div 2 + 1, Len(p))
Fits(p) == LocatorCost(p) <= DelegatedLimit
Halving(f, p) == IF Fits(p) \/ Len(p) <= 1 THEN <<p>>
                 ELSE f[FirstHalf(p)] \o f[SecondHalf(p)]
IsChunking(f) == f = [p \in Seq(DOMAIN view) |-> Halving(f, p)]
ChunksUpto(n, f) == \A p \in Seq(DOMAIN view) : Len(p) <= n => f[p] = Halving(f, p)

LEMMA Halves ==
  ASSUME NEW D, NEW p \in Seq(D), ~(Len(p) <= 1)
  PROVE  /\ FirstHalf(p) \in Seq(D) /\ SecondHalf(p) \in Seq(D)
         /\ Len(FirstHalf(p)) \in Nat /\ Len(FirstHalf(p)) < Len(p)
         /\ Len(SecondHalf(p)) \in Nat /\ Len(SecondHalf(p)) < Len(p)
         /\ FirstHalf(p) \o SecondHalf(p) = p
<1> DEFINE half == Len(p) \div 2
<1>1. Len(p) \in Nat /\ half \in 1 .. Len(p) - 1 /\ half + 1 \in 2 .. Len(p)
  OBVIOUS
<1> HIDE DEF half
<1>2. /\ SubSeq(p, 1, half) \in Seq(D) /\ Len(SubSeq(p, 1, half)) = half
      /\ SubSeq(p, half + 1, Len(p)) \in Seq(D)
      /\ Len(SubSeq(p, half + 1, Len(p))) = Len(p) - half
  BY <1>1, SubSeqProperties
<1>3. SubSeq(p, 1, half) \o SubSeq(p, half + 1, Len(p)) = p
  BY <1>1, ConcatAdjacentSubSeq, SubSeqFull
<1> QED
  BY <1>1, <1>2, <1>3, SMTT(30) DEF half, FirstHalf, SecondHalf

LEMMA HalvingDepends ==
  ASSUME NEW f, NEW g, NEW p \in Seq(DOMAIN view),
         \A q \in Seq(DOMAIN view) : Len(q) < Len(p) => f[q] = g[q]
  PROVE  Halving(f, p) = Halving(g, p)
<1>1. CASE Fits(p) \/ Len(p) <= 1
  BY <1>1 DEF Halving
<1>2. CASE ~Fits(p) /\ ~(Len(p) <= 1)
  <2>1. f[FirstHalf(p)] = g[FirstHalf(p)] /\ f[SecondHalf(p)] = g[SecondHalf(p)]
    BY <1>2, Halves
  <2> QED
    BY <1>2, <2>1 DEF Halving
<1> QED
  BY <1>1, <1>2

LEMMA ChunksToAnyLength == \A n \in Nat : \E f : ChunksUpto(n, f)
<1> DEFINE D == DOMAIN view
           N == {n \in Nat : \E f : ChunksUpto(n, f)}
<1>0. \A p \in Seq(D) : Len(p) \in Nat
  OBVIOUS
<1>1. 0 \in N
  <2> DEFINE f == [p \in Seq(D) |-> <<p>>]
  <2>1. ASSUME NEW p \in Seq(D), Len(p) <= 0 PROVE f[p] = Halving(f, p)
    <3>1. Len(p) <= 1
      BY <1>0, <2>1
    <3> QED
      BY <3>1 DEF Halving
  <2> HIDE DEF f
  <2>2. ChunksUpto(0, f)
    BY <2>1 DEF ChunksUpto
  <2> QED
    BY <2>2
<1>2. ASSUME NEW n \in N PROVE n + 1 \in N
  <2>1. PICK old : ChunksUpto(n, old)
    BY <1>2
  <2> DEFINE new == [p \in Seq(D) |-> Halving(old, p)]
  <2>2. ASSUME NEW p \in Seq(D), Len(p) <= n + 1 PROVE new[p] = Halving(new, p)
    <3>1. ASSUME NEW q \in Seq(D), Len(q) < Len(p) PROVE old[q] = new[q]
      <4>1. Len(q) <= n
        BY <1>0, <1>2, <2>2, <3>1
      <4> QED
        BY <2>1, <4>1 DEF ChunksUpto
    <3> HIDE DEF new
    <3>2. Halving(old, p) = Halving(new, p)
      BY <3>1, HalvingDepends
    <3> QED
      BY <3>2 DEF new
  <2>3. ChunksUpto(n + 1, new)
    BY <2>2 DEF ChunksUpto
  <2> HIDE DEF new
  <2>4. \E f : ChunksUpto(n + 1, f)
    BY <2>3
  <2> QED
    BY <2>4, <1>2
<1>3. N = Nat
  BY <1>1, <1>2, AllOfNat
<1> QED
  BY <1>3

LEMMA ChunksAgree ==
  ASSUME NEW m \in Nat, NEW n \in Nat, NEW f, NEW g, ChunksUpto(m, f), ChunksUpto(n, g),
         NEW p \in Seq(DOMAIN view), Len(p) <= m, Len(p) <= n
  PROVE  f[p] = g[p]
<1> DEFINE D == DOMAIN view
           N == {k \in Nat : \A q \in Seq(D) :
                                Len(q) <= k /\ k <= m /\ k <= n => f[q] = g[q]}
<1>0. \A q \in Seq(D) : Len(q) \in Nat
  OBVIOUS
<1>1. 0 \in N
  <2>1. \A q \in Seq(D) : Len(q) <= 0 => f[q] = Halving(f, q) /\ g[q] = Halving(g, q)
                                         /\ Halving(f, q) = Halving(g, q)
    BY <1>0 DEF ChunksUpto, Halving
  <2> QED
    BY <2>1
<1>2. ASSUME NEW k \in N PROVE k + 1 \in N
  <2> SUFFICES ASSUME NEW q \in Seq(D), Len(q) <= k + 1, k + 1 <= m, k + 1 <= n
               PROVE  f[q] = g[q]
    BY <1>2
  <2>1. k \in Nat /\ k <= m /\ k <= n /\ Len(q) <= m /\ Len(q) <= n
    BY <1>0, <1>2
  <2>2. \A r \in Seq(D) : Len(r) < Len(q) => f[r] = g[r]
    <3> SUFFICES ASSUME NEW r \in Seq(D), Len(r) < Len(q) PROVE f[r] = g[r]
      OBVIOUS
    <3>1. Len(r) <= k
      BY <1>0, <2>1
    <3> QED
      BY <1>2, <2>1, <3>1
  <2>3. Halving(f, q) = Halving(g, q)
    BY <2>2, HalvingDepends
  <2> QED
    BY <2>1, <2>3 DEF ChunksUpto
<1>3. N = Nat
  BY <1>1, <1>2, AllOfNat
<1>4. Len(p) \in N
  BY <1>0, <1>3
<1> QED
  BY <1>0, <1>4

LEMMA ChunkingExists == \E f : IsChunking(f)
<1> DEFINE D == DOMAIN view
           some(n) == CHOOSE f : ChunksUpto(n, f)
           all == [p \in Seq(D) |-> some(Len(p))[p]]
<1>0. \A p \in Seq(D) : Len(p) \in Nat
  OBVIOUS
<1>1. \A n \in Nat : ChunksUpto(n, some(n))
  BY ChunksToAnyLength
<1>2. ASSUME NEW p \in Seq(D) PROVE some(Len(p))[p] = Halving(all, p)
  <2>1. some(Len(p))[p] = Halving(some(Len(p)), p)
    BY <1>0, <1>1 DEF ChunksUpto
  <2>2. ASSUME NEW q \in Seq(D), Len(q) < Len(p) PROVE some(Len(p))[q] = all[q]
    <3>1. all[q] = some(Len(q))[q]
      OBVIOUS
    <3> HIDE DEF some, all
    <3>2. Len(q) <= Len(p) /\ Len(q) <= Len(q)
      BY <1>0, <2>2
    <3>3. some(Len(p))[q] = some(Len(q))[q]
      BY <1>0, <1>1, <3>2, ChunksAgree
    <3> QED
      BY <3>1, <3>3
  <2> HIDE DEF some, all
  <2>3. Halving(some(Len(p)), p) = Halving(all, p)
    BY <2>2, HalvingDepends
  <2> QED
    BY <2>1, <2>3
<1>3. IsChunking(all)
  BY <1>2 DEF IsChunking
<1> HIDE DEF all
<1> QED
  BY <1>3

LEMMA ChunksUnfold == \A p \in Seq(DOMAIN view) : Chunks[p] = Halving(Chunks, p)
<1>1. Chunks = CHOOSE f : IsChunking(f)
  BY Zenon DEF Chunks, IsChunking, Halving, Fits, FirstHalf, SecondHalf
<1>2. IsChunking(Chunks)
  BY <1>1, ChunkingExists, Zenon
<1> QED
  BY <1>2, Zenon DEF IsChunking

(* The chunks of pages each of which fits: they make up the pages again, and *)
(* each of them fits.                                                        *)
Chunked(p) ==
    /\ Chunks[p] \in Seq(Seq(DOMAIN view)) /\ Chunks[p] # <<>>
    /\ FlattenSeq(Chunks[p]) = p
    /\ \A i \in DOMAIN Chunks[p] : Fits(Chunks[p][i])

LEMMA OneChunk ==
  ASSUME NEW p \in Seq(DOMAIN view), Chunks[p] = <<p>>, Fits(p)
  PROVE  Chunked(p)
<1> DEFINE one == <<p>>
<1>1. /\ one \in Seq(Seq(DOMAIN view)) /\ one # <<>>
      /\ \A i \in DOMAIN one : one[i] = p
  OBVIOUS
<1>2. FlattenSeq(one) = p
  BY FlattenOne
<1> HIDE DEF one
<1>3. Chunks[p] = one
  BY DEF one
<1> QED
  BY <1>1, <1>2, <1>3 DEF Chunked

LEMMA JoinedChunks ==
  ASSUME NEW p \in Seq(DOMAIN view), NEW q \in Seq(DOMAIN view), NEW r \in Seq(DOMAIN view),
         Chunked(q), Chunked(r), Chunks[p] = Chunks[q] \o Chunks[r], q \o r = p
  PROVE  Chunked(p)
<1> DEFINE a == Chunks[q]
           b == Chunks[r]
           ab == a \o b
<1>1. /\ a \in Seq(Seq(DOMAIN view)) /\ a # <<>> /\ FlattenSeq(a) = q
      /\ b \in Seq(Seq(DOMAIN view)) /\ b # <<>> /\ FlattenSeq(b) = r
      /\ \A i \in DOMAIN a : Fits(a[i])
      /\ \A i \in DOMAIN b : Fits(b[i])
  BY DEF Chunked
<1> HIDE DEF a, b
<1>2. /\ ab \in Seq(Seq(DOMAIN view)) /\ ab # <<>> /\ DOMAIN ab = 1 .. Len(a) + Len(b)
      /\ DOMAIN a = 1 .. Len(a) /\ DOMAIN b = 1 .. Len(b)
      /\ Len(a) \in Nat /\ Len(b) \in Nat
      /\ \A i \in 1 .. Len(a) + Len(b) : ab[i] = IF i <= Len(a) THEN a[i] ELSE b[i - Len(a)]
  BY <1>1, ConcatProperties, ConcatEqualIffEmpty
<1>3. FlattenSeq(ab) = q \o r
  BY <1>1, FlattenConcat
<1> HIDE DEF ab
<1>4. ASSUME NEW i \in DOMAIN ab PROVE Fits(ab[i])
  <2>1. CASE i <= Len(a)
    <3>1. i \in DOMAIN a
      BY <1>2, <2>1
    <3> QED
      BY <1>1, <1>2, <2>1, <3>1
  <2>2. CASE ~(i <= Len(a))
    <3>1. i - Len(a) \in DOMAIN b
      BY <1>2, <2>2
    <3> QED
      BY <1>1, <1>2, <2>2, <3>1
  <2> QED
    BY <2>1, <2>2
<1>5. Chunks[p] = ab
  BY DEF ab, a, b
<1> QED
  BY <1>2, <1>3, <1>4, <1>5 DEF Chunked

LEMMA RangeOfJoined ==
  \A D : \A a, b \in Seq(D) : Range(Joined(a, b)) = Range(a) \cup Range(b)
  BY RangeConcatenation DEF Joined

LEMMA NoneOrOne == \A n \in Nat : n <= 1 => n = 0 \/ n = 1
  OBVIOUS

LEMMA ChunksFit ==
  ASSUME NEW p \in Seq(DOMAIN view), Fits(<<>>), \A n \in Range(p) : Fits(<<n>>)
  PROVE  Chunked(p)
<1> DEFINE D == DOMAIN view
           N == {k \in Nat : \A q \in Seq(D) :
                    Len(q) <= k /\ (\A n \in Range(q) : Fits(<<n>>)) => Chunked(q)}
<1>0. \A q \in Seq(D) : Len(q) \in Nat
  OBVIOUS
<1>1. ASSUME NEW q \in Seq(D), Fits(q) \/ Len(q) <= 1, \A n \in Range(q) : Fits(<<n>>)
      PROVE  Chunked(q)
  <2>1. Chunks[q] = <<q>>
    BY <1>1, ChunksUnfold DEF Halving
  <2>2. CASE Fits(q)
    BY <2>1, <2>2, OneChunk
  <2>3. CASE Len(q) <= 1
    <3>1. Len(q) = 0 => q = <<>>
      OBVIOUS
    <3>2. Len(q) = 1 => q = <<q[1]>> /\ 1 \in DOMAIN q
      OBVIOUS
    <3>a. 1 \in DOMAIN q => q[1] \in Range(q)
      BY DEF Range
    <3>3. Len(q) = 0 \/ Len(q) = 1
      BY <1>0, <2>3, NoneOrOne
    <3>4. Fits(q)
      BY <1>1, <3>1, <3>2, <3>a, <3>3
    <3> QED
      BY <2>1, <3>4, OneChunk
  <2> QED
    BY <1>1, <2>2, <2>3
<1>2. 0 \in N
  <2> SUFFICES ASSUME NEW q \in Seq(D), Len(q) <= 0, \A n \in Range(q) : Fits(<<n>>)
               PROVE  Chunked(q)
    OBVIOUS
  <2>1. Len(q) <= 1
    BY <1>0
  <2> QED
    BY <1>1, <2>1
<1>3. ASSUME NEW k \in N PROVE k + 1 \in N
  <2> SUFFICES ASSUME NEW q \in Seq(D), Len(q) <= k + 1, \A n \in Range(q) : Fits(<<n>>)
               PROVE  Chunked(q)
    BY <1>3
  <2>1. CASE Fits(q) \/ Len(q) <= 1
    BY <1>1, <2>1
  <2>2. CASE ~Fits(q) /\ ~(Len(q) <= 1)
    <3> DEFINE a == FirstHalf(q)
               b == SecondHalf(q)
    <3>1. /\ a \in Seq(D) /\ b \in Seq(D) /\ a \o b = q
          /\ Len(a) \in Nat /\ Len(b) \in Nat /\ Len(a) < Len(q) /\ Len(b) < Len(q)
      BY <2>2, Halves
    <3>2. Chunks[q] = Chunks[a] \o Chunks[b]
      BY <2>2, ChunksUnfold DEF Halving
    <3> HIDE DEF a, b
    <3>3. Len(a) <= k /\ Len(b) <= k
      BY <1>0, <1>3, <3>1
    <3>a. Joined(a, b) = q
      BY <3>1 DEF Joined
    <3>4. Range(q) = Range(a) \cup Range(b)
      BY <3>1, <3>a, RangeOfJoined
    <3>5. Chunked(a) /\ Chunked(b)
      BY <1>3, <3>1, <3>3, <3>4
    <3> QED
      BY <3>1, <3>2, <3>5, JoinedChunks
  <2> QED
    BY <2>1, <2>2
<1>4. N = Nat
  BY <1>2, <1>3, AllOfNat
<1>5. Len(p) \in N /\ Len(p) <= Len(p)
  BY <1>0, <1>4
<1> QED
  BY <1>5

-----------------------------------------------------------------------------
(* The view of a scan.  Without an ambiguous third copy, every sheet is in   *)
(* exactly one group, that of itself or that of the sheet before it.        *)
Copies(s) == {j + 1 : j \in Rescans(s)}
Group(s, i) == {i} \cup ({i + 1} \cap Copies(s))

LEMMA SheetTypes ==
  ASSUME NEW s \in ScannedDocuments
  PROVE  /\ Len(s) \in Nat /\ DOMAIN s = 1 .. Len(s)
         /\ \A i \in DOMAIN s, side \in Sides :
               /\ s[i].regions[side].text \in Nat
               /\ s[i].regions[side].visible \in Nat
               /\ s[i].regions[side].marks \in SUBSET (Nat \ {0})
<1> DEFINE Sheets == [regions : [Sides -> Regions], next : Likeness]
<1>1. s \in Seq(Sheets)
  BY ViewDocuments
<1> HIDE DEF Sheets
<1>2. Len(s) \in Nat /\ DOMAIN s = 1 .. Len(s) /\ \A i \in DOMAIN s : s[i] \in Sheets
  BY <1>1
<1>a. \A i \in DOMAIN s : s[i].regions \in [Sides -> Regions]
  BY <1>2 DEF Sheets
<1>3. \A i \in DOMAIN s, side \in Sides : s[i].regions[side] \in Regions
  BY <1>a
<1> QED
  BY <1>2, <1>3 DEF Regions

LEMMA GroupsAreHeaded ==
  \A s : Groups(s) = {Group(s, i) : i \in DOMAIN s \ Copies(s)}
  BY DEF Groups, Group, Copies

LEMMA CopiesFollow ==
  ASSUME NEW s \in ScannedDocuments, ~Ambiguous(s)
  PROVE  /\ \A i \in Copies(s) : i \in 2 .. Len(s) /\ i - 1 \notin Copies(s)
         /\ \A i \in DOMAIN s : Group(s, i) \subseteq DOMAIN s
<1>1. Len(s) \in Nat /\ DOMAIN s = 1 .. Len(s)
  BY SheetTypes
<1>2. \A j \in Rescans(s) : j \in 1 .. Len(s) - 1 /\ j + 1 \notin Rescans(s)
  BY DEF Rescans, Ambiguous
<1>3. ASSUME NEW i \in Copies(s) PROVE i \in 2 .. Len(s) /\ i - 1 \notin Copies(s)
  <2>1. PICK j \in Rescans(s) : i = j + 1
    BY DEF Copies
  <2>2. i \in 2 .. Len(s) /\ i - 1 = j
    BY <1>1, <1>2, <2>1
  <2>3. ASSUME NEW k \in Rescans(s), j = k + 1 PROVE FALSE
    BY <1>2, <2>1, <2>3
  <2> QED
    BY <2>2, <2>3 DEF Copies
<1>4. \A i \in DOMAIN s : Group(s, i) \subseteq DOMAIN s
  BY <1>1, <1>3 DEF Group
<1> QED
  BY <1>3, <1>4

LEMMA GroupsPartition ==
  ASSUME NEW s \in ScannedDocuments, ~Ambiguous(s)
  PROVE  /\ \A g \in Groups(s) : g \subseteq DOMAIN s /\ Min(g) \in g
         /\ \A i \in DOMAIN s : \E g \in Groups(s) : i \in g
         /\ \A g, h \in Groups(s), i \in DOMAIN s : i \in g /\ i \in h => g = h
<1> DEFINE Heads == DOMAIN s \ Copies(s)
<1>0. Len(s) \in Nat /\ DOMAIN s = 1 .. Len(s)
  BY SheetTypes
<1>1. ASSUME NEW i \in Heads PROVE Min(Group(s, i)) \in Group(s, i)
  <2>1. i \in Group(s, i) /\ \A j \in Group(s, i) : i <= j
    BY <1>0 DEF Group
  <2> QED
    BY <2>1 DEF Min
<1>2. \A g \in Groups(s) : g \subseteq DOMAIN s /\ Min(g) \in g
  BY <1>1, GroupsAreHeaded, CopiesFollow
<1>3. ASSUME NEW i \in DOMAIN s PROVE \E j \in Heads : i \in Group(s, j)
  <2>1. CASE i \in Copies(s)
    <3>1. i - 1 \in Heads /\ (i - 1) + 1 = i
      BY <1>0, <2>1, CopiesFollow
    <3> QED
      BY <2>1, <3>1 DEF Group
  <2>2. CASE i \notin Copies(s)
    BY <2>2 DEF Group
  <2> QED
    BY <2>1, <2>2
<1>4. \A i \in DOMAIN s : \E g \in Groups(s) : i \in g
  BY <1>3, GroupsAreHeaded
<1>5. ASSUME NEW j \in Heads, NEW k \in Heads, NEW i \in DOMAIN s,
             i \in Group(s, j), i \in Group(s, k)
      PROVE  j = k
  <2>1. j \in Int /\ k \in Int /\ i \in Int
    BY <1>0
  <2>2. (i = j \/ (i = j + 1 /\ i \in Copies(s))) /\ (i = k \/ (i = k + 1 /\ i \in Copies(s)))
    BY <1>5 DEF Group
  <2> QED
    BY <2>1, <2>2
<1>6. \A g, h \in Groups(s), i \in DOMAIN s : i \in g /\ i \in h => g = h
  BY <1>5, GroupsAreHeaded
<1> QED
  BY <1>2, <1>4, <1>6

(* No copy reads better than the one shown, which is as visible as any.       *)
LEMMA RepresentativeReadsBest ==
  ASSUME NEW s \in ScannedDocuments, ~Ambiguous(s), NEW g \in Groups(s), NEW side \in Sides
  PROVE  LET r == Representative(s, g, side) IN
         /\ r \in g
         /\ \A i \in g : /\ ~ReadsBetter(s[i].regions[side], s[r].regions[side])
                        /\ s[i].regions[side].visible <= s[r].regions[side].visible
<1> DEFINE region(i) == s[i].regions[side]
           text(i) == region(i).text
           visible(i) == region(i).visible
           better(i, j) == \/ visible(i) > visible(j)
                           \/ visible(i) = visible(j) /\ text(i) > text(j)
           Best(i) == \A j \in g : better(i, j) \/ (~better(j, i) /\ i <= j)
           r == Representative(s, g, side)
<1>0. g \subseteq DOMAIN s /\ DOMAIN s \subseteq Int
  BY GroupsPartition, SheetTypes
<1>1. \A i \in g : text(i) \in Nat /\ visible(i) \in Nat
  BY <1>0, SheetTypes
<1>2. PICK i \in g : g = {i} \/ g = {i, i + 1}
  BY GroupsAreHeaded DEF Group
<1>a. \A j, k : better(j, k) <=> ReadsBetter(region(j), region(k))
  BY DEF ReadsBetter
<1>4. r = CHOOSE j \in g : Best(j)
  BY DEF Representative, ReadsBetter
<1> HIDE DEF region, text, visible, r
<1>3. \E j \in g : Best(j)
  <2>1. CASE g = {i}
    BY <1>0, <1>1, <2>1
  <2>2. CASE g = {i, i + 1} /\ ~better(i + 1, i)
    BY <1>0, <1>1, <2>2
  <2>3. CASE g = {i, i + 1} /\ better(i + 1, i)
    BY <1>0, <1>1, <2>3
  <2> QED
    BY <1>2, <2>1, <2>2, <2>3
<1>5. r \in g /\ Best(r)
  BY <1>3, <1>4
<1>6. \A j \in g : ~better(j, r) /\ visible(j) <= visible(r)
  BY <1>1, <1>5
<1> QED
  BY <1>a, <1>5, <1>6 DEF region, visible, r

(* The leaves of a scan are finitely many, and read by a key of their own.   *)
IsLeaf(s, l) == /\ l.side \in Sides /\ l.sources \in Groups(s)
                /\ l = Leaf(s, l.sources, l.side)
LEMMA LeavesAreLeaves ==
  \A s : \A l \in Leaves(s) : IsLeaf(s, l) /\ l.visible >= MinimumCharacters
  BY DEF Leaves, Leaf, IsLeaf

LEMMA LeafTypes ==
  ASSUME NEW s \in ScannedDocuments, ~Ambiguous(s), NEW l, IsLeaf(s, l)
  PROVE  /\ l.sources \subseteq DOMAIN s /\ l.sources \in SUBSET Nat
         /\ Min(l.sources) \in DOMAIN s /\ Min(l.sources) \in l.sources
         /\ l.shows \in l.sources /\ l.text \in Nat
         /\ l.marks \in SUBSET (Nat \ {0})
<1>1. l.side \in Sides /\ l.sources \in Groups(s) /\ l = Leaf(s, l.sources, l.side)
  BY DEF IsLeaf
<1>2. /\ l.shows = Representative(s, l.sources, l.side)
      /\ l.text = s[l.shows].regions[l.side].text
      /\ l.marks = UNION {s[i].regions[l.side].marks : i \in l.sources}
  BY <1>1 DEF Leaf
<1>3. l.sources \subseteq DOMAIN s /\ Min(l.sources) \in l.sources
  BY <1>1, GroupsPartition
<1>4. l.shows \in l.sources
  BY <1>1, <1>2, RepresentativeReadsBest
<1>5. DOMAIN s \subseteq Nat
  BY SheetTypes
<1>6. l.text \in Nat /\ \A i \in l.sources : s[i].regions[l.side].marks \in SUBSET (Nat \ {0})
  BY <1>1, <1>2, <1>3, <1>4, SheetTypes
<1>7. l.marks \in SUBSET (Nat \ {0})
  BY <1>2, <1>6
<1> QED
  BY <1>3, <1>4, <1>5, <1>6, <1>7

LEMMA LeafIsRead ==
  ASSUME NEW s \in ScannedDocuments, ~Ambiguous(s), NEW l, IsLeaf(s, l), NEW k, IsLeaf(s, k)
  PROVE  /\ ReadingPosition(l) \in 1 .. 2 * Len(s) + 2
         /\ ReadingPosition(l) = ReadingPosition(k) => l = k
<1>1. /\ l.side \in 1 .. 2 /\ l.sources \in Groups(s) /\ l = Leaf(s, l.sources, l.side)
      /\ k.side \in 1 .. 2 /\ k.sources \in Groups(s) /\ k = Leaf(s, k.sources, k.side)
  BY DEF IsLeaf, Sides
<1>2. /\ Min(l.sources) \in DOMAIN s /\ Min(l.sources) \in l.sources
      /\ Min(k.sources) \in DOMAIN s /\ Min(k.sources) \in k.sources
  BY LeafTypes
<1>3. Len(s) \in Nat /\ DOMAIN s = 1 .. Len(s)
  BY SheetTypes
<1>4. ReadingPosition(l) \in 1 .. 2 * Len(s) + 2
  BY <1>1, <1>2, <1>3 DEF ReadingPosition
<1>5. ASSUME ReadingPosition(l) = ReadingPosition(k)
      PROVE  Min(l.sources) = Min(k.sources) /\ l.side = k.side
  BY <1>1, <1>2, <1>3, <1>5 DEF ReadingPosition
<1>6. ASSUME Min(l.sources) = Min(k.sources) PROVE l.sources = k.sources
  BY <1>1, <1>2, <1>6, GroupsPartition
<1> QED
  BY <1>1, <1>4, <1>5, <1>6

LEMMA LeavesInOrder ==
  ASSUME NEW s \in ScannedDocuments, ~Ambiguous(s)
  PROVE  \E N \in Nat :
            /\ LeafSequence(s) \in [1 .. N -> Leaves(s)]
            /\ \A l \in Leaves(s) : \E n \in 1 .. N : LeafSequence(s)[n] = l
            /\ \A m, n \in 1 .. N : LeafSequence(s)[m] = LeafSequence(s)[n] => m = n
<1> DEFINE key == [l \in Leaves(s) |-> ReadingPosition(l)]
           T == 1 .. 2 * Len(s) + 2
           N == Cardinality(Leaves(s))
<1>1. \A l \in Leaves(s) : key[l] \in T
  BY LeavesAreLeaves, LeafIsRead
<1>2. \A l, k \in Leaves(s) : key[l] = key[k] => l = k
  BY LeavesAreLeaves, LeafIsRead
<1>3. IsFiniteSet(T)
  BY SheetTypes, FS_Interval
<1>4. T \subseteq Int
  OBVIOUS
<1>a. DOMAIN key = Leaves(s) /\ key = [l \in Leaves(s) |-> key[l]]
  OBVIOUS
<1> HIDE DEF key, T
<1>5. key \in Injection(Leaves(s), T)
  BY <1>1, <1>2, <1>a DEF Injection, IsInjective
<1>6. IsFiniteSet(Leaves(s))
  BY <1>3, <1>5, FS_Injection
<1>7. N \in Nat
  BY <1>6, FS_CardinalityType
<1>b. \A l \in Leaves(s) : key[l] \in Int
  BY <1>1, <1>4
<1>8. /\ InOrder(Leaves(s), key) \in [1 .. N -> Leaves(s)]
      /\ \A l \in Leaves(s) : \E n \in 1 .. N : InOrder(Leaves(s), key)[n] = l
      /\ \A m, n \in 1 .. N :
            m < n => key[InOrder(Leaves(s), key)[m]] < key[InOrder(Leaves(s), key)[n]]
  BY <1>2, <1>6, <1>b, InOrderSorts
<1>9. LeafSequence(s) = InOrder(Leaves(s), key)
  BY DEF LeafSequence, key
<1> HIDE DEF N
<1>10. ASSUME NEW m \in 1 .. N, NEW n \in 1 .. N, LeafSequence(s)[m] = LeafSequence(s)[n]
       PROVE  m = n
  <2>1. LeafSequence(s)[m] \in Leaves(s) /\ LeafSequence(s)[n] \in Leaves(s)
    BY <1>8, <1>9
  <2>2. m \in Int /\ n \in Int
    BY <1>7
  <2>3. ~(m < n) /\ ~(n < m)
    BY <1>8, <1>9, <1>10, <1>b, <2>1
  <2> QED
    BY <2>2, <2>3
<1> QED
  BY <1>7, <1>8, <1>9, <1>10

(* One offset at most outvotes every other, so resolved numbers grow with    *)
(* the pages, and each is one of its page's marks.                          *)
LEMMA OneDominantOffset ==
  ASSUME NEW p, NEW N \in Nat, DOMAIN p = 1 .. N,
         \A n \in 1 .. N : p[n].marks \in SUBSET (Nat \ {0})
  PROVE  /\ Dominant(p) \subseteq Int
         /\ \A o, q \in Dominant(p) : o = q
<1>1. Dominant(p) \subseteq Offsets(p)
  BY DEF Dominant
<1>2. Offsets(p) \subseteq Int
  <2> SUFFICES ASSUME NEW n \in 1 .. N, NEW m \in p[n].marks PROVE m - n \in Int
    BY DEF Offsets
  <2>1. m \in Nat
    OBVIOUS
  <2> QED
    BY <2>1
<1>3. ASSUME NEW o PROVE Votes(p, o) \in Nat
  <2>0. 1 \in Int /\ N \in Int
    OBVIOUS
  <2>1. IsFiniteSet(1 .. N)
    BY <2>0, FS_Interval
  <2>2. {n \in DOMAIN p : n + o \in p[n].marks} \in SUBSET (1 .. N)
    OBVIOUS
  <2> QED
    BY <2>1, <2>2, FS_Subset, FS_CardinalityType DEF Votes
<1>4. ASSUME NEW o \in Dominant(p), NEW q \in Dominant(p), o # q PROVE FALSE
  <2>1. Votes(p, o) < Votes(p, q) /\ Votes(p, q) < Votes(p, o)
    BY <1>1, <1>4 DEF Dominant
  <2> QED
    BY <1>3, <2>1
<1> QED
  BY <1>1, <1>2, <1>4

LEMMA ResolvedNumbers ==
  ASSUME NEW p, NEW N \in Nat, DOMAIN p = 1 .. N,
         \A n \in 1 .. N : p[n].marks \in SUBSET (Nat \ {0})
  PROVE  /\ \A n \in 1 .. N :
               /\ PrintedNumber(p, n) \in Nat
               /\ PrintedNumber(p, n) # NoNumber => PrintedNumber(p, n) \in p[n].marks
         /\ \A m, n \in 1 .. N :
               /\ PrintedNumber(p, m) # NoNumber /\ PrintedNumber(p, n) # NoNumber
               /\ m < n
               => PrintedNumber(p, m) < PrintedNumber(p, n)
<1> DEFINE o == CHOOSE q \in Dominant(p) : TRUE
<1>1. ASSUME NEW n \in 1 .. N, PrintedNumber(p, n) # NoNumber
      PROVE  o \in Int /\ PrintedNumber(p, n) = n + o /\ PrintedNumber(p, n) \in p[n].marks
  <2>1. PrintedNumber(p, n) = n + o /\ \E q \in Dominant(p) : n + q \in p[n].marks
    BY <1>1 DEF PrintedNumber, Resolution
  <2>2. PICK q \in Dominant(p) : n + q \in p[n].marks
    BY <2>1
  <2>3. o \in Dominant(p)
    BY <2>2
  <2>4. o = q /\ o \in Int
    BY <2>2, <2>3, OneDominantOffset
  <2> QED
    BY <2>1, <2>2, <2>4
<1> HIDE DEF o
<1>2. \A n \in 1 .. N : PrintedNumber(p, n) \in Nat
  <2> SUFFICES ASSUME NEW n \in 1 .. N PROVE PrintedNumber(p, n) \in Nat
    OBVIOUS
  <2>1. CASE PrintedNumber(p, n) = NoNumber
    BY <2>1 DEF NoNumber
  <2>2. CASE PrintedNumber(p, n) # NoNumber
    BY <1>1, <2>2
  <2> QED
    BY <2>1, <2>2
<1>3. ASSUME NEW m \in 1 .. N, NEW n \in 1 .. N, m < n,
             PrintedNumber(p, m) # NoNumber, PrintedNumber(p, n) # NoNumber
      PROVE  PrintedNumber(p, m) < PrintedNumber(p, n)
  <2>1. o \in Int /\ PrintedNumber(p, m) = m + o /\ PrintedNumber(p, n) = n + o
    BY <1>1, <1>3
  <2> QED
    BY <1>3, <2>1
<1> QED
  BY <1>1, <1>2, <1>3

(* What the view of a scan that is not refused is: pages, each of a leaf.    *)
Pages == [sources : SUBSET Nat, side : Sides, shows : Nat, text : Nat, printed : Nat]
PageOf(p, n) == [sources |-> p[n].sources, side |-> p[n].side, shows |-> p[n].shows,
                 text |-> p[n].text, printed |-> PrintedNumber(p, n)]

LEMMA MaterializedPages ==
  ASSUME NEW s \in ScannedDocuments, ~Refused(s)
  PROVE  \E N \in Nat :
            LET p == LeafSequence(s) IN
            /\ DOMAIN p = 1 .. N
            /\ \A n \in 1 .. N : p[n] \in Leaves(s) /\ p[n].marks \in SUBSET (Nat \ {0})
            /\ \A l \in Leaves(s) : \E n \in 1 .. N : p[n] = l
            /\ \A m, n \in 1 .. N : p[m] = p[n] => m = n
            /\ DOMAIN Materialized(s) = 1 .. N
            /\ \A n \in 1 .. N : Materialized(s)[n] = PageOf(p, n)
            /\ Materialized(s) \in Seq(Pages)
<1> DEFINE p == LeafSequence(s)
<1>0. ~Ambiguous(s)
  BY DEF Refused
<1>1. PICK N \in Nat :
         /\ p \in [1 .. N -> Leaves(s)]
         /\ \A l \in Leaves(s) : \E n \in 1 .. N : p[n] = l
         /\ \A m, n \in 1 .. N : p[m] = p[n] => m = n
  BY <1>0, LeavesInOrder
<1>2. Materialized(s) = [n \in DOMAIN p |-> PageOf(p, n)]
  BY DEF Materialized, PageOf
<1> HIDE DEF p
<1>3. \A n \in 1 .. N : p[n] \in Leaves(s)
  BY <1>1
<1>4. DOMAIN p = 1 .. N
  BY <1>1
<1>5. \A n \in 1 .. N : p[n].side \in Sides
  BY <1>3, LeavesAreLeaves DEF IsLeaf
<1>6. \A n \in 1 .. N : /\ p[n].sources \in SUBSET Nat /\ p[n].shows \in Nat
                        /\ p[n].text \in Nat /\ p[n].marks \in SUBSET (Nat \ {0})
  BY <1>0, <1>3, LeavesAreLeaves, LeafTypes
<1>7. \A n \in 1 .. N : PrintedNumber(p, n) \in Nat
  BY <1>4, <1>6, ResolvedNumbers
<1>8. \A n \in 1 .. N : PageOf(p, n) \in Pages
  BY <1>5, <1>6, <1>7 DEF PageOf, Pages
<1>9. DOMAIN Materialized(s) = 1 .. N /\ \A n \in 1 .. N : Materialized(s)[n] = PageOf(p, n)
  BY <1>2, <1>4
<1>10. Materialized(s) \in [1 .. N -> Pages]
  BY <1>2, <1>4, <1>8
<1> HIDE DEF Pages
<1>11. Materialized(s) \in Seq(Pages)
  BY <1>10
<1>12. p = LeafSequence(s)
  BY DEF p
<1> QED
  BY <1>1, <1>3, <1>4, <1>6, <1>9, <1>11, <1>12

LEMMA MarksOfLeaf ==
  \A s, g, side :
     Leaf(s, g, side).marks = UNION {s[i].regions[side].marks : i \in g}
  BY DEF Leaf

LEMMA PagesShowLeaves ==
  ASSUME NEW s \in ScannedDocuments, ~Refused(s), NEW v, v = Materialized(s)
  PROVE  /\ v \in Seq(Pages)
         /\ \A i \in DOMAIN s, side \in Sides :
               s[i].regions[side].visible >= MinimumCharacters =>
                  \E n \in DOMAIN v :
                      /\ v[n].side = side /\ i \in v[n].sources
                      /\ ~ReadsBetter(s[i].regions[side],
                                      s[v[n].shows].regions[side])
                      /\ \A m \in DOMAIN v \ {n} :
                            ~(v[m].side = side /\ i \in v[m].sources)
         /\ \A n \in DOMAIN v :
               /\ v[n].text = s[v[n].shows].regions[v[n].side].text
               /\ v[n].printed # NoNumber =>
                     /\ \E i \in v[n].sources :
                           v[n].printed \in s[i].regions[v[n].side].marks
                     /\ \A m \in DOMAIN v :
                           v[m].printed # NoNumber /\ m < n => v[m].printed < v[n].printed
<1>0. ~Ambiguous(s)
  BY DEF Refused
<1> DEFINE p == LeafSequence(s)
<1>1. PICK N \in Nat :
         /\ DOMAIN p = 1 .. N
         /\ \A n \in 1 .. N : p[n] \in Leaves(s) /\ p[n].marks \in SUBSET (Nat \ {0})
         /\ \A l \in Leaves(s) : \E n \in 1 .. N : p[n] = l
         /\ \A m, n \in 1 .. N : p[m] = p[n] => m = n
         /\ DOMAIN v = 1 .. N
         /\ \A n \in 1 .. N : v[n] = PageOf(p, n)
         /\ v \in Seq(Pages)
  BY MaterializedPages, SMTT(30)
<1> HIDE DEF p
<1>2. \A n \in 1 .. N :
         /\ v[n].sources = p[n].sources /\ v[n].side = p[n].side
         /\ v[n].shows = p[n].shows /\ v[n].text = p[n].text
         /\ v[n].printed = PrintedNumber(p, n)
  BY <1>1 DEF PageOf
<1>3. \A n \in 1 .. N : IsLeaf(s, p[n])
  BY <1>1, LeavesAreLeaves
<1>a. /\ \A n \in 1 .. N :
            PrintedNumber(p, n) # NoNumber => PrintedNumber(p, n) \in p[n].marks
      /\ \A m, n \in 1 .. N :
            /\ PrintedNumber(p, m) # NoNumber /\ PrintedNumber(p, n) # NoNumber
            /\ m < n
            => PrintedNumber(p, m) < PrintedNumber(p, n)
  <2>1. \A n \in 1 .. N : p[n].marks \in SUBSET (Nat \ {0})
    BY <1>1
  <2> QED
    BY <1>1, <2>1, ResolvedNumbers
<1>4. ASSUME NEW i \in DOMAIN s, NEW side \in Sides,
             s[i].regions[side].visible >= MinimumCharacters
      PROVE  \E n \in DOMAIN v :
                /\ v[n].side = side /\ i \in v[n].sources
                /\ ~ReadsBetter(s[i].regions[side], s[v[n].shows].regions[side])
                /\ \A m \in DOMAIN v \ {n} : ~(v[m].side = side /\ i \in v[m].sources)
  <2>1. PICK g \in Groups(s) : i \in g
    BY <1>0, GroupsPartition
  <2> DEFINE l == Leaf(s, g, side)
             r == Representative(s, g, side)
  <2>2. /\ l.sources = g /\ l.side = side /\ l.shows = r
        /\ l.visible = s[r].regions[side].visible
    BY DEF Leaf
  <2>3. /\ r \in g /\ ~ReadsBetter(s[i].regions[side], s[r].regions[side])
        /\ s[i].regions[side].visible <= s[r].regions[side].visible
    BY <1>0, <2>1, RepresentativeReadsBest
  <2>4. /\ s[i].regions[side].visible \in Nat /\ s[r].regions[side].visible \in Nat
        /\ MinimumCharacters \in Nat
    BY <1>0, <2>3, GroupsPartition, SheetTypes, ViewParameters
  <2>5. l.visible >= MinimumCharacters
    BY <1>4, <2>2, <2>3, <2>4
  <2>6. l \in Leaves(s)
    BY <2>5 DEF Leaves
  <2>a. l = Leaf(s, g, side)
    OBVIOUS
  <2> HIDE DEF l
  <2>7. PICK n \in 1 .. N : p[n] = l
    BY <1>1, <2>6
  <2>8. ASSUME NEW m \in 1 .. N, v[m].side = side, i \in v[m].sources PROVE m = n
    <3>1. p[m].side = side /\ i \in p[m].sources
      BY <1>2, <2>8
    <3>2. p[m].sources \in Groups(s) /\ p[m] = Leaf(s, p[m].sources, p[m].side)
      BY <1>3 DEF IsLeaf
    <3>3. p[m].sources = g
      BY <1>0, <2>1, <3>1, <3>2, GroupsPartition
    <3>4. p[m] = p[n]
      BY <2>a, <2>7, <3>1, <3>2, <3>3
    <3> QED
      BY <1>1, <3>4
  <2>9. v[n].side = side /\ i \in v[n].sources /\ v[n].shows = r
    BY <1>2, <2>1, <2>2, <2>7
  <2> QED
    BY <1>1, <2>3, <2>8, <2>9
<1>5. ASSUME NEW n \in DOMAIN v
      PROVE  v[n].text = s[v[n].shows].regions[v[n].side].text
  <2>1. n \in 1 .. N
    BY <1>1
  <2>2. p[n] = Leaf(s, p[n].sources, p[n].side)
    BY <1>3, <2>1 DEF IsLeaf
  <2>3. p[n].shows = Representative(s, p[n].sources, p[n].side)
        /\ p[n].text = s[Representative(s, p[n].sources, p[n].side)].regions[p[n].side].text
    BY <2>2 DEF Leaf
  <2> QED
    BY <1>2, <2>1, <2>3
<1>6. ASSUME NEW n \in DOMAIN v, v[n].printed # NoNumber
      PROVE  \E i \in v[n].sources : v[n].printed \in s[i].regions[v[n].side].marks
  <2>1. n \in 1 .. N
    BY <1>1
  <2>2. v[n].printed \in p[n].marks
    BY <1>2, <1>6, <1>a, <2>1
  <2>3. p[n] = Leaf(s, p[n].sources, p[n].side)
    BY <1>3, <2>1 DEF IsLeaf
  <2>4. p[n].marks = UNION {s[i].regions[p[n].side].marks : i \in p[n].sources}
    BY <2>3, MarksOfLeaf
  <2> QED
    BY <1>2, <2>1, <2>2, <2>4
<1>7. ASSUME NEW n \in DOMAIN v, v[n].printed # NoNumber,
             NEW m \in DOMAIN v, v[m].printed # NoNumber, m < n
      PROVE  v[m].printed < v[n].printed
  BY <1>1, <1>2, <1>7, <1>a
<1> QED
  BY <1>1, <1>4, <1>5, <1>6, <1>7

(* The scan does not change, and its view is faithful from when there is one. *)
ViewInv == sheets \in ScannedDocuments /\ view \in Seq(Pages) /\ ViewIsFaithful

LEMMA ViewStarts == ViewInit => ViewInv
  BY DEF ViewInit, ViewInv, ViewIsFaithful

LEMMA ViewMaterialized ==
  ASSUME ViewInv, Materialize
  PROVE  ViewInv'
<1>1. ~Refused(sheets) /\ view' = Materialized(sheets) /\ sheets' = sheets
      /\ sheets \in ScannedDocuments
  BY DEF Materialize, ViewInv
<1>2. view' \in Seq(Pages)
  BY <1>1, PagesShowLeaves
<1>3. ViewIsFaithful'
  BY <1>1, PagesShowLeaves DEF ViewIsFaithful
<1> QED
  BY <1>1, <1>2, <1>3 DEF ViewInv

LEMMA ViewUnchanged ==
  ASSUME ViewInv, UNCHANGED viewVars
  PROVE  ViewInv'
  BY DEF ViewInv, viewVars, ViewIsFaithful

LEMMA ViewTypes ==
  ASSUME ViewInv
  PROVE  /\ Len(view) \in Nat /\ DOMAIN view = 1 .. Len(view)
         /\ view # <<>> => 1 \in DOMAIN view
         /\ \A n \in DOMAIN view : view[n] \in Pages
         /\ IsFiniteSet(DOMAIN view)
<1>1. view \in Seq(Pages)
  BY DEF ViewInv
<1> HIDE DEF Pages
<1>2. /\ Len(view) \in Nat /\ DOMAIN view = 1 .. Len(view)
      /\ view # <<>> => 1 \in DOMAIN view
      /\ \A n \in DOMAIN view : view[n] \in Pages
  BY <1>1
<1>3. 1 \in Int /\ Len(view) \in Int
  BY <1>2
<1>4. IsFiniteSet(DOMAIN view)
  BY <1>2, <1>3, FS_Interval
<1> QED
  BY <1>2, <1>4

-----------------------------------------------------------------------------
(* What an agent is shown of a page, and what prompts cost.                  *)
LEMMA LesserOf ==
  ASSUME NEW a \in Int, NEW b \in Int
  PROVE  Min({a, b}) \in {a, b} /\ Min({a, b}) <= a /\ Min({a, b}) <= b
<1>1. \E x \in {a, b} : \A y \in {a, b} : x <= y
  <2>1. CASE a <= b
    BY <2>1
  <2>2. CASE ~(a <= b)
    BY <2>2
  <2> QED
    BY <2>1, <2>2
<1> QED
  BY <1>1 DEF Min

LEMMA CostIsNatural ==
  ASSUME ViewInv, NEW pages \in SUBSET DOMAIN view
  PROVE  Cost(pages) \in Nat
<1>1. ASSUME NEW n \in DOMAIN view PROVE Visible(n) \in Nat
  <2>1. view[n].text \in Int /\ view[n].text \in Nat
    BY ViewTypes DEF Pages
  <2>2. MaxPageChars \in Int /\ MaxPageChars \in Nat
    BY ViewParameters
  <2> QED
    BY <2>1, <2>2, LesserOf DEF Visible
<1>2. \A n \in DOMAIN view : Rendered[n] \in Nat
  BY <1>1 DEF Rendered
<1>3. IsFiniteSet(pages)
  BY ViewTypes, FS_Subset
<1> QED
  BY <1>2, <1>3, SumOfNaturals DEF Cost

LEMMA LocatorCostIsNatural ==
  ASSUME ViewInv, NEW chunk \in Seq(DOMAIN view)
  PROVE  LocatorCost(chunk) \in Nat
<1>1. Range(chunk) \in SUBSET DOMAIN view
  BY RangeOfSeq
<1> QED
  BY <1>1, CostIsNatural DEF LocatorCost

LEMMA NothingFits == Fits(<<>>)
<1>1. Range(<<>>) = {}
  BY DEF Range
<1>2. Cost({}) = 0
  BY EmptySum DEF Cost
<1>3. DelegatedLimit \in Nat \ {0}
  BY DiscoveryBounds
<1> QED
  BY <1>1, <1>2, <1>3, SMTT(30) DEF Fits, LocatorCost

(* A sample is of the view: the rounded quotient does not pass its end.      *)
LEMMA Multiples ==
  ASSUME NEW b \in Nat, NEW x \in Nat, NEW y \in Nat, x <= y
  PROVE  b * x <= b * y /\ b * x \in Nat /\ b * y \in Nat
<1>1. PICK d \in Nat : y = x + d
  BY y - x \in Nat /\ y = x + (y - x)
<1>2. b * y = b * x + b * d
  BY <1>1
<1>3. b * x \in Nat /\ b * d \in Nat
  OBVIOUS
<1> QED
  BY <1>2, <1>3

LEMMA RoundedWithin ==
  ASSUME NEW a \in Nat, NEW b \in Nat \ {0}, NEW L \in Nat, a <= b * L
  PROVE  Rounded(a, b) \in 0 .. L
<1> DEFINE q == a \div b
           r == a % b
<1>1. q \in Nat /\ r \in 0 .. b - 1 /\ a = b * q + r
  OBVIOUS
<1> HIDE DEF q, r
<1>2. Rounded(a, b) = IF 2 * r > b \/ (2 * r = b /\ q % 2 = 1) THEN q + 1 ELSE q
  BY DEF Rounded, q, r
<1>3. q <= L
  <2> SUFFICES ASSUME L + 1 <= q PROVE FALSE
    BY <1>1
  <2>1. b * (L + 1) <= b * q /\ b * (L + 1) \in Nat /\ b * q \in Nat
    BY <1>1, Multiples
  <2>2. b * (L + 1) = b * L + b /\ b * L \in Nat
    OBVIOUS
  <2> QED
    BY <1>1, <2>1, <2>2
<1>4. CASE r = 0
  BY <1>1, <1>2, <1>3, <1>4
<1>5. CASE r # 0
  <2>1. q + 1 <= L
    <3> SUFFICES ASSUME L <= q PROVE FALSE
      BY <1>1, <1>3
    <3>1. b * L <= b * q /\ b * L \in Nat /\ b * q \in Nat
      BY <1>1, Multiples
    <3> QED
      BY <1>1, <1>5, <3>1
  <2> QED
    BY <1>1, <1>2, <2>1
<1> QED
  BY <1>4, <1>5

LEMMA SamplesAreOfTheView ==
  ASSUME ViewInv, view # <<>>, NEW strategy, NEW count \in Nat \ {0}
  PROVE  SamplePages(strategy, count) \subseteq DOMAIN view
<1> DEFINE k == Min({count, Len(view)})
           L == Len(view) - 1
<1>1. Len(view) \in Nat \ {0} /\ DOMAIN view = 1 .. Len(view) /\ L \in Nat
  BY ViewTypes
<1>a. count \in Int /\ Len(view) \in Int
  BY <1>1
<1>2. k \in {count, Len(view)} /\ k <= Len(view)
  BY <1>a, LesserOf
<1> HIDE DEF k
<1>3. k \in 1 .. Len(view)
  <2> DEFINE M == Len(view)
  <2>1. M \in Nat \ {0} /\ k \in {count, M} /\ k <= M
    BY <1>1, <1>2
  <2> HIDE DEF M
  <2>2. k \in 1 .. M
    BY <2>1
  <2> QED
    BY <2>2 DEF M
<1>4. EvenPages(k) \subseteq DOMAIN view
  <2>1. CASE k = 1
    BY <1>1, <2>1 DEF EvenPages
  <2>2. CASE k # 1
    <3>1. k - 1 \in Nat \ {0}
      BY <1>1, <1>3, <2>2
    <3>2. ASSUME NEW i \in 0 .. k - 1 PROVE 1 + Rounded(i * (Len(view) - 1), k - 1) \in DOMAIN view
      <4>1. i \in Nat /\ i <= k - 1
        BY <3>1
      <4>2. L * i <= L * (k - 1) /\ L * i \in Nat
        BY <1>1, <3>1, <4>1, Multiples
      <4>3. i * L = L * i /\ (k - 1) * L = L * (k - 1)
        BY <1>1, <3>1, <4>1
      <4>4. Rounded(i * L, k - 1) \in 0 .. L
        BY <1>1, <3>1, <4>2, <4>3, RoundedWithin
      <4> QED
        BY <1>1, <4>4
    <3> QED
      BY <2>2, <3>2 DEF EvenPages
  <2> QED
    BY <2>1, <2>2
<1>5. 1 .. k \subseteq DOMAIN view /\ Len(view) - k + 1 .. Len(view) \subseteq DOMAIN view
  BY <1>1, <1>3
<1>6. \/ SamplePages(strategy, count) = 1 .. k
      \/ SamplePages(strategy, count) = Len(view) - k + 1 .. Len(view)
      \/ SamplePages(strategy, count) = EvenPages(k)
  BY DEF SamplePages, k
<1> QED
  BY <1>4, <1>5, <1>6

-----------------------------------------------------------------------------
(* The discovery run.  Beyond the stated bounds: while a call may still be   *)
(* made what was consumed is within the budget, two calls are left until    *)
(* the synthesis, and a delegation is under way only while it is located.   *)
RunTypes ==
    run \in [phase : {"start", "decide", "locate", "synthesis", "done", "failed"},
             calls : 0 .. MaxCalls, posts : 0 .. MaxPosts - 1, context : Nat,
             shown : SUBSET DOMAIN view, asked : SUBSET Asks, consumed : Nat]
RunBounds ==
    /\ view = <<>> => run.phase = "start"
    /\ run.phase = "start" => run.shown = {}
    /\ run.phase \in {"start", "decide", "locate"} => run.calls + 2 <= MaxCalls
    /\ run.phase # "failed" => run.consumed <= MaxTokens
    /\ run.consumed <= MaxTokens + Slack
DelegationInv ==
    /\ delegation \in [pages : Seq(DOMAIN view), chunks : Seq(Seq(DOMAIN view)),
                       at : Nat, cited : SUBSET DOMAIN view]
    /\ run.phase = "locate" => delegation.at \in 1 .. Len(delegation.chunks)
    /\ run.phase # "locate" => delegation = NoDelegation
    /\ FlattenSeq(delegation.chunks) = delegation.pages
    /\ \A i \in DOMAIN delegation.chunks : Fits(delegation.chunks[i])
DiscoveryInv == ViewInv /\ RunTypes /\ RunBounds /\ DelegationInv

LEMMA NoDelegationHolds ==
  ASSUME NEW D
  PROVE  /\ NoDelegation \in [pages : Seq(D), chunks : Seq(Seq(D)), at : Nat, cited : SUBSET D]
         /\ FlattenSeq(NoDelegation.chunks) = NoDelegation.pages
         /\ DOMAIN NoDelegation.chunks = {}
<1>1. <<>> \in Seq(D) /\ <<>> \in Seq(Seq(D)) /\ DOMAIN <<>> = {}
  OBVIOUS
<1> QED
  BY <1>1, FlattenEmpty DEF NoDelegation

LEMMA Budgets ==
  /\ MaxTokens \in Nat \ {0} /\ DelegatedLimit \in Nat \ {0} /\ MaxPosts \in Nat \ {0}
  /\ MaxCalls \in Nat \ {0, 1} /\ Slack \in Nat /\ Unknown \notin Nat
  /\ DecisionCeiling \in Nat /\ LocatorCeiling \in Nat /\ SynthesisCeiling \in Nat
  BY DiscoveryBounds

LEMMA InputIsNatural ==
  ASSUME DiscoveryInv, Calling
  PROVE  Input \in Nat
<1>1. run.context \in Nat
  BY DEF DiscoveryInv, RunTypes
<1>2. CASE run.phase = "decide"
  <2>1. view # <<>>
    BY <1>2 DEF DiscoveryInv, RunBounds
  <2>2. {1} \in SUBSET DOMAIN view
    BY <2>1, ViewTypes DEF DiscoveryInv
  <2>3. Cost({1}) \in Nat
    BY <2>2, CostIsNatural DEF DiscoveryInv
  <2> QED
    BY <1>1, <1>2, <2>3 DEF Input
<1>3. CASE run.phase = "locate"
  <2>1. /\ delegation.chunks \in Seq(Seq(DOMAIN view))
        /\ delegation.at \in 1 .. Len(delegation.chunks)
    BY <1>3 DEF DiscoveryInv, DelegationInv
  <2>2. delegation.chunks[delegation.at] \in Seq(DOMAIN view)
    BY <2>1
  <2>3. LocatorCost(delegation.chunks[delegation.at]) \in Nat
    BY <2>2, LocatorCostIsNatural DEF DiscoveryInv
  <2> QED
    BY <1>3, <2>3 DEF Input
<1>4. CASE run.phase = "synthesis"
  BY <1>1, <1>4 DEF Input
<1> QED
  BY <1>2, <1>3, <1>4 DEF Calling

(* An answer costs no more than the ceiling it was given, and its excess.    *)
LEMMA SpentIsBounded ==
  ASSUME DiscoveryInv, Affordable, NEW t \in Totals
  PROVE  Spent(t) \in Nat /\ Spent(t) <= MaxTokens + Slack
<1> DEFINE in == Input
           eff == EffectiveCeiling
           used == run.consumed
<1>1. in \in Nat
  BY InputIsNatural DEF Affordable
<1>2. used \in Nat /\ used <= MaxTokens + Slack
  BY DEF DiscoveryInv, RunTypes, RunBounds
<1>3. Ceiling \in Nat
  BY Budgets DEF Ceiling
<1> HIDE DEF in, used
<1>4. Remaining = MaxTokens - used - in /\ Remaining >= 1
  BY DEF Affordable, Remaining, in, used
<1>5. Remaining \in Int /\ Ceiling \in Int
  BY <1>1, <1>2, <1>3, <1>4, Budgets
<1>6. eff \in {Ceiling, Remaining} /\ eff <= Remaining
  BY <1>5, LesserOf DEF EffectiveCeiling
<1> HIDE DEF eff
<1>7. eff \in Nat
  BY <1>3, <1>4, <1>5, <1>6
<1>8. t \in {Unknown, in + 1, in + eff, in + eff + Slack}
  BY DEF Totals, in, eff
<1>9. Spent(t) = IF t = Unknown THEN used + 0 ELSE used + t
  BY DEF Spent, used
<1>10. CASE t = Unknown
  BY <1>2, <1>9, <1>10
<1>11. CASE t # Unknown
  <2>1. t \in Nat /\ t <= in + Remaining + Slack
    BY <1>1, <1>4, <1>5, <1>6, <1>7, <1>8, <1>11, Budgets
  <2> QED
    BY <1>1, <1>2, <1>4, <1>9, <1>11, <2>1, Budgets
<1> QED
  BY <1>10, <1>11

(* A run that ends keeps no delegation.                                      *)
LEMMA EndsKeeps ==
  ASSUME DiscoveryInv, Calling, UNCHANGED viewVars, NEW phase \in {"done", "failed"},
         NEW c \in Nat, c <= MaxTokens + Slack, phase = "done" => c <= MaxTokens,
         Ends(phase, c)
  PROVE  DiscoveryInv'
<1>1. view' = view /\ view # <<>> /\ ViewInv'
  BY ViewUnchanged DEF DiscoveryInv, RunBounds, Calling, viewVars
<1>2. /\ run' = [run EXCEPT !.phase = phase, !.consumed = c, !.posts = 0]
      /\ delegation' = NoDelegation
  BY DEF Ends
<1>3. 0 \in 0 .. MaxPosts - 1
  BY Budgets
<1>4. RunTypes'
  BY <1>1, <1>2, <1>3 DEF DiscoveryInv, RunTypes
<1>5. run'.phase = phase /\ run'.consumed = c
  BY <1>2 DEF DiscoveryInv, RunTypes
<1>6. RunBounds'
  BY <1>1, <1>5 DEF RunBounds
<1>7. DelegationInv'
  BY <1>2, <1>5, NoDelegationHolds DEF DelegationInv
<1> QED
  BY <1>1, <1>4, <1>6, <1>7 DEF DiscoveryInv

(* So does one that has read what it asked for.                              *)
LEMMA AfterStepKeeps ==
  ASSUME DiscoveryInv, run.phase \in {"decide", "locate"}, UNCHANGED viewVars,
         NEW t, Spent(t) \in Nat, Spent(t) <= MaxTokens,
         NEW asked \in SUBSET Asks, NEW pages \in SUBSET DOMAIN view,
         run' = AfterStep(t, asked, pages), delegation' = NoDelegation
  PROVE  DiscoveryInv'
<1>1. view' = view /\ view # <<>> /\ ViewInv'
  BY ViewUnchanged DEF DiscoveryInv, RunBounds, viewVars
<1>2. Cost(pages) \in Nat
  BY CostIsNatural DEF DiscoveryInv
<1>3. run.calls \in Nat /\ run.calls + 2 <= MaxCalls /\ MaxCalls \in Nat
  BY Budgets DEF DiscoveryInv, RunTypes, RunBounds
<1> DEFINE next == IF run.calls + 1 = MaxCalls - 1 THEN "synthesis" ELSE "decide"
<1>4. /\ next \in {"synthesis", "decide"} /\ run.calls + 1 \in 0 .. MaxCalls
      /\ next = "decide" => (run.calls + 1) + 2 <= MaxCalls
  BY <1>3
<1>5. run' = [run EXCEPT !.phase = next, !.calls = @ + 1, !.posts = 0, !.asked = asked,
                         !.shown = @ \cup pages, !.context = @ + 1 + Cost(pages),
                         !.consumed = Spent(t)]
  BY DEF AfterStep
<1> HIDE DEF next
<1>6. 0 \in 0 .. MaxPosts - 1
  BY Budgets
<1>7. run.context \in Nat /\ run.shown \in SUBSET DOMAIN view
  BY DEF DiscoveryInv, RunTypes
<1>8. run.context + 1 + Cost(pages) \in Nat
  BY <1>2, <1>7
<1>9. RunTypes'
  <2>1. run \in [phase : {"start", "decide", "locate", "synthesis", "done", "failed"},
                 calls : 0 .. MaxCalls, posts : 0 .. MaxPosts - 1, context : Nat,
                 shown : SUBSET DOMAIN view, asked : SUBSET Asks, consumed : Nat]
    BY DEF DiscoveryInv, RunTypes
  <2>2. /\ next \in {"start", "decide", "locate", "synthesis", "done", "failed"}
        /\ run.shown \cup pages \in SUBSET DOMAIN view
    BY <1>4, <1>7
  <2>3. run' \in [phase : {"start", "decide", "locate", "synthesis", "done", "failed"},
                  calls : 0 .. MaxCalls, posts : 0 .. MaxPosts - 1, context : Nat,
                  shown : SUBSET DOMAIN view, asked : SUBSET Asks, consumed : Nat]
    <3>1. run' = [phase |-> next, calls |-> run.calls + 1, posts |-> 0, asked |-> asked,
                  shown |-> run.shown \cup pages, context |-> run.context + 1 + Cost(pages),
                  consumed |-> Spent(t)]
      BY <1>5, <2>1
    <3> QED
      BY <1>4, <1>6, <1>8, <2>2, <3>1
  <2> QED
    BY <1>1, <2>3, Zenon DEF RunTypes
<1>10. run'.phase = next /\ run'.calls = run.calls + 1 /\ run'.consumed = Spent(t)
  BY <1>5 DEF DiscoveryInv, RunTypes
<1>11. Spent(t) <= MaxTokens + Slack
  BY Budgets
<1>12. RunBounds'
  BY <1>1, <1>4, <1>10, <1>11 DEF RunBounds
<1>13. DelegationInv'
  BY <1>4, <1>10, NoDelegationHolds DEF DelegationInv
<1> QED
  BY <1>1, <1>9, <1>12, <1>13 DEF DiscoveryInv

LEMMA ChunksStillFit ==
  ASSUME view' = view, delegation'.chunks = delegation.chunks,
         \A i \in DOMAIN delegation.chunks : Fits(delegation.chunks[i])
  PROVE  (\A i \in DOMAIN delegation.chunks : Fits(delegation.chunks[i]))'
<1>1. Rendered' = Rendered
  BY DEF Rendered, Visible
<1> QED
  BY <1>1 DEF Fits, LocatorCost, Cost

LEMMA ByPrintedLists ==
  ASSUME ViewInv, NEW numbers
  PROVE  ByPrinted(WithPrinted(numbers)) \in Seq(DOMAIN view)
<1> DEFINE S == WithPrinted(numbers)
           key == [n \in S |-> view[n].printed]
           N == Cardinality(S)
<1>1. S \in SUBSET DOMAIN view /\ \A n \in S : view[n].printed # NoNumber
  BY DEF WithPrinted
<1>2. IsFiniteSet(S)
  BY <1>1, ViewTypes, FS_Subset
<1>3. \A n \in S : view[n].printed \in Nat /\ n \in Nat
  BY <1>1, ViewTypes DEF Pages
<1> HIDE DEF S
<1>4. \A n \in S : key[n] \in Int
  BY <1>3
<1>5. ASSUME NEW m \in S, NEW n \in S, key[m] = key[n] PROVE m = n
  <2>1. ASSUME NEW x \in S, NEW y \in S, x < y PROVE view[x].printed < view[y].printed
    <3>1. view # <<>>
      BY <1>1, ViewTypes
    <3> QED
      BY <1>1, <2>1, <3>1 DEF ViewInv, ViewIsFaithful
  <2>2. view[m].printed = view[n].printed /\ view[m].printed \in Nat
    BY <1>3, <1>5
  <2>3. ~(m < n) /\ ~(n < m)
    BY <2>1, <2>2
  <2> QED
    BY <1>3, <2>3
<1>6. InOrder(S, key) \in [1 .. N -> S]
  BY <1>2, <1>4, <1>5, InOrderSorts
<1>7. N \in Nat
  BY <1>2, FS_CardinalityType
<1>8. ByPrinted(S) = InOrder(S, key)
  BY DEF ByPrinted
<1> HIDE DEF N, key
<1>9. InOrder(S, key) \in Seq(S)
  BY <1>6, <1>7
<1>10. InOrder(S, key) \in Seq(DOMAIN view)
  BY <1>1, <1>9, SeqMonotonic
<1> QED
  BY <1>8, <1>10 DEF S

(* What a request that is not rejected opens are pages of the view.          *)
LEMMA OpensPages ==
  ASSUME ViewInv, view # <<>>, NEW q \in Asks, ~Rejected(q)
  PROVE  Opens(q) \in SUBSET DOMAIN view
<1>1. Len(view) \in Nat /\ DOMAIN view = 1 .. Len(view)
  BY ViewTypes
<1>2. CASE q.tool \in {"page", "pages"}
  <2>1. Opens(q) = q.from .. q.to /\ {q.from, q.to} \subseteq DOMAIN view
    BY <1>2 DEF Opens, Rejected
  <2> QED
    BY <1>1, <2>1
<1>3. CASE q.tool \in {"printed page", "printed pages", "delegate"}
  <2>1. Opens(q) = WithPrinted(q.from .. q.to)
    BY <1>3 DEF Opens
  <2> QED
    BY <2>1 DEF WithPrinted
<1>4. CASE q.tool = "sample"
  <2>1. Opens(q) = SamplePages(q.from, q.to) /\ q.to \in Nat \ {0}
    BY <1>4, DiscoveryAsks DEF Opens
  <2> QED
    BY <2>1, SamplesAreOfTheView
<1>5. CASE q.tool \notin {"page", "pages", "printed page", "printed pages", "delegate", "sample"}
  <2>1. Opens(q) = {}
    BY <1>5 DEF Opens
  <2> QED
    BY <2>1
<1> QED
  BY <1>2, <1>3, <1>4, <1>5

(* The steps of the run.                                                     *)
LEMMA MaterializeKeepsDiscovery ==
  ASSUME DiscoveryInv, Materialize, UNCHANGED discoveryVars
  PROVE  DiscoveryInv'
<1>1. ViewInv'
  BY ViewMaterialized DEF DiscoveryInv
<1>2. view = <<>> /\ run' = run /\ delegation' = delegation
  BY DEF Materialize, discoveryVars
<1>3. run.phase = "start" /\ run.shown = {} /\ delegation = NoDelegation
  BY <1>2 DEF DiscoveryInv, RunBounds, DelegationInv
<1>4. RunTypes'
  BY <1>2, <1>3 DEF DiscoveryInv, RunTypes
<1>5. RunBounds'
  BY <1>2, <1>3 DEF DiscoveryInv, RunBounds
<1>6. DelegationInv'
  BY <1>2, <1>3, NoDelegationHolds DEF DelegationInv
<1> QED
  BY <1>1, <1>4, <1>5, <1>6 DEF DiscoveryInv

LEMMA StartKeepsDiscovery ==
  ASSUME DiscoveryInv, StartDiscovery, UNCHANGED viewVars
  PROVE  DiscoveryInv'
<1>1. view' = view /\ ViewInv'
  BY ViewUnchanged DEF DiscoveryInv, viewVars
<1>2. /\ run.phase = "start" /\ view # <<>> /\ delegation' = delegation
      /\ run' = [run EXCEPT !.phase = "decide", !.shown = {1}]
  BY DEF StartDiscovery
<1>3. {1} \in SUBSET DOMAIN view
  BY <1>2, ViewTypes DEF DiscoveryInv
<1>4. RunTypes'
  BY <1>1, <1>2, <1>3 DEF DiscoveryInv, RunTypes
<1>5. run'.phase = "decide" /\ run'.calls = run.calls /\ run'.consumed = run.consumed
  BY <1>2 DEF DiscoveryInv, RunTypes
<1>6. RunBounds'
  BY <1>1, <1>2, <1>5 DEF DiscoveryInv, RunBounds
<1>7. delegation' = NoDelegation
  BY <1>2 DEF DiscoveryInv, DelegationInv
<1>8. DelegationInv'
  BY <1>5, <1>7, NoDelegationHolds DEF DelegationInv
<1> QED
  BY <1>1, <1>4, <1>6, <1>8 DEF DiscoveryInv

LEMMA FailuresKeepDiscovery ==
  ASSUME DiscoveryInv, UNCHANGED viewVars, Unaffordable \/ PostFails \/ AnswerFails
  PROVE  DiscoveryInv'
<1>1. run.consumed \in Nat /\ run.consumed <= MaxTokens + Slack
  BY DEF DiscoveryInv, RunTypes, RunBounds
<1>2. CASE Unaffordable
  BY <1>1, <1>2, EndsKeeps DEF Unaffordable
<1>3. CASE AnswerFails
  <2>1. PICK t \in Totals : Ends("failed", Spent(t)) /\ Affordable
    BY <1>3 DEF AnswerFails
  <2>2. Spent(t) \in Nat /\ Spent(t) <= MaxTokens + Slack /\ Calling
    BY <2>1, SpentIsBounded DEF Affordable
  <2> QED
    BY <2>1, <2>2, EndsKeeps
<1>4. CASE PostFails /\ Ends("failed", run.consumed)
  BY <1>1, <1>4, EndsKeeps DEF PostFails, Affordable
<1>5. CASE /\ run.posts + 1 < MaxPosts /\ run' = [run EXCEPT !.posts = @ + 1]
           /\ UNCHANGED delegation
  <2>1. view' = view /\ ViewInv' /\ delegation' = delegation
    BY <1>5, ViewUnchanged DEF DiscoveryInv, viewVars
  <2>2. run.posts + 1 \in 0 .. MaxPosts - 1
    BY <1>5, Budgets DEF DiscoveryInv, RunTypes
  <2>3. RunTypes'
    BY <1>5, <2>1, <2>2 DEF DiscoveryInv, RunTypes
  <2>4. /\ run'.phase = run.phase /\ run'.calls = run.calls /\ run'.shown = run.shown
        /\ run'.consumed = run.consumed
    BY <1>5 DEF DiscoveryInv, RunTypes
  <2>5. RunBounds'
    BY <2>1, <2>4 DEF DiscoveryInv, RunBounds
  <2>6. (\A i \in DOMAIN delegation.chunks : Fits(delegation.chunks[i]))'
    BY <2>1, ChunksStillFit DEF DiscoveryInv, DelegationInv
  <2>7. DelegationInv'
    BY <2>1, <2>4, <2>6 DEF DiscoveryInv, DelegationInv
  <2> QED
    BY <2>1, <2>3, <2>5, <2>7 DEF DiscoveryInv
<1> QED
  BY <1>2, <1>3, <1>4, <1>5 DEF PostFails

LEMMA AnsweredFacts ==
  ASSUME DiscoveryInv, NEW phase, NEW t, Answered(phase, t)
  PROVE  /\ run.phase = phase /\ Calling /\ view # <<>>
         /\ Spent(t) \in Nat /\ Spent(t) <= MaxTokens /\ Spent(t) <= MaxTokens + Slack
<1>1. run.phase = phase /\ Affordable /\ t \in Totals /\ Spent(t) <= MaxTokens
  BY DEF Answered
<1>2. Calling /\ view # <<>>
  BY <1>1 DEF Affordable, Calling, DiscoveryInv, RunBounds
<1> QED
  BY <1>1, <1>2, SpentIsBounded

LEMMA FinishKeepsDiscovery ==
  ASSUME DiscoveryInv, UNCHANGED viewVars, NEW t, Finish(t)
  PROVE  DiscoveryInv'
<1>1. /\ run.phase = "decide" /\ view # <<>>
      /\ Spent(t) \in Nat /\ Spent(t) <= MaxTokens /\ Spent(t) <= MaxTokens + Slack
  BY AnsweredFacts DEF Finish
<1>2. /\ run' = [run EXCEPT !.phase = "synthesis", !.calls = @ + 1, !.posts = 0,
                            !.consumed = Spent(t)]
      /\ delegation' = delegation
  BY DEF Finish
<1>3. view' = view /\ ViewInv'
  BY ViewUnchanged DEF DiscoveryInv, viewVars
<1>4. run.calls + 1 \in 0 .. MaxCalls /\ 0 \in 0 .. MaxPosts - 1
  BY <1>1, Budgets DEF DiscoveryInv, RunTypes, RunBounds
<1>5. RunTypes'
  BY <1>1, <1>2, <1>3, <1>4 DEF DiscoveryInv, RunTypes
<1>6. run'.phase = "synthesis" /\ run'.consumed = Spent(t)
  BY <1>2 DEF DiscoveryInv, RunTypes
<1>7. RunBounds'
  BY <1>1, <1>3, <1>6 DEF RunBounds
<1>8. delegation' = NoDelegation
  BY <1>1, <1>2 DEF DiscoveryInv, DelegationInv
<1>9. DelegationInv'
  BY <1>6, <1>8, NoDelegationHolds DEF DelegationInv
<1> QED
  BY <1>3, <1>5, <1>7, <1>9 DEF DiscoveryInv

LEMMA SynthesiseKeepsDiscovery ==
  ASSUME DiscoveryInv, UNCHANGED viewVars, NEW t, Synthesise(t)
  PROVE  DiscoveryInv'
<1>1. Calling /\ Spent(t) \in Nat /\ Spent(t) <= MaxTokens /\ Spent(t) <= MaxTokens + Slack
  BY AnsweredFacts DEF Synthesise
<1> QED
  BY <1>1, EndsKeeps DEF Synthesise

LEMMA ReadKeepsDiscovery ==
  ASSUME DiscoveryInv, UNCHANGED viewVars, NEW t, NEW q \in Asks, Read(t, q)
  PROVE  DiscoveryInv'
<1> DEFINE opened == IF q \in run.asked \/ Rejected(q) \/ ~Inlined(q) THEN {} ELSE Opens(q)
<1>1. run.phase = "decide" /\ view # <<>> /\ Spent(t) \in Nat /\ Spent(t) <= MaxTokens
  BY AnsweredFacts DEF Read
<1>2. opened \in SUBSET DOMAIN view
  BY <1>1, OpensPages DEF DiscoveryInv
<1>3. run.asked \cup {q} \in SUBSET Asks
  BY DEF DiscoveryInv, RunTypes
<1>4. run' = AfterStep(t, run.asked \cup {q}, opened) /\ delegation' = delegation
  BY DEF Read
<1> HIDE DEF opened
<1>5. delegation' = NoDelegation
  BY <1>1, <1>4 DEF DiscoveryInv, DelegationInv
<1> QED
  BY <1>1, <1>2, <1>3, <1>4, <1>5, AfterStepKeeps

LEMMA DelegateKeepsDiscovery ==
  ASSUME DiscoveryInv, UNCHANGED viewVars, NEW t, NEW q \in Asks, Delegate(t, q)
  PROVE  DiscoveryInv'
<1> DEFINE pages == ByPrinted(Opens(q))
<1>1. /\ run.phase = "decide" /\ Calling /\ view # <<>>
      /\ Spent(t) \in Nat /\ Spent(t) <= MaxTokens /\ Spent(t) <= MaxTokens + Slack
  BY AnsweredFacts DEF Delegate
<1>2. q.tool = "delegate"
  BY DEF Delegate
<1>3. pages \in Seq(DOMAIN view)
  BY <1>2, ByPrintedLists DEF Opens, DiscoveryInv
<1>4. CASE \E n \in Range(pages) : LocatorCost(<<n>>) > DelegatedLimit
  <2>1. Ends("failed", Spent(t))
    BY <1>4 DEF Delegate
  <2> QED
    BY <1>1, <2>1, EndsKeeps
<1>5. CASE ~\E n \in Range(pages) : LocatorCost(<<n>>) > DelegatedLimit
  <2>1. /\ run' = [run EXCEPT !.phase = "locate", !.posts = 0, !.asked = @ \cup {q},
                              !.consumed = Spent(t)]
        /\ delegation' = [pages |-> pages, chunks |-> Chunks[pages], at |-> 1, cited |-> {}]
    BY <1>5 DEF Delegate
  <2> HIDE DEF pages
  <2>2. view' = view /\ ViewInv' /\ ViewInv
    BY ViewUnchanged DEF DiscoveryInv, viewVars
  <2>3. ASSUME NEW n \in Range(pages) PROVE Fits(<<n>>)
    <3>1. n \in DOMAIN view
      BY <1>3, RangeOfSeq
    <3>2. <<n>> \in Seq(DOMAIN view)
      BY <3>1
    <3>3. LocatorCost(<<n>>) \in Nat /\ DelegatedLimit \in Nat
      BY <2>2, <3>2, LocatorCostIsNatural, Budgets
    <3> QED
      BY <1>5, <3>3 DEF Fits
  <2>4. Chunked(pages)
    BY <1>3, <2>3, NothingFits, ChunksFit
  <2> DEFINE chunks == Chunks[pages]
  <2>5. /\ chunks \in Seq(Seq(DOMAIN view)) /\ chunks # <<>> /\ FlattenSeq(chunks) = pages
        /\ \A i \in DOMAIN chunks : Fits(chunks[i])
    BY <2>4 DEF Chunked
  <2>6. delegation' = [pages |-> pages, chunks |-> chunks, at |-> 1, cited |-> {}]
    BY <2>1
  <2> HIDE DEF chunks
  <2>7. 1 \in 1 .. Len(chunks)
    BY <2>5
  <2>8. 0 \in 0 .. MaxPosts - 1
    BY Budgets
  <2>9. RunTypes'
    BY <1>1, <2>1, <2>2, <2>8 DEF DiscoveryInv, RunTypes
  <2>10. run'.phase = "locate" /\ run'.calls = run.calls /\ run'.consumed = Spent(t)
    BY <2>1 DEF DiscoveryInv, RunTypes
  <2>11. RunBounds'
    BY <1>1, <2>2, <2>10 DEF DiscoveryInv, RunBounds
  <2>12. delegation'.chunks = chunks /\ delegation'.pages = pages /\ delegation'.at = 1
    BY <2>6
  <2>13. (\A i \in DOMAIN delegation.chunks : Fits(delegation.chunks[i]))'
    <3>1. Rendered' = Rendered
      BY <2>2 DEF Rendered, Visible
    <3> QED
      BY <2>5, <2>12, <3>1 DEF Fits, LocatorCost, Cost
  <2>14. delegation' \in [pages : Seq(DOMAIN view), chunks : Seq(Seq(DOMAIN view)),
                          at : Nat, cited : SUBSET DOMAIN view]
    BY <1>3, <2>5, <2>6
  <2>15. DelegationInv'
    BY <2>2, <2>5, <2>7, <2>10, <2>12, <2>13, <2>14 DEF DelegationInv
  <2> QED
    BY <2>2, <2>9, <2>11, <2>15 DEF DiscoveryInv
<1> QED
  BY <1>4, <1>5

LEMMA LocateKeepsDiscovery ==
  ASSUME DiscoveryInv, UNCHANGED viewVars, NEW t, NEW cited \in SUBSET DOMAIN view,
         Locate(t, cited)
  PROVE  DiscoveryInv'
<1>1. /\ run.phase = "locate" /\ Calling /\ view # <<>>
      /\ Spent(t) \in Nat /\ Spent(t) <= MaxTokens /\ Spent(t) <= MaxTokens + Slack
  BY AnsweredFacts DEF Locate
<1>2. /\ delegation \in [pages : Seq(DOMAIN view), chunks : Seq(Seq(DOMAIN view)),
                         at : Nat, cited : SUBSET DOMAIN view]
      /\ delegation.at \in 1 .. Len(delegation.chunks)
  BY <1>1 DEF DiscoveryInv, DelegationInv
<1>3. delegation.cited \cup cited \in SUBSET DOMAIN view
  BY <1>2
<1>4. CASE Ends("failed", Spent(t))
  BY <1>1, <1>4, EndsKeeps
<1>5. CASE /\ run' = AfterStep(t, run.asked, delegation.cited \cup cited)
           /\ delegation' = NoDelegation
  <2>1. run.asked \in SUBSET Asks
    BY DEF DiscoveryInv, RunTypes
  <2> QED
    BY <1>1, <1>3, <1>5, <2>1, AfterStepKeeps
<1>6. CASE /\ delegation.at < Len(delegation.chunks)
           /\ run' = [run EXCEPT !.posts = 0, !.consumed = Spent(t)]
           /\ delegation' = [delegation EXCEPT !.at = @ + 1, !.cited = @ \cup cited]
  <2>1. view' = view /\ ViewInv'
    BY ViewUnchanged DEF DiscoveryInv, viewVars
  <2>2. 0 \in 0 .. MaxPosts - 1
    BY Budgets
  <2>3. RunTypes'
    BY <1>1, <1>6, <2>1, <2>2 DEF DiscoveryInv, RunTypes
  <2>4. run'.phase = "locate" /\ run'.calls = run.calls /\ run'.consumed = Spent(t)
    BY <1>1, <1>6 DEF DiscoveryInv, RunTypes
  <2>5. RunBounds'
    BY <1>1, <2>1, <2>4 DEF DiscoveryInv, RunBounds
  <2>6. /\ delegation'.pages = delegation.pages /\ delegation'.chunks = delegation.chunks
        /\ delegation'.at = delegation.at + 1
    BY <1>2, <1>6
  <2>7. Len(delegation.chunks) \in Nat
    BY <1>2
  <2>8. delegation.at + 1 \in 1 .. Len(delegation.chunks) /\ delegation.at + 1 \in Nat
    BY <1>2, <1>6, <2>7
  <2>9. delegation' \in [pages : Seq(DOMAIN view), chunks : Seq(Seq(DOMAIN view)),
                         at : Nat, cited : SUBSET DOMAIN view]
    BY <1>2, <1>3, <1>6, <2>8
  <2>10. (\A i \in DOMAIN delegation.chunks : Fits(delegation.chunks[i]))'
    BY <2>1, <2>6, ChunksStillFit DEF DiscoveryInv, DelegationInv
  <2>11. FlattenSeq(delegation.chunks) = delegation.pages
    BY DEF DiscoveryInv, DelegationInv
  <2>12. DelegationInv'
    BY <2>1, <2>4, <2>6, <2>8, <2>9, <2>10, <2>11 DEF DelegationInv
  <2> QED
    BY <2>1, <2>3, <2>5, <2>12 DEF DiscoveryInv
<1> QED
  BY <1>4, <1>5, <1>6 DEF Locate

LEMMA StutterKeepsDiscovery ==
  ASSUME DiscoveryInv, UNCHANGED viewVars, UNCHANGED discoveryVars
  PROVE  DiscoveryInv'
<1>1. ViewInv' /\ view' = view /\ run' = run /\ delegation' = delegation
  BY ViewUnchanged DEF DiscoveryInv, viewVars, discoveryVars
<1>2. RunTypes' /\ RunBounds'
  BY <1>1 DEF DiscoveryInv, RunTypes, RunBounds
<1>3. (\A i \in DOMAIN delegation.chunks : Fits(delegation.chunks[i]))'
  BY <1>1, ChunksStillFit DEF DiscoveryInv, DelegationInv
<1>4. DelegationInv'
  BY <1>1, <1>3 DEF DiscoveryInv, DelegationInv
<1> QED
  BY <1>1, <1>2, <1>4 DEF DiscoveryInv

LEMMA DiscoveryStarts == ViewInit /\ DiscoveryInit => DiscoveryInv
<1> SUFFICES ASSUME ViewInit, DiscoveryInit PROVE DiscoveryInv
  OBVIOUS
<1>1. ViewInv /\ view = <<>>
  BY ViewStarts DEF ViewInit
<1>2. /\ run = [phase |-> "start", calls |-> 0, posts |-> 0, context |-> 0,
                shown |-> {}, asked |-> {}, consumed |-> 0]
      /\ delegation = NoDelegation
  BY DEF DiscoveryInit
<1>3. 0 \in 0 .. MaxCalls /\ 0 \in 0 .. MaxPosts - 1 /\ 0 \in Nat
  BY Budgets
<1>4. RunTypes
  BY <1>2, <1>3 DEF RunTypes
<1>5. RunBounds
  BY <1>2, Budgets DEF RunBounds
<1>6. DelegationInv
  BY <1>2, NoDelegationHolds DEF DelegationInv
<1> QED
  BY <1>1, <1>4, <1>5, <1>6 DEF DiscoveryInv

LEMMA DiscoveryStepKeeps ==
  ASSUME DiscoveryInv, DiscoveryStep
  PROVE  DiscoveryInv'
<1>1. CASE Materialize /\ UNCHANGED discoveryVars
  BY <1>1, MaterializeKeepsDiscovery
<1>2. ASSUME DiscoveryNext, UNCHANGED viewVars PROVE DiscoveryInv'
  <2>1. CASE StartDiscovery
    BY <1>2, <2>1, StartKeepsDiscovery
  <2>2. CASE Unaffordable \/ PostFails \/ AnswerFails
    BY <1>2, <2>2, FailuresKeepDiscovery
  <2>3. ASSUME NEW t \in Totals, Finish(t) PROVE DiscoveryInv'
    BY <1>2, <2>3, FinishKeepsDiscovery
  <2>4. ASSUME NEW t \in Totals, Synthesise(t) PROVE DiscoveryInv'
    BY <1>2, <2>4, SynthesiseKeepsDiscovery
  <2>5. ASSUME NEW t \in Totals, NEW q \in Asks, Read(t, q) PROVE DiscoveryInv'
    BY <1>2, <2>5, ReadKeepsDiscovery
  <2>6. ASSUME NEW t \in Totals, NEW q \in Asks, Delegate(t, q) PROVE DiscoveryInv'
    BY <1>2, <2>6, DelegateKeepsDiscovery
  <2>7. ASSUME NEW t \in Totals, NEW cited \in SUBSET DOMAIN view, Locate(t, cited)
        PROVE  DiscoveryInv'
    BY <1>2, <2>7, LocateKeepsDiscovery
  <2> QED
    BY <1>2, <2>1, <2>2, <2>3, <2>4, <2>5, <2>6, <2>7 DEF DiscoveryNext
<1> QED
  BY <1>1, <1>2 DEF DiscoveryStep

LEMMA DiscoveryInvIsKept == DiscoverySpec => []DiscoveryInv
<1>1. ViewInit /\ DiscoveryInit => DiscoveryInv
  BY DiscoveryStarts
<1>2. DiscoveryInv /\ [DiscoveryStep]_<<viewVars, discoveryVars>> => DiscoveryInv'
  BY DiscoveryStepKeeps, StutterKeepsDiscovery
<1> QED
  BY <1>1, <1>2, PTL DEF DiscoverySpec

LEMMA DiscoveryInvTypes == DiscoveryInv => DiscoveryTypeOK
<1> SUFFICES ASSUME DiscoveryInv PROVE DiscoveryTypeOK
  OBVIOUS
<1>1. RunTypes
  BY DEF DiscoveryInv
<1>2. delegation.at \in 0 .. Len(delegation.chunks)
  <2>1. CASE run.phase = "locate"
    BY <2>1 DEF DiscoveryInv, DelegationInv
  <2>2. CASE run.phase # "locate"
    <3>1. delegation.at = 0 /\ delegation.chunks = <<>>
      BY <2>2 DEF DiscoveryInv, DelegationInv, NoDelegation
    <3> QED
      BY <3>1
  <2> QED
    BY <2>1, <2>2
<1> QED
  BY <1>1, <1>2 DEF RunTypes, DiscoveryTypeOK

(* Every run of the discovery agent, over a scan of any length, with any      *)
(* limits and whatever the models ask and answer, keeps its types: what it   *)
(* has shown are pages of the view, and calls and posts stay within theirs.  *)
THEOREM DiscoveryTypesCorrect == DiscoverySpec => []DiscoveryTypeOK
  BY DiscoveryInvIsKept, DiscoveryInvTypes, PTL

LEMMA BudgetHolds == DiscoveryInv => BudgetIsKept
  BY DEF DiscoveryInv, RunBounds, DelegationInv, BudgetIsKept, Fits

(* The token budget bounds every run of the discovery agent, for every         *)
(* budget, ceiling and context limit: consumption passes the budget by no    *)
(* more than one answer's excess, a run that returns has not passed it, and  *)
(* the chunks of a delegation are the delegated pages, each within what a    *)
(* locator may be sent.                                                      *)
THEOREM BudgetsAreKept == DiscoverySpec => []BudgetIsKept
  BY BudgetHolds, DiscoveryInvIsKept, PTL

-----------------------------------------------------------------------------
(* The extraction.  Beyond the property: an agent reads of a view there is,  *)
(* an auditor's annotations fit the decision it is given from its start, and *)
(* what validated once holds of the view as long as it is kept.             *)
Quoted(s) == s.page \in DOMAIN view /\ s.to <= view[s.page].text /\ s.exact
AgentInv ==
    /\ agent \in [role : Roles \cup {"none"}, turns : 0 .. MaxTurns,
                  shown : SUBSET DOMAIN view]
    /\ agent.role = "none" => agent = Idle
    /\ view = <<>> => agent = Idle
    /\ agent.role = "extraction" => agent.shown \subseteq decision
    /\ agent.role = "extraction auditor" => \A s \in annotations : SpanHolds(s, decision)
FindingsInv ==
    /\ hypothesis \subseteq Claims /\ \A c \in hypothesis : ClaimHolds(c)
    /\ decision \subseteq DOMAIN view
    /\ annotations \subseteq Spans /\ \A s \in annotations : Quoted(s)
    /\ bridged \subseteq Spans /\ \A s \in bridged : Quoted(s)
AuditInv ==
    /\ audit.of \in {"none", "structure", "extraction"} /\ audit.allows \in BOOLEAN
    /\ audit.of = "extraction" => \A s \in audit.annotations : s.page \in audit.decision
ExtractionInv == ViewInv /\ AgentInv /\ FindingsInv /\ AuditInv

LEMMA IdleAgent ==
  ASSUME NEW D
  PROVE  Idle \in [role : Roles \cup {"none"}, turns : 0 .. MaxTurns, shown : SUBSET D]
         /\ Idle.role = "none"
<1>1. 0 \in 0 .. MaxTurns
  BY ExtractionBounds
<1> QED
  BY <1>1 DEF Idle

LEMMA FindingsStay ==
  ASSUME FindingsInv, view' = view, hypothesis' = hypothesis, decision' = decision,
         annotations' = annotations, bridged' = bridged
  PROVE  FindingsInv'
  BY DEF FindingsInv, ClaimHolds, Sourced, Quoted

LEMMA ExtractionStarts == ViewInit /\ ExtractionInit => ExtractionInv
<1> SUFFICES ASSUME ViewInit, ExtractionInit PROVE ExtractionInv
  OBVIOUS
<1>1. ViewInv
  BY ViewStarts
<1>2. /\ agent = Idle /\ hypothesis = {} /\ decision = {}
      /\ annotations = {} /\ audit = NoAudit /\ bridged = {}
  BY DEF ExtractionInit
<1>3. AgentInv
  BY <1>2, IdleAgent DEF AgentInv
<1>4. FindingsInv
  BY <1>2 DEF FindingsInv
<1>5. AuditInv
  BY <1>2 DEF AuditInv, NoAudit
<1> QED
  BY <1>1, <1>3, <1>4, <1>5 DEF ExtractionInv

LEMMA MaterializeKeepsExtraction ==
  ASSUME ExtractionInv, Materialize, UNCHANGED extractionVars
  PROVE  ExtractionInv'
<1>1. ViewInv'
  BY ViewMaterialized DEF ExtractionInv
<1>2. /\ view = <<>> /\ DOMAIN view = {}
      /\ agent' = agent /\ hypothesis' = hypothesis /\ decision' = decision
      /\ annotations' = annotations /\ audit' = audit /\ bridged' = bridged
  BY DEF Materialize, extractionVars
<1>3. /\ agent = Idle /\ hypothesis = {} /\ decision = {}
      /\ annotations = {} /\ bridged = {}
  BY <1>2 DEF ExtractionInv, AgentInv, FindingsInv, ClaimHolds, Quoted
<1>4. AgentInv'
  BY <1>2, <1>3, IdleAgent DEF AgentInv
<1>5. FindingsInv'
  BY <1>2, <1>3 DEF FindingsInv
<1>6. AuditInv'
  BY <1>2 DEF ExtractionInv, AuditInv
<1> QED
  BY <1>1, <1>4, <1>5, <1>6 DEF ExtractionInv

LEMMA StutterKeepsExtraction ==
  ASSUME ExtractionInv, UNCHANGED viewVars, UNCHANGED extractionVars
  PROVE  ExtractionInv'
<1>1. ViewInv'
  BY ViewUnchanged DEF ExtractionInv
<1>2. /\ view' = view
      /\ agent' = agent /\ hypothesis' = hypothesis /\ decision' = decision
      /\ annotations' = annotations /\ audit' = audit /\ bridged' = bridged
  BY DEF viewVars, extractionVars
<1>3. AgentInv'
  BY <1>2 DEF ExtractionInv, AgentInv, SpanHolds
<1>4. FindingsInv'
  BY <1>2, FindingsStay DEF ExtractionInv
<1>5. AuditInv'
  BY <1>2 DEF ExtractionInv, AuditInv
<1> QED
  BY <1>1, <1>3, <1>4, <1>5 DEF ExtractionInv

(* Steps of an agent that leave the results alone.                           *)
LEMMA AgentStepKeeps ==
  ASSUME ExtractionInv, UNCHANGED viewVars,
         UNCHANGED <<hypothesis, decision, annotations, audit, bridged>>, AgentInv'
  PROVE  ExtractionInv'
<1>1. ViewInv'
  BY ViewUnchanged DEF ExtractionInv
<1>2. FindingsInv'
  BY FindingsStay DEF ExtractionInv, viewVars
<1>3. AuditInv'
  BY DEF ExtractionInv, AuditInv
<1> QED
  BY <1>1, <1>2, <1>3 DEF ExtractionInv

LEMMA AgentIdleAgain ==
  ASSUME agent' = Idle
  PROVE  AgentInv'
<1>1. agent'.role = "none"
  BY IdleAgent
<1> QED
  BY <1>1, IdleAgent DEF AgentInv

LEMMA StartAgentKeeps ==
  ASSUME ExtractionInv, UNCHANGED viewVars, NEW role \in Roles, StartAgent(role)
  PROVE  ExtractionInv'
<1> DEFINE first == IF role = "structure" THEN {1} ELSE {}
<1>1. /\ view # <<>> /\ MayStart(role) /\ view' = view
      /\ agent' = [role |-> role, turns |-> 0, shown |-> first]
      /\ decision' = decision /\ annotations' = annotations
      /\ UNCHANGED <<hypothesis, decision, annotations, audit, bridged>>
  BY DEF StartAgent, viewVars
<1>2. first \in SUBSET DOMAIN view /\ (role = "extraction" => first = {})
  BY <1>1, ViewTypes DEF ExtractionInv
<1> HIDE DEF first
<1>3. 0 \in 0 .. MaxTurns
  BY ExtractionBounds
<1>4. agent' \in [role : Roles \cup {"none"}, turns : 0 .. MaxTurns, shown : SUBSET DOMAIN view']
  BY <1>1, <1>2, <1>3
<1>5. agent'.role = role /\ agent'.shown = first /\ role # "none"
  BY <1>1 DEF Roles
<1>6. role = "extraction auditor" => \A s \in annotations : SpanHolds(s, decision)
  BY <1>1 DEF MayStart
<1>7. AgentInv'
  BY <1>1, <1>2, <1>4, <1>5, <1>6 DEF AgentInv, SpanHolds
<1> QED
  BY <1>1, <1>7, AgentStepKeeps

LEMMA ShowsKeeps ==
  ASSUME ExtractionInv, UNCHANGED viewVars, agent.role \in Roles,
         NEW pages \in SUBSET DOMAIN view,
         agent.role = "extraction" => pages \subseteq decision, Shows(pages)
  PROVE  ExtractionInv'
<1>1. /\ agent.turns < MaxTurns /\ view' = view
      /\ agent' = [agent EXCEPT !.turns = @ + 1, !.shown = @ \cup pages]
      /\ decision' = decision /\ annotations' = annotations
      /\ UNCHANGED <<hypothesis, decision, annotations, audit, bridged>>
  BY DEF Shows, viewVars
<1>2. AgentInv
  BY DEF ExtractionInv
<1>a. agent.turns \in 0 .. MaxTurns
  BY <1>2 DEF AgentInv
<1>3. agent.turns + 1 \in 0 .. MaxTurns
  BY <1>1, <1>a, ExtractionBounds
<1>4. agent' \in [role : Roles \cup {"none"}, turns : 0 .. MaxTurns, shown : SUBSET DOMAIN view']
  BY <1>1, <1>2, <1>3 DEF AgentInv
<1>5. agent'.role = agent.role /\ agent'.shown = agent.shown \cup pages
  BY <1>1, <1>2 DEF AgentInv
<1>6. agent.role # "none" /\ view # <<>>
  BY <1>2, IdleAgent DEF AgentInv, Roles
<1>7. AgentInv'
  BY <1>1, <1>2, <1>4, <1>5, <1>6 DEF AgentInv, SpanHolds
<1> QED
  BY <1>1, <1>7, AgentStepKeeps

LEMMA IntervalOfPages ==
  ASSUME ViewInv, NEW a \in DOMAIN view, NEW b \in DOMAIN view
  PROVE  a .. b \in SUBSET DOMAIN view
  BY ViewTypes

LEMMA ReadsKeep ==
  ASSUME ExtractionInv, UNCHANGED viewVars
  PROVE  /\ \A a, b \in DOMAIN view : ReadSource(a, b) => ExtractionInv'
         /\ \A p \in DOMAIN view : ReadDecision(p) => ExtractionInv'
<1>1. ASSUME NEW a \in DOMAIN view, NEW b \in DOMAIN view, ReadSource(a, b)
      PROVE  ExtractionInv'
  <2>1. agent.role \in Roles /\ agent.role # "extraction" /\ Shows(a .. b)
    BY <1>1 DEF ReadSource
  <2>2. a .. b \in SUBSET DOMAIN view
    BY IntervalOfPages DEF ExtractionInv
  <2> QED
    BY <2>1, <2>2, ShowsKeeps
<1>2. ASSUME NEW p \in DOMAIN view, ReadDecision(p) PROVE ExtractionInv'
  <2>1. agent.role \in Roles /\ {p} \subseteq decision /\ Shows({p})
    BY <1>2 DEF ReadDecision, Roles
  <2>2. {p} \in SUBSET DOMAIN view
    OBVIOUS
  <2> QED
    BY <2>1, <2>2, ShowsKeeps
<1> QED
  BY <1>1, <1>2

(* Steps that leave a result.                                                *)
LEMMA AnswersKeep ==
  ASSUME ExtractionInv, UNCHANGED viewVars
  PROVE  /\ \A claims \in SUBSET Claims : AnswerHypothesis(claims) => ExtractionInv'
         /\ \A a \in Answers, claims \in SUBSET Claims :
               AnswerStructureAudit(a, claims) => ExtractionInv'
         /\ \A spans \in SUBSET Spans : AnswerAnnotations(spans) => ExtractionInv'
         /\ \A a \in Answers, claims \in SUBSET Claims, s \in Spans :
               AnswerExtractionAudit(a, claims, s) => ExtractionInv'
<1>0. ViewInv' /\ view' = view /\ FindingsInv /\ AuditInv /\ AgentInv
  BY ViewUnchanged DEF ExtractionInv, viewVars
<1>a. \A a \in Answers : Allows(a) \in BOOLEAN
  BY DEF Allows
<1>1. ASSUME NEW claims \in SUBSET Claims, AnswerHypothesis(claims) PROVE ExtractionInv'
  <2>1. /\ agent' = Idle /\ (\A c \in claims : ClaimHolds(c)) /\ hypothesis' = claims
        /\ decision' = decision /\ annotations' = annotations /\ audit' = audit
        /\ bridged' = bridged
    BY <1>1 DEF AnswerHypothesis, Answering
  <2>2. FindingsInv'
    BY <1>0, <2>1 DEF FindingsInv, ClaimHolds, Sourced, Quoted
  <2>3. AuditInv'
    BY <1>0, <2>1 DEF AuditInv
  <2> QED
    BY <1>0, <2>1, <2>2, <2>3, AgentIdleAgain DEF ExtractionInv
<1>2. ASSUME NEW a \in Answers, NEW claims \in SUBSET Claims, AnswerStructureAudit(a, claims)
      PROVE  ExtractionInv'
  <2>1. /\ agent' = Idle /\ hypothesis' = hypothesis
        /\ audit' = [NoAudit EXCEPT !.of = "structure", !.allows = Allows(a)]
        /\ decision' = decision /\ annotations' = annotations /\ bridged' = bridged
    BY <1>2 DEF AnswerStructureAudit, Answering
  <2>2. FindingsInv'
    BY <1>0, <2>1, FindingsStay
  <2>3. audit'.of = "structure" /\ audit'.allows = Allows(a)
    BY <2>1 DEF NoAudit
  <2>4. AuditInv'
    BY <1>a, <2>3 DEF AuditInv
  <2> QED
    BY <1>0, <2>1, <2>2, <2>4, AgentIdleAgain DEF ExtractionInv
<1>3. ASSUME NEW spans \in SUBSET Spans, AnswerAnnotations(spans) PROVE ExtractionInv'
  <2>1. /\ agent' = Idle /\ (\A s \in spans : SpanHolds(s, decision))
        /\ annotations' = spans /\ hypothesis' = hypothesis
        /\ decision' = decision /\ audit' = audit /\ bridged' = bridged
    BY <1>3 DEF AnswerAnnotations, Answering
  <2>2. \A s \in spans : Quoted(s)
    BY <1>0, <2>1 DEF SpanHolds, Quoted, FindingsInv
  <2>3. FindingsInv'
    BY <1>0, <2>1, <2>2 DEF FindingsInv, ClaimHolds, Sourced, Quoted
  <2>4. AuditInv'
    BY <1>0, <2>1 DEF AuditInv
  <2> QED
    BY <1>0, <2>1, <2>3, <2>4, AgentIdleAgain DEF ExtractionInv
<1>4. ASSUME NEW a \in Answers, NEW claims \in SUBSET Claims, NEW s \in Spans,
             AnswerExtractionAudit(a, claims, s)
      PROVE  ExtractionInv'
  <2>1. /\ agent' = Idle /\ agent.role = "extraction auditor" /\ hypothesis' = hypothesis
        /\ audit' = [of |-> "extraction", allows |-> Allows(a), decision |-> decision,
                     annotations |-> annotations]
        /\ decision' = decision /\ annotations' = annotations /\ bridged' = bridged
    BY <1>4 DEF AnswerExtractionAudit, Answering
  <2>2. FindingsInv'
    BY <1>0, <2>1, FindingsStay
  <2>3. \A x \in annotations : x.page \in decision
    BY <1>0, <2>1 DEF AgentInv, SpanHolds
  <2>4. /\ audit'.of = "extraction" /\ audit'.allows = Allows(a)
        /\ audit'.decision = decision /\ audit'.annotations = annotations
    BY <2>1
  <2>5. AuditInv'
    BY <1>a, <2>3, <2>4 DEF AuditInv
  <2> QED
    BY <1>0, <2>1, <2>2, <2>5, AgentIdleAgain DEF ExtractionInv
<1> QED
  BY <1>1, <1>2, <1>3, <1>4

LEMMA ResultsKeep ==
  ASSUME ExtractionInv, UNCHANGED viewVars
  PROVE  /\ \A a, b \in DOMAIN view : Reconstruct(a, b) => ExtractionInv'
         /\ Bridge => ExtractionInv'
         /\ AgentFails => ExtractionInv'
<1>0. ViewInv' /\ view' = view /\ FindingsInv /\ AuditInv /\ AgentInv
  BY ViewUnchanged DEF ExtractionInv, viewVars
<1>1. ASSUME NEW a \in DOMAIN view, NEW b \in DOMAIN view, Reconstruct(a, b)
      PROVE  ExtractionInv'
  <2>1. /\ agent' = Idle /\ decision' = a .. b /\ hypothesis' = hypothesis
        /\ annotations' = annotations /\ audit' = audit /\ bridged' = bridged
    BY <1>1 DEF Reconstruct
  <2>2. a .. b \in SUBSET DOMAIN view
    BY IntervalOfPages DEF ExtractionInv
  <2>3. FindingsInv'
    BY <1>0, <2>1, <2>2 DEF FindingsInv, ClaimHolds, Sourced, Quoted
  <2>4. AuditInv'
    BY <1>0, <2>1 DEF AuditInv
  <2> QED
    BY <1>0, <2>1, <2>3, <2>4, AgentIdleAgain DEF ExtractionInv
<1>2. ASSUME Bridge PROVE ExtractionInv'
  <2>1. /\ agent' = Idle /\ bridged' \subseteq annotations /\ hypothesis' = hypothesis
        /\ annotations' = annotations /\ audit' = audit /\ decision' = decision
    BY <1>2 DEF Bridge
  <2>2. FindingsInv'
    BY <1>0, <2>1 DEF FindingsInv, ClaimHolds, Sourced, Quoted
  <2>3. AuditInv'
    BY <1>0, <2>1 DEF AuditInv
  <2> QED
    BY <1>0, <2>1, <2>2, <2>3, AgentIdleAgain DEF ExtractionInv
<1>3. ASSUME AgentFails PROVE ExtractionInv'
  BY <1>3, AgentIdleAgain, AgentStepKeeps DEF AgentFails
<1> QED
  BY <1>1, <1>2, <1>3

LEMMA ExtractionStepKeeps ==
  ASSUME ExtractionInv, ExtractionStep
  PROVE  ExtractionInv'
<1>1. CASE Materialize /\ UNCHANGED extractionVars
  BY <1>1, MaterializeKeepsExtraction
<1>2. ASSUME ExtractionNext, UNCHANGED viewVars PROVE ExtractionInv'
  <2>0. \A S : AtMostOne(S) \subseteq SUBSET S
    BY DEF AtMostOne
  <2>1. CASE AgentFails \/ Bridge
    BY <1>2, <2>1, ResultsKeep
  <2>2. CASE \E role \in Roles : StartAgent(role)
    BY <1>2, <2>2, StartAgentKeeps
  <2>3. CASE \E a, b \in DOMAIN view : ReadSource(a, b) \/ Reconstruct(a, b)
    BY <1>2, <2>3, ReadsKeep, ResultsKeep
  <2>4. CASE \E p \in DOMAIN view : ReadDecision(p)
    BY <1>2, <2>4, ReadsKeep
  <2>5. CASE \E claims \in AtMostOne(Claims) :
                \/ AnswerHypothesis(claims)
                \/ \E a \in Answers : AnswerStructureAudit(a, claims)
    BY <1>2, <2>0, <2>5, AnswersKeep
  <2>6. CASE \E claims \in AtMostOne(Claims), a \in Answers, s \in Spans :
                AnswerExtractionAudit(a, claims, s)
    BY <1>2, <2>0, <2>6, AnswersKeep
  <2>7. CASE \E spans \in AtMostOne(Spans) : AnswerAnnotations(spans)
    BY <1>2, <2>0, <2>7, AnswersKeep
  <2> QED
    BY <1>2, <2>1, <2>2, <2>3, <2>4, <2>5, <2>6, <2>7 DEF ExtractionNext
<1> QED
  BY <1>1, <1>2 DEF ExtractionStep

LEMMA ExtractionInvIsKept == ExtractionSpec => []ExtractionInv
<1>1. ViewInit /\ ExtractionInit => ExtractionInv
  BY ExtractionStarts
<1>2. ExtractionInv /\ [ExtractionStep]_<<viewVars, extractionVars>> => ExtractionInv'
  BY ExtractionStepKeeps, StutterKeepsExtraction
<1> QED
  BY <1>1, <1>2, PTL DEF ExtractionSpec

LEMMA ExtractionInvTypes == ExtractionInv => ExtractionTypeOK
  BY DEF ExtractionInv, AgentInv, FindingsInv, AuditInv, ExtractionTypeOK

(* Whatever the agents answer and the caller repeats, the extraction keeps    *)
(* its types: pages shown and decided on are pages of the view, and no agent *)
(* takes a turn past its last.                                               *)
THEOREM ExtractionTypesCorrect == ExtractionSpec => []ExtractionTypeOK
  BY ExtractionInvIsKept, ExtractionInvTypes, PTL

LEMMA SourcesHold == ExtractionInv => EvidenceIsSourced
<1>1. ASSUME ExtractionInv PROVE EvidenceIsSourced
  <2>0. ViewInv /\ AgentInv /\ FindingsInv /\ AuditInv
    BY <1>1 DEF ExtractionInv
  <2>1. ASSUME NEW s \in bridged
        PROVE  /\ s.exact
               /\ s.to <= sheets[view[s.page].shows].regions[view[s.page].side].text
    <3>1. Quoted(s)
      BY <2>0 DEF FindingsInv
    <3>2. s.page \in DOMAIN view /\ view # <<>>
      BY <3>1 DEF Quoted
    <3>3. view[s.page].text = sheets[view[s.page].shows].regions[view[s.page].side].text
      BY <2>0, <3>2 DEF ViewInv, ViewIsFaithful
    <3> QED
      BY <3>1, <3>3, Zenon DEF Quoted
  <2>2. ASSUME NEW c \in hypothesis
        PROVE  \E i \in view[c.page].sources :
                  c.printed \in sheets[i].regions[view[c.page].side].marks
    <3>1. ClaimHolds(c)
      BY <2>0 DEF FindingsInv
    <3>2. c.page \in DOMAIN view /\ view # <<>>
      BY <3>1 DEF ClaimHolds
    <3>3. view[c.page].printed # NoNumber /\ view[c.page].printed = c.printed
      BY <3>1 DEF ClaimHolds
    <3>4. \E i \in view[c.page].sources :
             view[c.page].printed \in sheets[i].regions[view[c.page].side].marks
      BY <2>0, <3>2, <3>3 DEF ViewInv, ViewIsFaithful
    <3> QED
      BY <3>3, <3>4
  <2> QED
    BY <2>0, <2>1, <2>2 DEF ViewInv, AgentInv, AuditInv, EvidenceIsSourced
<1> QED
  BY <1>1

(* Every citation and every claim the extraction keeps leads back to a sheet  *)
(* of the scan that shows it, the extraction agent sees no page but those of *)
(* its decision, and an audit that allows is of annotations that quote the  *)
(* decision it was given: for every scan, every set of answers and order of *)
(* the stages.                                                               *)
THEOREM EvidenceAlwaysSourced == ExtractionSpec => []EvidenceIsSourced
  BY SourcesHold, ExtractionInvIsKept, PTL

-----------------------------------------------------------------------------
(* The scenes together: a step of one part leaves the variables of the       *)
(* others alone, but for the view, which both agents read.                  *)
LegalInv == TxInv /\ AgreeInv /\ DecisionsGrounded /\ NormsGrounded
EvidenceInv == Inv /\ LegalInv /\ DiscoveryInv /\ ExtractionInv

LEMMA OcrKept ==
  ASSUME Inv, OcrNext \/ UNCHANGED ocrAll
  PROVE  Inv'
  BY InvStep

LEMMA LegalKept ==
  ASSUME LegalInv, GraphNext \/ CanonNext \/ UNCHANGED legalVars
  PROVE  LegalInv'
  BY TxStep, AgreeStep, GroundedStep DEF LegalNext, LegalInv

LEMMA EvidenceInvStep ==
  ASSUME EvidenceInv, [EvidenceNext]_evidenceVars
  PROVE  EvidenceInv'
<1>0. Inv /\ LegalInv /\ DiscoveryInv /\ ExtractionInv
  BY DEF EvidenceInv
<1>1. ASSUME UNCHANGED readingVars PROVE DiscoveryInv' /\ ExtractionInv'
  <2>1. UNCHANGED viewVars /\ UNCHANGED discoveryVars /\ UNCHANGED extractionVars
    BY <1>1 DEF readingVars
  <2> QED
    BY <1>0, <2>1, StutterKeepsDiscovery, StutterKeepsExtraction
<1>2. CASE InOcr(OcrNext)
  BY <1>0, <1>1, <1>2, OcrKept, LegalKept DEF InOcr, EvidenceInv
<1>3. CASE InLegal("graph", GraphNext) \/ InLegal("canon", CanonNext)
  BY <1>0, <1>1, <1>3, OcrKept, LegalKept DEF InLegal, EvidenceInv
<1>4. CASE InReading("discovery", DiscoveryStep /\ UNCHANGED extractionVars)
  <2>1. Inv' /\ LegalInv' /\ DiscoveryStep /\ UNCHANGED extractionVars
    BY <1>0, <1>4, OcrKept, LegalKept DEF InReading
  <2>2. DiscoveryInv'
    BY <1>0, <2>1, DiscoveryStepKeeps
  <2>3. Materialize \/ UNCHANGED viewVars
    BY <2>1 DEF DiscoveryStep
  <2>4. ExtractionInv'
    BY <1>0, <2>1, <2>3, MaterializeKeepsExtraction, StutterKeepsExtraction
  <2> QED
    BY <2>1, <2>2, <2>4 DEF EvidenceInv
<1>5. CASE InReading("extraction", ExtractionStep /\ UNCHANGED discoveryVars)
  <2>1. Inv' /\ LegalInv' /\ ExtractionStep /\ UNCHANGED discoveryVars
    BY <1>0, <1>5, OcrKept, LegalKept DEF InReading
  <2>2. ExtractionInv'
    BY <1>0, <2>1, ExtractionStepKeeps
  <2>3. Materialize \/ UNCHANGED viewVars
    BY <2>1 DEF ExtractionStep
  <2>4. DiscoveryInv'
    BY <1>0, <2>1, <2>3, MaterializeKeepsDiscovery, StutterKeepsDiscovery
  <2> QED
    BY <2>1, <2>2, <2>4 DEF EvidenceInv
<1>6. CASE UNCHANGED evidenceVars
  BY <1>0, <1>1, <1>6, OcrKept, LegalKept DEF evidenceVars, EvidenceInv
<1> QED
  BY <1>2, <1>3, <1>4, <1>5, <1>6 DEF EvidenceNext

LEMMA EvidenceInvInit == EvidenceInit => EvidenceInv
<1>1. LegalInit => DecisionsGrounded /\ NormsGrounded
  BY DEF LegalInit, DecisionsGrounded, NormsGrounded
<1> QED
  BY <1>1, InvInit, TxInit, AgreeInit, DiscoveryStarts, ExtractionStarts
     DEF EvidenceInit, EvidenceInv, LegalInv

LEMMA EvidenceInvIsKept == EvidenceSpec => []EvidenceInv
<1>1. EvidenceInv /\ [EvidenceNext]_evidenceVars => EvidenceInv'
  BY EvidenceInvStep
<1> QED
  BY <1>1, EvidenceInvInit, PTL DEF EvidenceSpec

(* In every scene, every part keeps its types: a part that stands still is   *)
(* not disturbed by the one that runs, not even by the view that appears.   *)
THEOREM EvidenceTypesCorrect == EvidenceSpec => []EvidenceTypeOK
<1>1. Inv => OcrTypeOK
  BY DEF Inv, CensusInv, CensusTypes, OcrInv, OcrTypes, OcrTypeOK, CensusTypeOK,
     Stages, JobSteps, AnyScan
<1>2. LegalInv => LegalTypeOK
  BY TypeParts DEF LegalInv, TxInv
<1>3. EvidenceInv => EvidenceTypeOK
  BY <1>1, <1>2, DiscoveryInvTypes, ExtractionInvTypes DEF EvidenceInv, EvidenceTypeOK
<1> QED
  BY <1>3, EvidenceInvIsKept, PTL

(* And in every scene every part keeps its promise: the safety properties of *)
(* census, OCR, graph, canon, discovery and extraction hold of the parts     *)
(* together, for all their constants.                                        *)
THEOREM ScenesKeepTheirPromises ==
  EvidenceSpec => /\ [](CensusIsWhole /\ OcrCoversCensus)
                  /\ [](PromotionsAgree /\ KnowledgeIsGrounded)
                  /\ [](BudgetIsKept /\ EvidenceIsSourced)
                  /\ NeverPaidTwice
<1>1. Inv => CensusIsWhole /\ OcrCoversCensus /\ TasksInv
  BY DEF Inv, CensusInv, OcrInv
<1>2. LegalInv => PromotionsAgree /\ KnowledgeIsGrounded
  BY DEF LegalInv, AgreeInv, OneAssertion, OriginAccepted, AcceptedIsEvidence,
         EvidenceOnce, PromotionsAgree, DecisionsGrounded, NormsGrounded, Grounded,
         KnowledgeIsGrounded
<1>3. /\ EvidenceInv => CensusIsWhole /\ OcrCoversCensus
      /\ EvidenceInv => PromotionsAgree /\ KnowledgeIsGrounded
      /\ EvidenceInv => BudgetIsKept /\ EvidenceIsSourced
      /\ EvidenceInv => TasksInv
  BY <1>1, <1>2, BudgetHolds, SourcesHold DEF EvidenceInv
<1>4. TasksInv => [\A p \in AllPages :
          /\ task[p] = "call1" /\ task'[p] = "put1" => ~Has(First(p))
          /\ task[p] = "call2" /\ task'[p] = "put2" =>
                ~Has(Second(p)) /\ Has(First(p))]_ocrAll
  BY DEF TasksInv
<1> QED
  BY <1>3, <1>4, EvidenceInvIsKept, PTL DEF NeverPaidTwice
=============================================================================
