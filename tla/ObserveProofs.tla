---------------------------- MODULE ObserveProofs ----------------------------
(***************************************************************************)
(* Proofs about Observe, for every quorum, every set of liars smaller than *)
(* its threshold, every set of names, and every bound.                     *)
(***************************************************************************)
EXTENDS Observe, FiniteSetTheorems, TLAPS

(* The three histories and the answers are functions on the questions.     *)
Shape ==
  /\ published = [k \in Keys |-> published[k]]
  /\ was = [k \in Keys |-> was[k]]
  /\ heard = [k \in Keys |-> heard[k]]

(* An honest vantage point said what the zone held at some moment.         *)
HonestHeard ==
  /\ \A k \in Keys : published[k] \in was[k]
  /\ \A k \in Keys : \A v \in Vantages \ Liars :
       heard[k][v].got = "answer" => heard[k][v].values \in was[k]

Inv == TypeOK /\ Shape /\ HonestHeard

Asking == {k \in Keys : stage[k] = "asking"}

LEMMA ThresholdPositive == Threshold \in Nat \ {0}
<1>1. IsFiniteSet(Liars)
  BY LiarsAssumption, FS_Subset
<1> QED BY <1>1, LiarsAssumption, BoundsAssumption, FS_CardinalityType

LEMMA HeardTypes ==
  ASSUME NEW k \in Keys
  PROVE  /\ Pending \in Heard(k) /\ Failed \in Heard(k)
         /\ \A S \in Published(k) : Said(S) \in Heard(k)
BY DEF Heard, Pending, Failed, Said

-----------------------------------------------------------------------------
LEMMA InvInit == Init => Inv
<1> SUFFICES ASSUME Init PROVE Inv
  OBVIOUS
<1> USE DEF Init
<1>1. \A k \in Keys : heard[k] \in [Vantages -> Heard(k)]
  BY HeardTypes
<1>2. Asking = {} /\ Cardinality(Asking) = 0
  BY FS_EmptySet DEF Asking
<1>3. \A k \in Keys : published[k] \in Published(k) /\ was[k] \subseteq Published(k)
  BY StartAssumption
<1>4. TypeOK
  <2>1. Cardinality({k \in Keys : stage[k] = "asking"}) <= MaxInFlight
    BY <1>2, BoundsAssumption DEF Asking
  <2>2. /\ stage \in [Keys -> {"waiting", "asking", "read", "abandoned"}]
        /\ changes \in 0..MaxChanges /\ faults \in 0..MaxFaults
    BY BoundsAssumption
  <2>3. cancelled \in BOOLEAN
    BY Zenon
  <2> QED BY <1>1, <1>3, <2>1, <2>2, <2>3 DEF TypeOK
<1>5. Shape
  BY StartAssumption DEF Shape
<1>6. HonestHeard
  BY DEF HonestHeard, Pending
<1> QED BY <1>4, <1>5, <1>6 DEF Inv

(* Lookups in flight take no more than the slots there are.                *)
LEMMA SlotsStep ==
  ASSUME TypeOK, [Next]_vars
  PROVE  Cardinality(Asking') <= MaxInFlight
<1> USE BoundsAssumption
<1>0. IsFiniteSet(Asking) /\ Cardinality(Asking) <= MaxInFlight /\ Cardinality(Asking) \in Nat
  BY KeysAssumption, FS_Subset, FS_CardinalityType DEF Asking, TypeOK
<1>1. ASSUME NEW k \in Keys, Dispatch(k) PROVE Cardinality(Asking') <= MaxInFlight
  <2>1. Asking' = Asking \union {k} /\ k \notin Asking
    <3>1. stage[k] = "waiting" /\ stage'[k] = "asking" /\ \A j \in Keys \ {k} : stage'[j] = stage[j]
      BY <1>1 DEF Dispatch, TypeOK
    <3> QED BY <3>1 DEF Asking
  <2>2. Cardinality(Asking) < MaxInFlight
    BY <1>1 DEF Dispatch, Free, Asking
  <2>3. Cardinality(Asking') = Cardinality(Asking) + 1
    BY <1>0, <2>1, FS_AddElement, Zenon
  <2> QED BY <1>0, <2>2, <2>3
<1>2. CASE Asking' \subseteq Asking
  <2>1. Cardinality(Asking') <= Cardinality(Asking) /\ Cardinality(Asking') \in Nat
    BY <1>0, <1>2, FS_Subset, FS_CardinalityType
  <2> QED BY <1>0, <2>1
<1>3. ASSUME NEW k \in Keys, Abandon(k) \/ Conclude(k) PROVE Asking' \subseteq Asking
  BY <1>3 DEF Abandon, Conclude, Asking, TypeOK
<1>4. stage' = stage => Asking' \subseteq Asking
  BY DEF Asking
<1> QED
  BY <1>1, <1>2, <1>3, <1>4 DEF Next, vars, Cancel, Change, Answer, Fail, Hears

(* A vantage point is heard once, honestly or not.                         *)
LEMMA HearsStep ==
  ASSUME Inv, NEW k \in Keys, NEW v \in Vantages, NEW a \in Heard(k), Hears(k, v, a),
         v \in Vantages \ Liars => (a.got = "answer" => a.values \in was[k])
  PROVE  /\ \A j \in Keys : heard'[j] \in [Vantages -> Heard(j)]
         /\ Shape' /\ HonestHeard'
<1> USE DEF Inv, Shape
<1>1. /\ heard' = [heard EXCEPT ![k] = [heard[k] EXCEPT ![v] = a]]
      /\ UNCHANGED <<published, was, stage, cancelled, changes>>
  BY DEF Hears, zone
<1>2. heard'[k] = [heard[k] EXCEPT ![v] = a] /\ \A j \in Keys \ {k} : heard'[j] = heard[j]
  BY <1>1
<1>3. heard[k] \in [Vantages -> Heard(k)]
  BY DEF TypeOK
<1>4. heard'[k] \in [Vantages -> Heard(k)]
  BY <1>2, <1>3
<1>5. \A j \in Keys : heard'[j] \in [Vantages -> Heard(j)]
  BY <1>2, <1>4 DEF TypeOK
<1>6. Shape'
  BY <1>1
<1>7. \A w \in Vantages : heard'[k][w] = IF w = v THEN a ELSE heard[k][w]
  BY <1>2, <1>3
<1>8. HonestHeard'
  BY <1>1, <1>2, <1>7 DEF HonestHeard
<1> QED BY <1>5, <1>6, <1>8

LEMMA InvStep == Inv /\ [Next]_vars => Inv'
<1> SUFFICES ASSUME Inv, [Next]_vars PROVE Inv'
  OBVIOUS
<1> USE BoundsAssumption
<1>0. Cardinality({k \in Keys : stage'[k] = "asking"}) <= MaxInFlight
  BY SlotsStep DEF Inv, Asking
<1>1. CASE Cancel
  BY <1>0, <1>1 DEF Cancel, Inv, TypeOK, Shape, HonestHeard, zone
<1>2. ASSUME NEW k \in Keys, Change(k) PROVE Inv'
  <2>1. PICK S \in Published(k) : /\ published' = [published EXCEPT ![k] = S]
                                  /\ was' = [was EXCEPT ![k] = @ \union {S}]
    BY <1>2 DEF Change
  <2>2. UNCHANGED <<stage, heard, cancelled, faults>> /\ changes' \in 0..MaxChanges
    BY <1>2 DEF Change, Inv, TypeOK
  <2>3. Shape'
    BY <2>1, <2>2 DEF Inv, Shape
  <2>4. /\ published'[k] = S /\ was'[k] = was[k] \union {S}
        /\ \A j \in Keys \ {k} : published'[j] = published[j] /\ was'[j] = was[j]
    BY <2>1 DEF Inv, Shape
  <2>5. \A j \in Keys : published'[j] \in Published(j) /\ was'[j] \subseteq Published(j)
    BY <2>4 DEF Inv, TypeOK
  <2>6. TypeOK'
    BY <1>0, <2>2, <2>5 DEF Inv, TypeOK
  <2>7. HonestHeard'
    BY <2>2, <2>4 DEF Inv, HonestHeard
  <2> QED BY <2>3, <2>6, <2>7 DEF Inv
<1>3. ASSUME NEW k \in Keys, Dispatch(k) \/ Abandon(k) \/ Conclude(k) PROVE Inv'
  <2>1. /\ stage' \in [Keys -> {"waiting", "asking", "read", "abandoned"}]
        /\ UNCHANGED <<zone, heard, cancelled, changes, faults>>
    BY <1>3 DEF Dispatch, Abandon, Conclude, Inv, TypeOK
  <2> QED BY <1>0, <2>1 DEF Inv, TypeOK, Shape, HonestHeard, zone
<1>4. ASSUME NEW k \in Keys, NEW v \in Vantages, Answer(k, v) \/ Fail(k, v) PROVE Inv'
  <2>1. PICK a \in Heard(k) :
          /\ Hears(k, v, a)
          /\ v \in Vantages \ Liars => (a.got = "answer" => a.values \in was[k])
    <3>1. CASE Answer(k, v)
      <4>1. PICK S \in IF v \in Liars THEN Published(k) ELSE was[k] : Hears(k, v, Said(S))
        BY <3>1 DEF Answer
      <4>2. S \in Published(k)
        BY DEF Inv, TypeOK
      <4>3. v \in Vantages \ Liars => S \in was[k]
        OBVIOUS
      <4> QED BY <4>1, <4>2, <4>3, HeardTypes DEF Said
    <3>2. CASE Fail(k, v)
      BY <3>2, HeardTypes DEF Fail, Failed
    <3> QED BY <1>4, <3>1, <3>2
  <2>2. /\ \A j \in Keys : heard'[j] \in [Vantages -> Heard(j)]
        /\ Shape' /\ HonestHeard'
    BY <2>1, HearsStep
  <2>3. UNCHANGED <<zone, stage, cancelled, changes>> /\ faults' \in 0..MaxFaults
    BY <1>4 DEF Answer, Fail, Hears, Inv, TypeOK
  <2> QED BY <1>0, <2>2, <2>3 DEF Inv, TypeOK, zone
<1>5. CASE UNCHANGED vars
  BY <1>5 DEF vars, zone, Inv, TypeOK, Shape, HonestHeard
<1> QED BY <1>1, <1>2, <1>3, <1>4, <1>5 DEF Next

LEMMA InvHolds == Spec => []Inv
BY InvInit, InvStep, PTL DEF Spec

(* Every variable of a report keeps its type, and lookups never take more  *)
(* slots than there are (resolveAll).                                      *)
THEOREM TypeCorrect == Spec => []TypeOK
BY InvHolds, PTL DEF Inv

-----------------------------------------------------------------------------
(* As many as the threshold are not all liars.                             *)
LEMMA OneIsHonest ==
  ASSUME NEW S \in SUBSET Vantages, Meets(S)
  PROVE  \E v \in S : v \notin Liars
<1> SUFFICES ASSUME S \subseteq Liars PROVE FALSE
  OBVIOUS
<1>1. IsFiniteSet(Liars)
  BY LiarsAssumption, FS_Subset
<1>2. Cardinality(S) <= Cardinality(Liars) /\ Cardinality(S) \in Nat /\ Cardinality(Liars) \in Nat
  BY <1>1, FS_Subset, FS_CardinalityType
<1> QED BY <1>2, LiarsAssumption, BoundsAssumption DEF Meets

(* Fewer liars than the threshold cannot forge a reading: what is reported *)
(* was published, and a name reported not to resolve did not (Quorum).     *)
THEOREM ReadingWasTrueHolds == Spec => []ReadingWasTrue
<1>1. Inv => ReadingWasTrue
  <2> SUFFICES ASSUME Inv, NEW k \in Keys
               PROVE  /\ \A x \in Agreed(k) : \E S \in was[k] : x \in S
                      /\ ~Unknown(k) /\ Agreed(k) = {} => {} \in was[k]
    BY DEF ReadingWasTrue
  <2>1. ASSUME NEW x \in Agreed(k) PROVE \E S \in was[k] : x \in S
    <3>1. PICK v \in Holding(k, x) : v \notin Liars
      BY OneIsHonest DEF Agreed, Holding, Answered
    <3> QED BY <3>1 DEF Holding, Answered, Inv, HonestHeard
  <2>2. ASSUME ~Unknown(k), Agreed(k) = {} PROVE {} \in was[k]
    <3>1. Meets(Empty(k))
      BY <2>2 DEF Unknown, NoQuorum
    <3>2. PICK v \in Empty(k) : v \notin Liars
      BY <3>1, OneIsHonest DEF Empty, Answered
    <3> QED BY <3>2 DEF Empty, Answered, Inv, HonestHeard
  <2> QED BY <2>1, <2>2
<1> QED BY <1>1, InvHolds, PTL

-----------------------------------------------------------------------------
(* What all who answered say, when they are enough, is what is agreed.     *)
LEMMA UnanimousAgreed ==
  ASSUME TypeOK, NEW k \in Keys, NEW S, Cardinality(Answered(k)) >= Threshold,
         \A v \in Answered(k) : heard[k][v].values = S
  PROVE  /\ S \in Published(k)
         /\ Agreed(k) = S
         /\ Meets(Answered(k))
         /\ \A x \in S : Holding(k, x) = Answered(k)
         /\ S = {} => Empty(k) = Answered(k)
<1>1. IsFiniteSet(Answered(k)) /\ Cardinality(Answered(k)) <= Cardinality(Vantages)
  BY LiarsAssumption, FS_Subset DEF Answered
<1>2. Cardinality(Answered(k)) \in Nat /\ Cardinality(Vantages) \in Nat
  BY <1>1, LiarsAssumption, FS_CardinalityType
<1>3. Meets(Answered(k))
  BY <1>1, <1>2, ThresholdPositive DEF Meets
<1>4. PICK v \in Answered(k) : TRUE
  BY <1>1, <1>2, ThresholdPositive, FS_EmptySet
<1>5. heard[k][v] \in Heard(k) /\ heard[k][v].got = "answer" /\ heard[k][v].values = S
  BY <1>4 DEF TypeOK, Answered
<1>6. S \in Published(k)
  BY <1>5 DEF Heard
<1>7. Served(k) = S
  BY <1>4 DEF Served
<1>8. \A x \in S : Holding(k, x) = Answered(k)
  BY DEF Holding
<1>9. Agreed(k) = S
  BY <1>3, <1>7, <1>8 DEF Agreed
<1> QED BY <1>3, <1>6, <1>8, <1>9 DEF Empty

(* Enough honest answers settle it: the report is not unknown, is what the *)
(* zone deserves, and rests on all who answered (agree, classify).         *)
THEOREM AgreementDecidesHolds == Spec => []AgreementDecides
<1>1. Inv => AgreementDecides
  <2> SUFFICES ASSUME Inv, NEW k \in Keys, NEW S \in UNION {Published(j) : j \in Keys},
                      stage[k] = "read", Cardinality(Answered(k)) >= Threshold,
                      \A v \in Answered(k) : heard[k][v].values = S
               PROVE  State(k) = Deserved(k, S) /\ Weakest(k) = Cardinality(Answered(k))
    BY DEF AgreementDecides
  <2>1. /\ S \in Published(k) /\ Agreed(k) = S /\ Meets(Answered(k))
        /\ \A x \in S : Holding(k, x) = Answered(k)
        /\ S = {} => Empty(k) = Answered(k)
    BY UnanimousAgreed DEF Inv
  <2>2. Type[k] \in {"CNAME", "TXT"} /\ Wanted[k] \subseteq Values /\ Itself \notin Values
    BY KeysAssumption
  <2>3. Type[k] = "CNAME" /\ S # {} => \E x : S = {x}
    BY <2>1, <2>2 DEF Published
  <2>4. Type[k] = "CNAME" /\ S # {} => Cardinality(S) = 1
    BY <2>3, FS_Singleton
  <2>5. ~Unknown(k)
    BY <2>1, <2>4 DEF Unknown, NoQuorum
  <2>6. Itself \in S => S = {Itself}
    BY <2>1, <2>2 DEF Published
  <2>7. State(k) = Deserved(k, S)
    BY <2>1, <2>2, <2>5, <2>6 DEF State, Deserved, Matched
  <2>8. Weakest(k) = Cardinality(Answered(k))
    <3>1. CASE S = {}
      BY <2>1, <2>5, <3>1 DEF Weakest
    <3>2. CASE S # {}
      <4>1. {Cardinality(Holding(k, x)) : x \in Agreed(k)} = {Cardinality(Answered(k))}
        BY <2>1, <3>2
      <4>2. Cardinality(Answered(k)) \in Nat
        BY LiarsAssumption, FS_Subset, FS_CardinalityType DEF Answered
      <4>3. Min({Cardinality(Answered(k))}) = Cardinality(Answered(k))
        BY <4>2 DEF Min
      <4> QED BY <2>1, <2>5, <3>2, <4>1, <4>3 DEF Weakest
    <3> QED BY <3>1, <3>2
  <2> QED BY <2>7, <2>8
<1> QED BY <1>1, InvHolds, PTL
=============================================================================
