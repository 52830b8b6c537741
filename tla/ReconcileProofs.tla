--------------------------- MODULE ReconcileProofs ---------------------------
(***************************************************************************)
(* Proofs about Reconcile, for every zone, set of calls and set of plans,  *)
(* and every bound.                                                        *)
(***************************************************************************)
EXTENDS Reconcile, TLAPS

(* A call's control state agrees with its plan and its request.            *)
Control == \A p \in Passes :
  /\ pc[p] = "idle" => at[p] = 1
  /\ pc[p] \in Active => plan[p] \in Publishable
  /\ pc[p] \in {"sent", "observe"} =>
       /\ at[p] \in DOMAIN plan[p]
       /\ req[p] \in Request /\ req[p].want = Want(p) /\ req[p].by = p

LEMMA PlanTypes ==
  ASSUME TypeOK, NEW p \in Passes
  PROVE  /\ plan[p] \in Seq(Record) /\ Len(plan[p]) \in Nat
         /\ DOMAIN plan[p] = 1..Len(plan[p])
         /\ \A k \in DOMAIN plan[p] : plan[p][k] \in Record
<1>1. plan[p] \in Plans \union {<<>>}
  BY DEF TypeOK
<1>2. <<>> \in Seq(Record)
  OBVIOUS
<1>3. plan[p] \in Seq(Record)
  BY <1>1, <1>2, PlansAssumption
<1> QED
  BY <1>3

LEMMA WitnessType ==
  ASSUME TypeOK, Witness, plan' \in [Passes -> Plans \union {<<>>}]
  PROVE  met' \in [Passes -> SUBSET Nat]
<1>1. \A p \in Passes : SettledIn(zone', plan'[p]) \subseteq Nat
  BY PlansAssumption DEF SettledIn
<1> QED
  BY <1>1 DEF Witness, TypeOK

LEMMA TypeInit == Init => TypeOK /\ Control
BY RowsAssumption, BoundsAssumption DEF Init, TypeOK, Control, ZoneInit, Ids, Unseen, Active, Results

LEMMA EndsType ==
  ASSUME TypeOK, Control, NEW p \in Passes, NEW r \in Results, Ends(p, r)
  PROVE  /\ pc' \in [Passes -> Active \union {"idle", "done"}]
         /\ plan' \in [Passes -> Plans \union {<<>>}]
         /\ seen' \in [Passes -> [Names -> [Ids -> Record \union {NoRow}]]]
         /\ read' \in [Passes -> SUBSET Names] /\ at' \in [Passes -> Nat \ {0}]
         /\ req' \in [Passes -> Request \union {NoReq}]
         /\ open' \in [Passes -> BOOLEAN] /\ result' \in [Passes -> Results]
         /\ \A q \in Passes : at'[q] <= Len(plan'[q]) + 1
         /\ Control'
<1>1. pc'[p] = "done" /\ \A q \in Passes \ {p} : pc'[q] = pc[q] /\ req'[q] = req[q]
  BY DEF Ends, TypeOK
<1>2. Control'
  BY <1>1 DEF Ends, Control, Want, Active
<1> QED
  BY <1>2 DEF Ends, TypeOK, Unseen

LEMMA NamesOfRows == \A r \in Record : r.name \in Names
BY DEF Record

LEMMA TypeStep ==
  ASSUME TypeOK, Control, [Next]_vars
  PROVE  TypeOK' /\ Control'
<1> USE RowsAssumption, BoundsAssumption DEF TypeOK, Control, zvars, pvars, Fault, Goto, Active
<1>1. ASSUME NEW p \in Passes, NEW s \in Plans, Begin(p, s), Witness
      PROVE  TypeOK' /\ Control'
  <2>1. plan' \in [Passes -> Plans \union {<<>>}]
    BY <1>1 DEF Begin
  <2>2. met' \in [Passes -> SUBSET Nat]
    BY <1>1, <2>1, WitnessType
  <2>3. s \in Seq(Record) /\ Len(s) \in Nat
    BY PlansAssumption
  <2>4. \A q \in Passes : at'[q] <= Len(plan'[q]) + 1
    BY <1>1, <2>3 DEF Begin
  <2>5. TypeOK'
    BY <1>1, <2>1, <2>2, <2>4 DEF Begin
  <2>6. Control'
    BY <1>1 DEF Begin, Want
  <2> QED BY <2>5, <2>6
<1>2. ASSUME NEW p \in Passes, Decline(p), Witness
      PROVE  TypeOK' /\ Control'
  <2>1. PICK r \in Results : Ends(p, r)
    <3>1. \A s \in Plans : Declined(s) \in Results
      BY DEF Declined, Results
    <3>2. "no_token" \in Results
      BY DEF Results
    <3> QED BY <1>2, <3>1, <3>2 DEF Decline
  <2>2. UNCHANGED <<zvars, edits>> /\ faults' \in 0..MaxFaults
    BY <1>2 DEF Decline
  <2>3. plan' \in [Passes -> Plans \union {<<>>}]
    BY <2>1, EndsType
  <2>4. met' \in [Passes -> SUBSET Nat]
    BY <1>2, <2>3, WitnessType
  <2> QED BY <2>1, <2>2, <2>4, EndsType
<1>3. ASSUME NEW p \in Passes, FindZone(p), Witness
      PROVE  TypeOK' /\ Control'
  <2>1. pc' = [pc EXCEPT ![p] = "list"] /\ pc[p] = "find"
    BY <1>3 DEF FindZone
  <2>2. TypeOK'
    BY <1>3, <2>1, WitnessType DEF FindZone
  <2>3. Control'
    BY <1>3, <2>1 DEF FindZone, Want
  <2> QED BY <2>2, <2>3
<1>4. ASSUME NEW p \in Passes, ListName(p), Witness
      PROVE  TypeOK' /\ Control'
  <2>1. PICK n \in Names :
          /\ seen' = [seen EXCEPT ![p][n] =
                     [i \in Ids |-> IF Live(i) /\ zone[i].name = n THEN zone[i] ELSE NoRow]]
          /\ read' = [read EXCEPT ![p] = @ \union {n}]
    <3>1. \A k \in DOMAIN plan[p] : plan[p][k].name \in Names
      BY PlanTypes DEF Record
    <3> QED BY <1>4, <3>1 DEF ListName
  <2>2. seen' \in [Passes -> [Names -> [Ids -> Record \union {NoRow}]]]
    BY <2>1
  <2> QED BY <1>4, <2>1, <2>2, WitnessType DEF ListName, Want
<1>5. ASSUME NEW p \in Passes, AllRead(p) \/ Publish(p) \/ Skip(p), Witness
      PROVE  TypeOK' /\ Control'
  <2>1. CASE AllRead(p)
    BY <1>5, <2>1, WitnessType DEF AllRead, Want
  <2>2. CASE Publish(p)
    BY <1>5, <2>2, WitnessType, EndsType DEF Publish, Results
  <2>3. CASE Skip(p)
    BY SMTT(40), <1>5, <2>3, WitnessType, PlanTypes DEF Skip, InLoop, Advance, Want
  <2> QED BY <1>5, <2>1, <2>2, <2>3
<1>6. ASSUME NEW p \in Passes, RefuseNameInUse(p) \/ SendTooLate(p) \/ CallFails(p), Witness
      PROVE  TypeOK' /\ Control'
  <2>1. PICK r \in Results : Ends(p, r)
    BY <1>6 DEF RefuseNameInUse, SendTooLate, CallFails, Results
  <2>2. UNCHANGED <<zvars, edits>> /\ faults' \in 0..MaxFaults
    BY <1>6 DEF RefuseNameInUse, SendTooLate, CallFails
  <2> QED BY <1>6, <2>1, <2>2, EndsType, WitnessType
<1>7. ASSUME NEW p \in Passes, Send(p), Witness
      PROVE  TypeOK' /\ Control'
  <2>1. PICK t \in Targets(p) :
          req' = [req EXCEPT ![p] = [id |-> t, want |-> Want(p), by |-> p]]
    BY <1>7 DEF Send
  <2>2. t \in 0..MaxRows /\ Want(p) \in Record
    BY <1>7, <2>1, PlanTypes DEF Targets, Ours, SameType, Present, Ids, Send, InLoop, Want
  <2>3. [id |-> t, want |-> Want(p), by |-> p] \in Request
    BY <2>2 DEF Request
  <2>4. req' \in [Passes -> Request \union {NoReq}]
    BY <2>1, <2>3
  <2> QED BY <1>7, <2>1, <2>3, <2>4, WitnessType DEF Send, InLoop, Want
<1>8. ASSUME NEW r \in Request, Apply(r)
      PROVE  /\ zone' \in [Ids -> Record \union {NoRow}] /\ issued' \in 0..MaxRows
             /\ disturbed' \subseteq Names
             /\ origin' \in [Ids -> Passes \union {Customer, Nobody}]
  <2>1. r.want \in Record /\ r.by \in Passes /\ issued \in Nat
    BY <1>8 DEF Request
  <2>2. CASE r.id = 0 /\ AddRow(r.want)
    <3>1. issued + 1 \in Ids /\ issued + 1 \in 0..MaxRows
      BY <2>1, <2>2 DEF AddRow, Ids
    <3>2. zone' \in [Ids -> Record \union {NoRow}] /\ issued' \in 0..MaxRows
      BY <2>1, <2>2, <3>1 DEF AddRow
    <3>3. origin' = [origin EXCEPT ![issued + 1] = r.by] /\ disturbed' = disturbed
      BY <1>8, <2>2 DEF Apply
    <3> QED BY <2>1, <3>2, <3>3
  <2>3. CASE r.id # 0
    BY <1>8, <2>1, <2>3 DEF Apply
  <2> QED BY <1>8, <2>2, <2>3 DEF Apply
<1>9. ASSUME NEW p \in Passes, Accept(p), Witness
      PROVE  TypeOK' /\ Control'
  <2>1. req[p] \in Request /\ at[p] \in DOMAIN plan[p]
    BY <1>9 DEF Accept
  <2> QED BY SMTT(40), <1>8, <1>9, <2>1, WitnessType, PlanTypes DEF Accept, Advance, Want
<1>10. ASSUME NEW p \in Passes, Reject(p) \/ ObserveGivesUp(p) \/ Crash(p), Witness
      PROVE  TypeOK' /\ Control'
  <2>1. PICK r \in Results : Ends(p, r)
    BY <1>10 DEF Reject, ObserveGivesUp, Crash, Results
  <2>2. late' \subseteq Request
    BY <1>10 DEF Reject, ObserveGivesUp, Crash
  <2>3. UNCHANGED <<zone, issued, disturbed, origin, edits>> /\ faults' \in 0..MaxFaults
    BY <1>10 DEF Reject, ObserveGivesUp, Crash
  <2> QED BY <1>10, <2>1, <2>2, <2>3, EndsType, WitnessType
<1>11. ASSUME NEW p \in Passes, Duplicate(p) \/ LoseAnswer(p), Witness
      PROVE  TypeOK' /\ Control'
  <2>1. late' \subseteq Request /\ faults' \in 0..MaxFaults
    BY <1>11 DEF Duplicate, LoseAnswer
  <2> QED BY ZenonT(60), <1>11, <2>1, WitnessType DEF Duplicate, LoseAnswer, Want
<1>12. ASSUME NEW p \in Passes, ObserveFinds(p), Witness
      PROVE  TypeOK' /\ Control'
  BY <1>12, WitnessType, PlanTypes DEF ObserveFinds, Advance, Want
<1>13. ASSUME NEW p \in Passes, CloseWindow(p), Witness
      PROVE  TypeOK' /\ Control'
  BY <1>13, WitnessType DEF CloseWindow, Want
<1>14. ASSUME ApplyLate, Witness
      PROVE  TypeOK' /\ Control'
  BY <1>8, <1>14, WitnessType DEF ApplyLate, Want
<1>15. ASSUME CustomerStep, Witness
      PROVE  TypeOK' /\ Control'
  <2>1. /\ zone' \in [Ids -> Record \union {NoRow}] /\ issued' \in 0..MaxRows
        /\ disturbed' \subseteq Names
    <3>1. CASE CustomerAdds
      BY <3>1 DEF CustomerAdds, AddRow, Ids
    <3>2. CASE CustomerEdits
      BY <3>2, NamesOfRows DEF CustomerEdits, Live
    <3>3. CASE CustomerDeletes
      BY <3>3, NamesOfRows DEF CustomerDeletes, Live
    <3> QED BY <1>15, <3>1, <3>2, <3>3 DEF CustomerStep
  <2>2. origin' \in [Ids -> Passes \union {Customer, Nobody}]
    BY <1>15 DEF CustomerStep, ByCustomer
  <2> QED BY <1>15, <2>1, <2>2, WitnessType DEF CustomerStep, Edit, Want
<1>16. CASE UNCHANGED vars
  BY <1>16 DEF vars, Want
<1> QED
  BY <1>1, <1>2, <1>3, <1>4, <1>5, <1>6, <1>7, <1>9, <1>10, <1>11, <1>12, <1>13, <1>14,
     <1>15, <1>16 DEF Next, Engine, Call, Progress

(* The types hold of every reachable state.                                *)
THEOREM TypeCorrect == Spec => [](TypeOK /\ Control)
<1>1. Init => TypeOK /\ Control
  BY TypeInit
<1>2. TypeOK /\ Control /\ [Next]_vars => TypeOK' /\ Control'
  BY TypeStep
<1> QED
  BY <1>1, <1>2, PTL DEF Spec

-----------------------------------------------------------------------------
(* The inductive invariant behind the contract.  A row read earlier is     *)
(* still the same record, unless the customer edited rows at its name; and *)
(* then the row with that id, if any, is at a name they edited too.  The   *)
(* requests sent from such a read inherit it, in flight or late.           *)

Tracks(i, r) == \/ Live(i) /\ Same(zone[i], r)
                \/ r.name \in disturbed /\ (Live(i) => zone[i].name \in disturbed)

Fresh == \A i \in Ids : i > issued => ~Live(i)

SeenTracks == \A p \in Passes, n \in Names, i \in Ids :
  seen[p][n][i] # NoRow =>
    seen[p][n][i].name = n /\ i <= issued /\ Tracks(i, seen[p][n][i])

Grounded(r) == /\ r.want \in Approved
               /\ r.id # 0 => r.id <= issued /\ Tracks(r.id, r.want)

ReqsGrounded == /\ \A p \in Passes : pc[p] \in {"sent", "observe"} => Grounded(req[p])
                /\ \A r \in late : Grounded(r)

ZoneStep == \/ edits' = edits + 1 /\ (CustomerAdds \/ CustomerEdits \/ CustomerDeletes)
            \/ edits' = edits /\ \E r \in Request : Grounded(r) /\ Apply(r)
            \/ UNCHANGED <<zone, issued, disturbed, edits>>

(* Whatever happens to the zone, a row that was tracked stays tracked.     *)
LEMMA StaysTracked ==
  ASSUME TypeOK, ZoneStep, NEW i \in Ids, i <= issued, NEW r \in Record, Tracks(i, r)
  PROVE  i <= issued' /\ Tracks(i, r)'
<1> USE DEF TypeOK, Tracks, Live
<1>0. issued \in Nat /\ i \in Nat
  BY DEF Ids
<1>1. CASE CustomerAdds
  BY <1>0, <1>1 DEF CustomerAdds, AddRow
<1>2. CASE CustomerEdits
  <2>1. PICK j \in Ids, s \in Record :
          /\ Live(j) /\ zone' = [zone EXCEPT ![j] = s]
          /\ disturbed' = disturbed \union {zone[j].name, s.name} /\ issued' = issued
    BY <1>2 DEF CustomerEdits
  <2>2. CASE i = j
    BY <1>0, <2>1, <2>2, NoRowAssumption DEF Same
  <2>3. CASE i # j
    BY <1>0, <2>1, <2>3
  <2> QED BY <2>2, <2>3
<1>3. CASE CustomerDeletes
  <2>1. PICK j \in Ids :
          /\ Live(j) /\ zone' = [zone EXCEPT ![j] = NoRow]
          /\ disturbed' = disturbed \union {zone[j].name} /\ issued' = issued
    BY <1>3 DEF CustomerDeletes
  <2>2. CASE i = j
    BY <1>0, <2>1, <2>2 DEF Same
  <2>3. CASE i # j
    BY <1>0, <2>1, <2>3
  <2> QED BY <2>2, <2>3
<1>4. ASSUME NEW q \in Request, Grounded(q), Apply(q)
      PROVE  i <= issued' /\ Tracks(i, r)'
  <2>1. CASE q.id = 0 /\ AddRow(q.want) /\ UNCHANGED disturbed
    BY <1>0, <2>1 DEF AddRow
  <2>2. CASE q.id # 0 /\ Live(q.id) /\ zone' = [zone EXCEPT ![q.id] = q.want]
             /\ UNCHANGED <<issued, disturbed>>
    <3>1. q.id \in Ids /\ q.want \in Record
      BY <2>2 DEF Request, Ids
    <3>2. CASE i = q.id
      BY <1>0, <1>4, <2>2, <3>1, <3>2, NoRowAssumption DEF Grounded, Same
    <3>3. CASE i # q.id
      BY <1>0, <2>2, <3>1, <3>3
    <3> QED BY <3>2, <3>3
  <2> QED BY <1>4, <2>1, <2>2 DEF Apply
<1>5. CASE UNCHANGED <<zone, issued, disturbed>>
  BY <1>5
<1> QED
  BY <1>1, <1>2, <1>3, <1>4, <1>5 DEF ZoneStep

(* Every step of the specification is such a step.                         *)
LEMMA NextIsZoneStep ==
  ASSUME TypeOK, Control, ReqsGrounded, [Next]_vars
  PROVE  ZoneStep
<1>1. ASSUME NEW p \in Passes, Accept(p)
      PROVE  ZoneStep
  BY <1>1 DEF Accept, ReqsGrounded, Control, ZoneStep
<1>2. CASE ApplyLate
  BY <1>2 DEF ApplyLate, ReqsGrounded, ZoneStep, TypeOK
<1>3. CASE CustomerStep
  BY <1>3 DEF CustomerStep, Edit, ZoneStep
<1>4. ASSUME NEW p \in Passes, ~Accept(p),
             Call(p) \/ Progress(p) \/ CloseWindow(p) \/ Crash(p)
      PROVE  UNCHANGED <<zone, issued, disturbed, edits>>
  BY <1>4 DEF Call, Progress, zvars, Decline, Begin, CallFails, FindZone, ListName, AllRead,
     Skip, RefuseNameInUse, Send, SendTooLate, Publish, Reject, Duplicate, LoseAnswer,
     ObserveFinds, ObserveGivesUp, CloseWindow, Crash
<1> QED
  BY <1>1, <1>2, <1>3, <1>4 DEF Next, Engine, vars, zvars, ZoneStep

Tracking == Fresh /\ SeenTracks /\ ReqsGrounded

LEMMA FreshStep ==
  ASSUME TypeOK, Fresh, ZoneStep
  PROVE  Fresh'
<1> USE DEF TypeOK, Fresh, Live
<1>0. issued \in Nat /\ \A i \in Ids : i \in Nat
  BY DEF Ids
<1>1. ASSUME NEW r \in Record, AddRow(r)
      PROVE  Fresh'
  BY <1>0, <1>1 DEF AddRow
<1>2. ASSUME NEW j \in Ids, NEW r, Live(j), zone' = [zone EXCEPT ![j] = r], issued' = issued
      PROVE  Fresh'
  BY <1>0, <1>2
<1>3. ASSUME NEW q \in Request, Apply(q)
      PROVE  Fresh'
  <2>1. q.want \in Record /\ q.id \in 0..MaxRows
    BY DEF Request
  <2> QED BY <1>1, <1>2, <1>3, <2>1 DEF Apply, Ids
<1> QED
  BY <1>1, <1>2, <1>3 DEF ZoneStep, CustomerAdds, CustomerEdits, CustomerDeletes

(* What a call knows of the zone changes only by listing a name.           *)
LEMMA SeenStep ==
  ASSUME TypeOK, Control, SeenTracks, Fresh, ReqsGrounded, [Next]_vars
  PROVE  SeenTracks'
<1>1. ZoneStep
  BY NextIsZoneStep
<1>2. SUFFICES ASSUME NEW p \in Passes, NEW n \in Names, NEW i \in Ids, seen'[p][n][i] # NoRow
               PROVE  /\ seen'[p][n][i].name = n /\ i <= issued'
                      /\ Tracks(i, seen[p][n][i])'
  BY DEF SeenTracks
<1>3. CASE seen'[p][n][i] = seen[p][n][i]
  <2>1. seen[p][n][i] \in Record
    BY <1>2, <1>3 DEF TypeOK
  <2>2. /\ seen[p][n][i].name = n /\ i <= issued
        /\ Tracks(i, seen[p][n][i])
    BY <1>2, <1>3 DEF SeenTracks
  <2>3. i <= issued' /\ Tracks(i, seen[p][n][i])'
    <3> DEFINE r == seen[p][n][i]
    <3>1. \A s \in Record : Tracks(i, s) => i <= issued' /\
             (\/ (Live(i))' /\ Same(zone'[i], s)
              \/ s.name \in disturbed' /\ ((Live(i))' => zone'[i].name \in disturbed'))
      BY <1>1, <2>2, StaysTracked DEF Tracks
    <3>2. \/ (Live(i))' /\ Same(zone'[i], r)
          \/ r.name \in disturbed' /\ ((Live(i))' => zone'[i].name \in disturbed')
      BY <2>1, <2>2, <3>1
    <3> QED BY <2>1, <2>2, <3>1, <3>2, <1>3 DEF Tracks
  <2> QED BY <1>3, <2>2, <2>3
<1>4. CASE seen'[p][n][i] # seen[p][n][i]
  <2>1. ListName(p)
    <3>1. CASE Engine
      <4>1. PICK q \in Passes : Call(q) \/ Progress(q) \/ CloseWindow(q) \/ Crash(q)
        BY <3>1 DEF Engine
      <4>2. ASSUME NEW r, Ends(q, r)
            PROVE  FALSE
        BY <1>2, <1>4, <4>2 DEF Ends, TypeOK, Unseen
      <4>3. ASSUME ~ListName(q)
            PROVE  UNCHANGED seen
        BY <4>1, <4>2, <4>3 DEF Call, Progress, zvars, Decline, Begin, CallFails,
           FindZone, AllRead, Skip, RefuseNameInUse, Send, SendTooLate, Publish, Accept,
           Reject, Duplicate, LoseAnswer, ObserveFinds, ObserveGivesUp, CloseWindow, Crash
      <4>4. ListName(q)
        BY <1>4, <4>3
      <4>5. CASE q # p
        BY <1>4, <4>4, <4>5 DEF ListName, TypeOK
      <4> QED BY <4>4, <4>5
    <3>2. CASE ApplyLate \/ CustomerStep \/ UNCHANGED vars
      BY <1>4, <3>2 DEF ApplyLate, CustomerStep, pvars, vars
    <3> QED BY <3>1, <3>2 DEF Next
  <2>2. UNCHANGED <<zone, issued, disturbed>>
    BY <2>1 DEF ListName, zvars
  <2>3. PICK m \in Names : seen' = [seen EXCEPT ![p][m] =
               [j \in Ids |-> IF Live(j) /\ zone[j].name = m THEN zone[j] ELSE NoRow]]
    BY ZenonT(60), <2>1, PlanTypes, NamesOfRows DEF ListName
  <2>4. m = n /\ Live(i) /\ zone[i].name = n /\ seen'[p][n][i] = zone[i]
    BY <1>2, <1>4, <2>3 DEF TypeOK
  <2>5. issued \in Nat /\ i \in Nat
    BY DEF TypeOK, Ids
  <2>6. i <= issued
    BY <2>4, <2>5 DEF Fresh
  <2> QED BY <2>2, <2>4, <2>6 DEF Tracks, Live, Same
<1> QED
  BY <1>3, <1>4

(* A grounded request stays grounded, whatever happens to the zone.        *)
LEMMA StaysGrounded ==
  ASSUME TypeOK, ZoneStep
  PROVE  \A r \in Request : Grounded(r) =>
           /\ r.want \in Approved
           /\ r.id # 0 => /\ r.id <= issued'
                          /\ \/ (Live(r.id))' /\ Same(zone'[r.id], r.want)
                             \/ /\ r.want.name \in disturbed'
                                /\ (Live(r.id))' => zone'[r.id].name \in disturbed'
<1> SUFFICES ASSUME NEW r \in Request, Grounded(r), r.id # 0
             PROVE  /\ r.id <= issued'
                    /\ \/ (Live(r.id))' /\ Same(zone'[r.id], r.want)
                       \/ /\ r.want.name \in disturbed'
                          /\ (Live(r.id))' => zone'[r.id].name \in disturbed'
  BY DEF Grounded
<1>1. r.id \in Ids /\ r.want \in Record
  BY DEF Request, Ids
<1>2. r.id <= issued /\ Tracks(r.id, r.want)
  BY DEF Grounded
<1> QED
  BY <1>1, <1>2, StaysTracked DEF Tracks

(* What is in flight or late after a step was so before it, or was sent    *)
(* by it from a row this call had read as its own.                         *)
LEMMA ReqsStep ==
  ASSUME TypeOK, Control, Fresh, SeenTracks, ReqsGrounded, [Next]_vars
  PROVE  ReqsGrounded'
<1>1. ZoneStep
  BY NextIsZoneStep
<1>2. ASSUME NEW r \in Request, Grounded(r)
      PROVE  Grounded(r)'
  BY <1>1, <1>2, StaysGrounded DEF Grounded, Tracks
<1>3. ASSUME NEW p \in Passes, pc[p] \in {"sent", "observe"}
      PROVE  req[p] \in Request /\ Grounded(req[p])
  BY <1>3 DEF Control, ReqsGrounded
<1>4. late \subseteq Request /\ \A r \in late : Grounded(r)
  BY DEF ReqsGrounded, TypeOK
<1>5. CASE \E p \in Passes : Send(p)
  <2>1. PICK p \in Passes : Send(p)
    BY <1>5
  <2>2. PICK t \in Targets(p) :
          req' = [req EXCEPT ![p] = [id |-> t, want |-> Want(p), by |-> p]]
    BY <2>1 DEF Send
  <2> DEFINE r == [id |-> t, want |-> Want(p), by |-> p]
  <2>3. plan[p] \in Publishable /\ at[p] \in DOMAIN plan[p] /\ Want(p) \in Record
    BY <2>1, PlanTypes DEF Send, InLoop, Control, Active, Want
  <2>4. Want(p) \in Approved
    BY <2>3 DEF Approved, Publishable, Escapes, Want
  <2>5. t # 0 => /\ t \in Ids /\ t <= issued
                 /\ Tracks(t, Want(p))
    <3>1. ASSUME t # 0
          PROVE  t \in Ids /\ Rows(p)[t] # NoRow /\ Same(Rows(p)[t], Want(p))
      <4>1. t \in Ids /\ Rows(p)[t] # NoRow
               /\ Rows(p)[t].type = Want(p).type /\ Rows(p)[t].value = Want(p).value
        BY <2>2, <3>1 DEF Targets, Ours, SameType, Present
      <4>2. Rows(p)[t].name = Want(p).name
        BY <2>3, <4>1, NamesOfRows DEF SeenTracks, Rows
      <4> QED BY <4>1, <4>2 DEF Same
    <3>2. ASSUME t # 0
          PROVE  t <= issued /\ Tracks(t, Rows(p)[t])
      BY <2>3, <3>1, <3>2, NamesOfRows DEF SeenTracks, Rows
    <3> QED BY <3>1, <3>2 DEF Tracks, Same
  <2>6. t \in 0..MaxRows
    BY <2>2, RowsAssumption DEF Targets, Ours, SameType, Present, Ids
  <2>7. r \in Request /\ Grounded(r)
    BY <2>3, <2>4, <2>5, <2>6 DEF Request, Grounded
  <2>8. late' = late /\ req'[p] = r /\ \A q \in Passes \ {p} : pc'[q] = pc[q] /\ req'[q] = req[q]
    BY <2>1, <2>2 DEF Send, zvars, Goto, TypeOK
  <2>9. \A q \in Passes : pc'[q] \in {"sent", "observe"} =>
          req'[q] \in Request /\ Grounded(req'[q])
    BY <1>3, <2>7, <2>8
  <2>10. (\A q \in Passes : pc[q] \in {"sent", "observe"} => Grounded(req[q]))'
    BY <1>2, <2>9 DEF Grounded, Tracks
  <2> QED BY <1>2, <1>4, <2>8, <2>10 DEF ReqsGrounded
<1>6. CASE ~\E p \in Passes : Send(p)
  <2>1. /\ \A q \in Passes : pc'[q] \in {"sent", "observe"} =>
             pc[q] \in {"sent", "observe"} /\ req'[q] = req[q]
        /\ \A r \in late' : r \in late \/ \E q \in Passes : pc[q] = "sent" /\ r = req[q]
    <3>1. CASE Engine
      <4>1. PICK q \in Passes : Call(q) \/ Progress(q) \/ CloseWindow(q) \/ Crash(q)
        BY <3>1 DEF Engine
      <4>2. ASSUME NEW r, Ends(q, r)
            PROVE  \A o \in Passes : pc'[o] \in {"sent", "observe"} =>
                     pc[o] \in {"sent", "observe"} /\ req'[o] = req[o]
        BY <4>2 DEF Ends, TypeOK
      <4>3. CASE \/ Accept(q) \/ Duplicate(q) \/ LoseAnswer(q) \/ ObserveFinds(q)
                 \/ CloseWindow(q) \/ FindZone(q) \/ ListName(q) \/ AllRead(q) \/ Skip(q)
                 \/ \E s \in Plans : Begin(q, s)
        BY <4>3 DEF Accept, Duplicate, LoseAnswer, ObserveFinds, CloseWindow, FindZone,
                    ListName, AllRead, Skip, Begin, zvars, Goto, TypeOK
      <4>4. CASE \/ Decline(q) \/ RefuseNameInUse(q) \/ SendTooLate(q) \/ Publish(q)
                 \/ CallFails(q) \/ Reject(q) \/ ObserveGivesUp(q) \/ Crash(q)
        BY <4>2, <4>4 DEF Decline, RefuseNameInUse, SendTooLate, Publish, CallFails, Reject,
                          ObserveGivesUp, Crash, zvars
      <4> QED BY <1>6, <4>1, <4>3, <4>4 DEF Call, Progress
    <3>2. CASE ApplyLate \/ CustomerStep \/ UNCHANGED vars
      BY <3>2 DEF ApplyLate, CustomerStep, vars, zvars, pvars
    <3> QED BY <3>1, <3>2 DEF Next
  <2>2. \A q \in Passes : pc'[q] \in {"sent", "observe"} =>
          req'[q] \in Request /\ Grounded(req'[q])
    BY <1>3, <2>1
  <2>3. \A r \in late' : r \in Request /\ Grounded(r)
    BY <1>3, <1>4, <2>1
  <2>4. (\A q \in Passes : pc[q] \in {"sent", "observe"} => Grounded(req[q]))'
    BY <1>2, <2>2 DEF Grounded, Tracks
  <2>5. (\A r \in late : Grounded(r))'
    BY <1>2, <2>3 DEF Grounded, Tracks
  <2> QED BY <2>4, <2>5 DEF ReqsGrounded
<1> QED
  BY <1>5, <1>6

LEMMA TrackingInit == Init => Tracking
BY DEF Init, ZoneInit, Tracking, Fresh, Live, SeenTracks, Unseen, ReqsGrounded

THEOREM TrackingHolds == Spec => [](TypeOK /\ Control /\ Tracking)
<1>1. Init => TypeOK /\ Control /\ Tracking
  BY TypeInit, TrackingInit
<1>2. TypeOK /\ Control /\ Tracking /\ [Next]_vars => (TypeOK /\ Control /\ Tracking)'
  BY TypeStep, NextIsZoneStep, FreshStep, SeenStep, ReqsStep DEF Tracking
<1> QED
  BY <1>1, <1>2, PTL DEF Spec

-----------------------------------------------------------------------------
(* Publish, with everything that can happen around it, does to a zone only *)
(* what the contract allows: it adds promised records, repairs the proxy   *)
(* flag of rows that are promised records, and changes more than that only *)
(* at names whose rows the customer edited.  (ImplementsContract)          *)
THEOREM ContractHolds == Spec => ImplementsContract
<1> USE DEF Contract!Live, Contract!Same, Live, Same, Contract!Ids, Ids, Contract!Record, Record,
            Contract!Types, Types
<1>1. Init => Contract!ZoneInit /\ edits = 0
  BY DEF Init, ZoneInit, Contract!ZoneInit
<1>2. ASSUME TypeOK, Control, Tracking, [Next]_vars
      PROVE  [Contract!CNext]_(Contract!cvars)
  <2>1. ZoneStep
    BY <1>2, NextIsZoneStep DEF Tracking
  <2>2. CASE edits' = edits + 1 /\ CustomerAdds
    BY <2>2 DEF CustomerAdds, AddRow, Contract!CNext, Contract!CustomerAdds, Contract!AddRow
  <2>3. CASE edits' = edits + 1 /\ CustomerEdits
    BY <2>3 DEF CustomerEdits, Contract!CNext, Contract!CustomerEdits
  <2>4. CASE edits' = edits + 1 /\ CustomerDeletes
    BY <2>4 DEF CustomerDeletes, Contract!CNext, Contract!CustomerDeletes
  <2>5. ASSUME NEW r \in Request, Grounded(r), Apply(r), edits' = edits
        PROVE  Contract!CNext
    <3>1. CASE r.id = 0
      BY <2>5, <3>1 DEF Grounded, Apply, AddRow, Contract!CNext, Contract!EngineAdds,
                        Contract!AddRow
    <3>2. CASE r.id # 0
      <4>1. r.id \in Ids
        BY <3>2 DEF Request
      <4>2. CASE Same(zone[r.id], r.want)
        <5>1. Contract!EngineRepairs
          BY <2>5, <3>2, <4>1, <4>2 DEF Grounded, Apply, Contract!EngineRepairs
        <5> QED BY <5>1 DEF Contract!CNext
      <4>3. CASE ~Same(zone[r.id], r.want)
        <5>1. Contract!EngineOverwrites
          BY <2>5, <3>2, <4>1, <4>3 DEF Grounded, Apply, Tracks, Contract!EngineOverwrites
        <5> QED BY <5>1 DEF Contract!CNext
      <4> QED BY <4>2, <4>3
    <3> QED BY <3>1, <3>2
  <2>6. CASE UNCHANGED <<zone, issued, disturbed, edits>>
    BY <2>6 DEF Contract!cvars
  <2> QED BY <2>1, <2>2, <2>3, <2>4, <2>5, <2>6 DEF ZoneStep
<1> QED
  BY <1>1, <1>2, TrackingHolds, PTL DEF Spec, ImplementsContract, Contract!CSpec

-----------------------------------------------------------------------------
(* A published record stands while the customer leaves its name alone.     *)

Stands(r) == \E i \in Ids : Live(i) /\ Same(zone[i], r)

(* Every record the loop has passed stands, and so does every record of a  *)
(* plan that was published.                                                *)
PassedStand == \A p \in Passes : \A k \in DOMAIN plan[p] :
  (pc[p] \in Active /\ k < at[p]) \/ result[p] = "published" =>
    plan[p][k].name \in disturbed \/ Stands(plan[p][k])

ResultWhenDone == \A p \in Passes : result[p] # "none" => pc[p] = "done"

LEMMA StandsOn ==
  ASSUME TypeOK, Fresh, ZoneStep, NEW r \in Record, r.name \in disturbed \/ Stands(r)
  PROVE  r.name \in disturbed' \/ \E i \in Ids : (Live(i))' /\ Same(zone'[i], r)
<1>1. CASE r.name \in disturbed
  <2>1. ASSUME NEW q \in Request, Apply(q)
        PROVE  disturbed' = disturbed
    BY <2>1 DEF Apply
  <2> QED BY <1>1, <2>1 DEF ZoneStep, CustomerAdds, CustomerEdits, CustomerDeletes
<1>2. CASE Stands(r)
  <2>1. PICK i \in Ids : Live(i) /\ Same(zone[i], r)
    BY <1>2 DEF Stands
  <2>2. i <= issued
    BY <2>1 DEF Fresh, TypeOK, Ids
  <2>3. Tracks(i, r)'
    BY <2>1, <2>2, StaysTracked DEF Tracks
  <2> QED BY <2>3 DEF Tracks
<1> QED
  BY <1>1, <1>2

LEMMA StandsInit == Init => PassedStand /\ ResultWhenDone
BY DEF Init, PassedStand, ResultWhenDone, Active

(* What a step of one call leaves of another.                              *)
Untouched(p) == /\ pc'[p] = pc[p] /\ plan'[p] = plan[p] /\ at'[p] = at[p]
                /\ result'[p] = result[p] /\ seen'[p] = seen[p]

(* A call advances over a record only when it is satisfied: it was read as *)
(* such, the provider accepted it, or a re-read shows it.                  *)
LoopStep(p) ==
  \/ /\ pc[p] = "idle" /\ pc'[p] = "find" /\ at'[p] = 1 /\ result'[p] = "none"
  \/ Untouched(p)
  \/ /\ pc[p] \in Active /\ pc'[p] \in Active /\ plan'[p] = plan[p] /\ at'[p] = at[p]
     /\ result'[p] = result[p]
  \/ Skip(p) \/ Accept(p) \/ ObserveFinds(p)
  \/ /\ pc'[p] = "done" /\ result'[p] # "published" /\ result'[p] \in Results \ {"none"}
     /\ plan'[p] = plan[p]
  \/ Publish(p)

LEMMA CallSteps ==
  ASSUME TypeOK, Control, ResultWhenDone, [Next]_vars, NEW p \in Passes
  PROVE  LoopStep(p)
<1> USE DEF LoopStep, Untouched
<1>1. CASE Engine
  <2>1. PICK q \in Passes : Call(q) \/ Progress(q) \/ CloseWindow(q) \/ Crash(q)
    BY <1>1 DEF Engine
  <2>2. ASSUME q # p
        PROVE  Untouched(p)
    BY <2>1, <2>2 DEF Call, Progress, zvars, pvars, Decline, Begin, CallFails, FindZone,
       ListName, AllRead, Skip, RefuseNameInUse, Send, SendTooLate, Publish, Accept, Reject,
       Duplicate, LoseAnswer, ObserveFinds, ObserveGivesUp, CloseWindow, Crash, Ends, Goto,
       Advance, TypeOK
  <2>3. ASSUME NEW s \in Plans, Begin(p, s)
        PROVE  pc[p] = "idle" /\ pc'[p] = "find" /\ at'[p] = 1 /\ result'[p] = "none"
    BY <2>3 DEF Begin, Goto, TypeOK, Control, ResultWhenDone
  <2>4. CASE \/ FindZone(p) \/ ListName(p) \/ AllRead(p) \/ Send(p) \/ Duplicate(p)
             \/ LoseAnswer(p) \/ CloseWindow(p)
    BY <2>4 DEF FindZone, ListName, AllRead, Send, InLoop, Duplicate, LoseAnswer, CloseWindow,
                Goto, Active, TypeOK
  <2>5. ASSUME NEW r \in Results \ {"none", "published"}, Ends(p, r)
        PROVE  /\ pc'[p] = "done" /\ result'[p] # "published"
               /\ result'[p] \in Results \ {"none"} /\ plan'[p] = plan[p]
    BY <2>5 DEF Ends, TypeOK
  <2>6. CASE \/ Decline(p) \/ CallFails(p) \/ RefuseNameInUse(p) \/ SendTooLate(p)
             \/ Reject(p) \/ ObserveGivesUp(p) \/ Crash(p)
    BY <2>5, <2>6 DEF Decline, Declined, CallFails, RefuseNameInUse, SendTooLate, Reject,
                      ObserveGivesUp, Crash, Results
  <2> QED BY <2>1, <2>2, <2>3, <2>4, <2>6 DEF Call, Progress
<1>2. CASE ApplyLate \/ CustomerStep \/ UNCHANGED vars
  BY <1>2 DEF ApplyLate, CustomerStep, vars, pvars
<1> QED
  BY <1>1, <1>2 DEF Next

LEMMA ResultStep ==
  ASSUME TypeOK, Control, ResultWhenDone, [Next]_vars
  PROVE  ResultWhenDone'
<1> SUFFICES ASSUME NEW p \in Passes
             PROVE  result'[p] # "none" => pc'[p] = "done"
  BY DEF ResultWhenDone
<1>1. LoopStep(p)
  BY CallSteps
<1>2. pc[p] \in Active => result[p] = "none"
  BY DEF ResultWhenDone, Active
<1>3. Skip(p) \/ Accept(p) \/ ObserveFinds(p) => result'[p] = result[p] /\ pc[p] \in Active
  BY DEF Skip, Accept, ObserveFinds, InLoop, Active
<1>4. Publish(p) => pc'[p] = "done"
  BY DEF Publish, Ends, TypeOK
<1> QED
  BY <1>1, <1>2, <1>3, <1>4 DEF LoopStep, Untouched, ResultWhenDone

(* An accepted write is in the zone.                                       *)
LEMMA AcceptLands ==
  ASSUME TypeOK, Control, NEW p \in Passes, Accept(p)
  PROVE  \E i \in Ids : zone'[i] = Want(p) /\ zone'[i] # NoRow
<1>1. /\ req[p] \in Request /\ req[p].want = Want(p) /\ Want(p) \in Record
      /\ Want(p) # NoRow /\ zone \in [Ids -> Record \union {NoRow}]
      /\ issued \in Nat
  BY NoRowAssumption DEF Accept, Control, Request, TypeOK
<1>2. req[p].id \in 0..MaxRows
  BY <1>1 DEF Request
<1>3. CASE req[p].id = 0
  <2>1. issued + 1 \in Ids /\ zone' = [zone EXCEPT ![issued + 1] = Want(p)]
    BY <1>1, <1>3, RowsAssumption DEF Accept, Apply, AddRow, Ids
  <2> QED BY <1>1, <2>1
<1>4. CASE req[p].id # 0
  <2>1. Apply(req[p])
    BY DEF Accept
  <2>2. zone' = [zone EXCEPT ![req[p].id] = Want(p)] /\ req[p].id \in Ids
    BY <1>1, <1>2, <1>4, <2>1 DEF Apply, Ids
  <2> QED BY <1>1, <2>2
<1> QED
  BY <1>3, <1>4

(* The record a call advances over is in the zone, or at a disturbed name. *)
LEMMA AdvancedStands ==
  ASSUME TypeOK, Control, Tracking, NEW p \in Passes,
         Skip(p) \/ Accept(p) \/ ObserveFinds(p)
  PROVE  /\ plan' = plan /\ at'[p] = at[p] + 1 /\ pc[p] \in Active
         /\ at[p] \in DOMAIN plan[p] /\ UNCHANGED disturbed /\ result'[p] = result[p]
         /\ \/ Want(p).name \in disturbed
            \/ \E i \in Ids : (Live(i))' /\ Same(zone'[i], Want(p))
<1> USE NoRowAssumption DEF TypeOK, Control, Active, Live
<1>1. CASE Skip(p)
  <2>1. PICK i \in Ids : /\ Rows(p)[i] # NoRow /\ Rows(p)[i].type = Want(p).type
                         /\ Rows(p)[i].value = Want(p).value
    BY <1>1 DEF Skip, Matched, Ours, SameType, Present
  <2>2. Want(p) \in Record /\ Want(p).name \in Names
    BY <1>1, PlanTypes, NamesOfRows DEF Skip, InLoop, Want
  <2>3. Rows(p)[i].name = Want(p).name /\ Tracks(i, Rows(p)[i])
    BY <2>1, <2>2 DEF Tracking, SeenTracks, Rows
  <2> QED BY <1>1, <2>1, <2>3 DEF Skip, InLoop, Advance, zvars, Tracks, Same
<1>2. CASE Accept(p)
  <2>1. PICK i \in Ids : zone'[i] = Want(p) /\ zone'[i] # NoRow
    BY <1>2, AcceptLands
  <2>2. UNCHANGED disturbed /\ at[p] \in DOMAIN plan[p]
    BY <1>2 DEF Accept, Apply
  <2> QED BY <1>2, <2>1, <2>2 DEF Accept, Advance, Same
<1>3. CASE ObserveFinds(p)
  <2>1. req[p].want = Want(p) /\ at[p] \in DOMAIN plan[p]
    BY <1>3 DEF ObserveFinds
  <2>2. \E i \in Ids : zone[i] # NoRow /\ zone[i] = Want(p)
    BY <1>3, <2>1 DEF ObserveFinds, Converged, Satisfies
  <2> QED BY <1>3, <2>1, <2>2 DEF ObserveFinds, Advance, zvars, Same
<1> QED
  BY <1>1, <1>2, <1>3

LEMMA PassedStep ==
  ASSUME TypeOK, Control, Tracking, ResultWhenDone, PassedStand, [Next]_vars
  PROVE  PassedStand'
<1>1. ZoneStep
  BY NextIsZoneStep DEF Tracking
<1>2. SUFFICES ASSUME NEW p \in Passes, NEW k \in DOMAIN plan'[p],
                      (pc'[p] \in Active /\ k < at'[p]) \/ result'[p] = "published"
               PROVE  plan'[p][k].name \in disturbed' \/
                        \E i \in Ids : (Live(i))' /\ Same(zone'[i], plan'[p][k])
  BY DEF PassedStand, Stands
<1>3. ASSUME k \in DOMAIN plan[p], plan'[p] = plan[p],
             plan[p][k].name \in disturbed \/ Stands(plan[p][k])
      PROVE  plan'[p][k].name \in disturbed' \/
               \E i \in Ids : (Live(i))' /\ Same(zone'[i], plan'[p][k])
  BY <1>1, <1>3, PlanTypes, StandsOn DEF Tracking
<1>4. LoopStep(p)
  BY CallSteps
<1>5. pc[p] \in Active => result[p] = "none"
  BY DEF ResultWhenDone, Active
<1>6. CASE Skip(p) \/ Accept(p) \/ ObserveFinds(p)
  <2>1. /\ plan' = plan /\ at'[p] = at[p] + 1 /\ pc[p] \in Active
        /\ at[p] \in DOMAIN plan[p] /\ UNCHANGED disturbed /\ result'[p] = result[p]
        /\ \/ Want(p).name \in disturbed
           \/ \E i \in Ids : (Live(i))' /\ Same(zone'[i], Want(p))
    BY <1>6, AdvancedStands
  <2>2. k < at[p] \/ k = at[p]
    BY <1>2, <1>5, <2>1, PlanTypes DEF TypeOK
  <2>3. CASE k = at[p]
    BY <2>1, <2>3 DEF Want
  <2>4. CASE k < at[p]
    BY <1>3, <2>1, <2>4 DEF PassedStand
  <2> QED BY <2>2, <2>3, <2>4
<1>7. CASE Publish(p)
  <2>1. plan' = plan /\ pc[p] \in Active /\ at[p] \notin DOMAIN plan[p]
    BY <1>7 DEF Publish, Ends, Active
  <2>2. k < at[p]
    BY <2>1, PlanTypes DEF TypeOK
  <2> QED BY <1>3, <2>1, <2>2 DEF PassedStand
<1>8. CASE pc'[p] = "find" /\ at'[p] = 1 /\ result'[p] = "none"
  <2>1. \A s \in Plans \union {<<>>} : DOMAIN s = 1..Len(s) /\ Len(s) \in Nat
    <3>1. <<>> \in Seq(Record)
      OBVIOUS
    <3> QED BY <3>1, PlansAssumption
  <2>2. TypeOK'
    BY TypeStep
  <2>3. plan'[p] \in Plans \union {<<>>}
    BY <2>2 DEF TypeOK
  <2>4. k \in Nat /\ k >= 1
    BY <1>2, <2>1, <2>3
  <2> QED BY <1>2, <1>8, <2>4
<1>9. CASE Untouched(p)
  BY <1>2, <1>3, <1>9 DEF Untouched, PassedStand
<1>10. CASE /\ pc[p] \in Active /\ pc'[p] \in Active /\ plan'[p] = plan[p] /\ at'[p] = at[p]
            /\ result'[p] = result[p]
  BY <1>2, <1>3, <1>5, <1>10 DEF PassedStand
<1>11. CASE pc'[p] = "done" /\ result'[p] # "published"
  BY <1>2, <1>11 DEF Active
<1> QED
  BY <1>4, <1>6, <1>7, <1>8, <1>9, <1>10, <1>11 DEF LoopStep

(* What Publish reported lasts: a record it answered for is in the zone    *)
(* as long as the customer edits nothing at its name.  (PublishedStands)   *)
THEOREM PublishedStandsHolds == Spec => []PublishedStands
<1>1. Init => ResultWhenDone /\ PassedStand
  BY StandsInit
<1>2. TypeOK /\ Control /\ Tracking /\ ResultWhenDone /\ PassedStand /\ [Next]_vars
        => ResultWhenDone' /\ PassedStand'
  BY ResultStep, PassedStep
<1>3. PassedStand => PublishedStands
  BY DEF PassedStand, PublishedStands, Stands
<1> QED
  BY <1>1, <1>2, <1>3, TrackingHolds, PTL DEF Spec

-----------------------------------------------------------------------------
(* Publish's nil answer is earned.  A row the call has read as settling a  *)
(* record was so in the zone at that instant, so the record has been met.  *)

Met == \A p \in Passes :
  /\ met[p] \subseteq DOMAIN plan[p]
  /\ pc[p] = "idle" => \A n \in Names, i \in Ids : seen[p][n][i] = NoRow
  /\ pc[p] \in Active => \A k \in DOMAIN plan[p] :
       k < at[p] \/ (\E n \in Names, i \in Ids : Settles(seen[p][n][i], plan[p][k]))
         => k \in met[p]
  /\ result[p] = "published" => met[p] = DOMAIN plan[p]

LEMMA MetInit == Init => Met
BY DEF Init, Met, Unseen, Active

(* What a call has read after a step it had read before, or is in the zone.*)
LEMMA ReadStep ==
  ASSUME TypeOK, Control, [Next]_vars, NEW p \in Passes, pc'[p] # "done",
         NEW n \in Names, NEW i \in Ids
  PROVE  /\ seen'[p][n][i] \in {seen[p][n][i], zone'[i], NoRow}
         /\ pc'[p] = "idle" => pc[p] = "idle" /\ seen'[p] = seen[p]
<1>1. CASE Engine
  <2>1. PICK q \in Passes : Call(q) \/ Progress(q) \/ CloseWindow(q) \/ Crash(q)
    BY <1>1 DEF Engine
  <2>2. CASE ListName(q)
    <3> DEFINE Listed(m) == [j \in Ids |-> IF Live(j) /\ zone[j].name = m
                                           THEN zone[j] ELSE NoRow]
    <3>1. PICK m \in Names : seen' = [seen EXCEPT ![q][m] = Listed(m)]
      BY ZenonT(60), <2>2, PlanTypes, NamesOfRows DEF ListName
    <3>2. zone' = zone /\ pc' = pc /\ pc[q] = "list"
      BY <2>2 DEF ListName, zvars
    <3>3. /\ seen \in [Passes -> [Names -> [Ids -> Record \union {NoRow}]]]
          /\ zone \in [Ids -> Record \union {NoRow}]
      BY DEF TypeOK
    <3>4. seen[q] \in [Names -> [Ids -> Record \union {NoRow}]]
      BY <3>3
    <3>5. Listed(m)[i] = NoRow \/ Listed(m)[i] = zone[i]
      OBVIOUS
    <3>6. CASE p = q /\ n = m
      <4>1. seen'[p][n] = Listed(m)
        BY <3>1, <3>3, <3>4, <3>6
      <4>2. seen'[p][n][i] = zone'[i] \/ seen'[p][n][i] = NoRow
        BY <3>2, <3>5, <4>1
      <4> QED BY <3>2, <3>6, <4>2
    <3>7. CASE p = q /\ n # m
      <4>1. seen'[p][n] = seen[p][n]
        BY <3>1, <3>3, <3>4, <3>7
      <4> QED BY <3>2, <3>7, <4>1
    <3>8. CASE p # q
      <4>1. seen'[p] = seen[p]
        BY <3>1, <3>3, <3>8
      <4> QED BY <3>2, <4>1
    <3> QED BY <3>6, <3>7, <3>8
  <2>3. ASSUME NEW r, Ends(q, r)
        PROVE  seen'[p] = seen[p] /\ pc'[p] = pc[p]
    BY <2>3 DEF Ends, TypeOK
  <2>4. CASE \/ Decline(q) \/ CallFails(q) \/ RefuseNameInUse(q) \/ SendTooLate(q)
             \/ Reject(q) \/ ObserveGivesUp(q) \/ Crash(q) \/ Publish(q)
    BY <2>3, <2>4 DEF Decline, CallFails, RefuseNameInUse, SendTooLate, Reject, Publish,
                      ObserveGivesUp, Crash
  <2>5. CASE \/ FindZone(q) \/ AllRead(q) \/ Send(q) \/ Duplicate(q) \/ LoseAnswer(q)
             \/ CloseWindow(q) \/ Skip(q) \/ Accept(q) \/ ObserveFinds(q)
             \/ \E s \in Plans : Begin(q, s)
    BY <2>5 DEF FindZone, AllRead, Send, Duplicate, LoseAnswer, CloseWindow, Skip, Accept,
                ObserveFinds, Begin, Goto, TypeOK
  <2> QED BY <2>1, <2>2, <2>4, <2>5 DEF Call, Progress
<1>2. CASE ApplyLate \/ CustomerStep \/ UNCHANGED vars
  BY <1>2 DEF ApplyLate, CustomerStep, vars, pvars
<1> QED
  BY <1>1, <1>2 DEF Next

(* The record a call advances over was read as settled, or is now in place.*)
LEMMA LoopMeets ==
  ASSUME TypeOK, Control, Tracking, NEW p \in Passes,
         Skip(p) \/ Accept(p) \/ ObserveFinds(p)
  PROVE  \/ \E n \in Names, i \in Ids : Settles(seen[p][n][i], Want(p))
         \/ \E i \in Ids : Settles(zone'[i], Want(p))
<1>1. CASE Skip(p)
  <2>1. Want(p).name \in Names
    BY <1>1, PlanTypes, NamesOfRows DEF Skip, InLoop, Want
  <2>2. PICK i \in Ids : /\ Rows(p)[i] # NoRow /\ Rows(p)[i].type = Want(p).type
                         /\ Rows(p)[i].value = Want(p).value
                         /\ Want(p).type = "CNAME" => Rows(p)[i].proxied = Want(p).proxied
    BY <1>1 DEF Skip, Matched, Ours, SameType, Present
  <2>3. seen[p][Want(p).name][i] # NoRow
    BY <2>2 DEF Rows
  <2>4. seen[p][Want(p).name][i].name = Want(p).name
    BY <2>1, <2>3 DEF Tracking, SeenTracks
  <2>5. Settles(seen[p][Want(p).name][i], Want(p))
    BY <2>2, <2>4 DEF Settles, Same, Rows
  <2> QED BY <2>1, <2>5
<1>2. CASE Accept(p)
  <2>1. PICK i \in Ids : zone'[i] = Want(p) /\ zone'[i] # NoRow
    BY <1>2, AcceptLands
  <2> QED BY <2>1 DEF Settles, Same
<1>3. CASE ObserveFinds(p)
  <2>1. req[p].want = Want(p)
    BY <1>3 DEF ObserveFinds, Control
  <2>2. \E i \in Ids : zone[i] # NoRow /\ zone[i] = Want(p)
    BY <1>3, <2>1 DEF ObserveFinds, Converged, Satisfies
  <2> QED BY <1>3, <2>2 DEF ObserveFinds, zvars, Settles, Same
<1> QED
  BY <1>1, <1>2, <1>3

(* While a call goes on, whatever its reads settle has been met.           *)
LEMMA MetGoesOn ==
  ASSUME TypeOK, Control, Tracking, ResultWhenDone, Met, [Next]_vars, NEW p \in Passes,
         pc'[p] \in Active, pc'[p] # "done", NEW k \in DOMAIN plan'[p],
         k < at'[p] \/ (\E n \in Names, i \in Ids : Settles(seen'[p][n][i], plan'[p][k]))
  PROVE  k \in met'[p]
<1>1. LoopStep(p)
  BY CallSteps
<1>2. CASE Next
  <2>1. met'[p] = SettledIn(zone', plan'[p]) \union (IF pc[p] \in Active THEN met[p] ELSE {})
    BY <1>2 DEF Next, Witness
  <2>2. ASSUME NEW i \in Ids, Settles(zone'[i], plan'[p][k])
        PROVE  k \in met'[p]
    BY <2>1, <2>2 DEF SettledIn
  <2>3. ASSUME NEW n \in Names, NEW i \in Ids, Settles(seen'[p][n][i], plan'[p][k]),
               ~Settles(zone'[i], plan'[p][k])
        PROVE  Settles(seen[p][n][i], plan'[p][k])
    <3>1. seen'[p][n][i] \in {seen[p][n][i], zone'[i], NoRow}
      BY ReadStep
    <3>2. ~Settles(NoRow, plan'[p][k])
      BY DEF Settles
    <3> QED BY <2>3, <3>1, <3>2
  <2>4. ASSUME pc[p] \in Active, plan'[p] = plan[p],
               k < at[p] \/ (\E n \in Names, i \in Ids : Settles(seen[p][n][i], plan[p][k]))
        PROVE  k \in met'[p]
    BY <2>1, <2>4 DEF Met
  <2>5. CASE Skip(p) \/ Accept(p) \/ ObserveFinds(p)
    <3>1. /\ plan' = plan /\ at'[p] = at[p] + 1 /\ pc[p] \in Active
      BY <2>5, AdvancedStands
    <3>2. k < at[p] \/ k = at[p] \/ ~(k < at'[p])
      BY <3>1, PlanTypes DEF TypeOK
    <3>3. CASE k = at[p]
      <4>1. Want(p) = plan[p][k] /\ plan'[p] = plan[p]
        BY <3>1, <3>3 DEF Want
      <4>2. CASE \E n \in Names, i \in Ids : Settles(seen[p][n][i], Want(p))
        BY <2>4, <3>1, <4>1, <4>2
      <4>3. CASE \E i \in Ids : Settles(zone'[i], Want(p))
        BY <2>2, <4>1, <4>3
      <4> QED BY <2>5, <4>2, <4>3, LoopMeets
    <3> QED BY <2>2, <2>3, <2>4, <3>1, <3>2, <3>3
  <2>6. CASE pc[p] = "idle" /\ pc'[p] = "find" /\ at'[p] = 1
    <3>1. ~(k < 1)
      <4>1. plan'[p] \in Plans \union {<<>>}
        BY TypeStep DEF TypeOK
      <4>2. <<>> \in Seq(Record)
        OBVIOUS
      <4>3. plan'[p] \in Seq(Record)
        BY <4>1, <4>2, PlansAssumption
      <4> QED BY <4>3
    <3>2. \A n \in Names, i \in Ids : ~Settles(seen[p][n][i], plan'[p][k])
      BY <2>6 DEF Met, Settles
    <3> QED BY <2>2, <2>3, <2>6, <3>1, <3>2
  <2>7. CASE Untouched(p)
    BY <2>2, <2>3, <2>4, <2>7 DEF Untouched
  <2>8. CASE pc[p] \in Active /\ plan'[p] = plan[p] /\ at'[p] = at[p]
    BY <2>2, <2>3, <2>4, <2>8
  <2>9. CASE Publish(p)
    BY <2>9 DEF Publish, Ends, TypeOK
  <2> QED BY <1>1, <2>5, <2>6, <2>7, <2>8, <2>9 DEF LoopStep
<1>3. CASE UNCHANGED vars
  BY <1>3 DEF vars, pvars, Met
<1> QED
  BY <1>2, <1>3

LEMMA MetStep ==
  ASSUME TypeOK, Control, Tracking, ResultWhenDone, Met, [Next]_vars
  PROVE  Met'
<1> SUFFICES ASSUME NEW p \in Passes
             PROVE  /\ met'[p] \subseteq DOMAIN plan'[p]
                    /\ pc'[p] = "idle" =>
                         \A n \in Names, i \in Ids : seen'[p][n][i] = NoRow
                    /\ pc'[p] \in Active => \A k \in DOMAIN plan'[p] :
                         k < at'[p] \/ (\E n \in Names, i \in Ids :
                                          Settles(seen'[p][n][i], plan'[p][k]))
                           => k \in met'[p]
                    /\ result'[p] = "published" => met'[p] = DOMAIN plan'[p]
  BY DEF Met
<1>1. LoopStep(p)
  BY CallSteps
<1>2. pc'[p] \in Active => pc'[p] # "done"
  BY DEF Active
<1>3. pc'[p] \in Active => \A k \in DOMAIN plan'[p] :
        k < at'[p] \/ (\E n \in Names, i \in Ids : Settles(seen'[p][n][i], plan'[p][k]))
          => k \in met'[p]
  BY <1>2, MetGoesOn
<1>4. pc'[p] = "idle" => \A n \in Names, i \in Ids : seen'[p][n][i] = NoRow
  BY ReadStep DEF Met
<1>5. CASE UNCHANGED vars
  BY <1>3, <1>4, <1>5 DEF vars, pvars, Met
<1>6. CASE Next
  <2>1. pc'[p] \in Active =>
          met'[p] = SettledIn(zone', plan'[p]) \union (IF pc[p] \in Active THEN met[p] ELSE {})
    BY <1>6 DEF Next, Witness
  <2>2. pc'[p] \notin Active => met'[p] = met[p]
    BY <1>6 DEF Next, Witness
  <2>3. SettledIn(zone', plan'[p]) \subseteq DOMAIN plan'[p]
    BY DEF SettledIn
  <2>4. met[p] \subseteq DOMAIN plan[p]
    BY DEF Met
  <2>5. CASE Skip(p) \/ Accept(p) \/ ObserveFinds(p)
    <3>1. plan' = plan /\ pc[p] \in Active /\ result'[p] = result[p]
      BY <2>5, AdvancedStands
    <3>2. result'[p] # "published"
      BY <3>1 DEF ResultWhenDone, Active
    <3> QED BY <1>3, <1>4, <2>1, <2>2, <2>3, <2>4, <3>1, <3>2
  <2>6. CASE pc[p] = "idle" /\ pc'[p] = "find" /\ result'[p] = "none"
    BY <1>3, <1>4, <2>1, <2>3, <2>6 DEF Active
  <2>7. CASE Untouched(p)
    <3>1. result[p] = "published" => pc[p] \notin Active
      BY DEF ResultWhenDone, Active
    <3>2. result[p] = "published" => met[p] = DOMAIN plan[p]
      BY DEF Met
    <3> QED BY <1>3, <1>4, <2>1, <2>2, <2>3, <2>4, <2>7, <3>1, <3>2 DEF Untouched
  <2>8. CASE /\ pc[p] \in Active /\ pc'[p] \in Active /\ plan'[p] = plan[p]
             /\ result'[p] = result[p]
    <3>1. result'[p] # "published"
      BY <2>8 DEF ResultWhenDone, Active
    <3> QED BY <1>3, <1>4, <2>1, <2>3, <2>4, <2>8, <3>1
  <2>9. CASE pc'[p] = "done" /\ result'[p] # "published" /\ plan'[p] = plan[p]
    BY <1>3, <1>4, <2>2, <2>4, <2>9 DEF Active
  <2>10. CASE Publish(p)
    <3>1. pc[p] \in Active /\ at[p] \notin DOMAIN plan[p] /\ plan'[p] = plan[p] /\ pc'[p] = "done"
      BY <2>10 DEF Publish, Ends, Active, TypeOK
    <3>2. \A k \in DOMAIN plan[p] : k < at[p]
      BY <3>1, PlanTypes DEF TypeOK
    <3>3. met[p] = DOMAIN plan[p]
      BY <2>4, <3>1, <3>2 DEF Met
    <3> QED BY <1>3, <1>4, <2>2, <3>1, <3>3 DEF Active
  <2> QED BY <1>1, <2>5, <2>6, <2>7, <2>8, <2>9, <2>10 DEF LoopStep
<1> QED
  BY <1>5, <1>6

(* Publish's nil answer is earned: every record of the plan was satisfied  *)
(* at some instant of the call, whoever else wrote.  (PublishedWasTrue)    *)
THEOREM PublishedWasTrueHolds == Spec => []PublishedWasTrue
<1>1. Init => ResultWhenDone /\ Met
  BY StandsInit, MetInit
<1>2. TypeOK /\ Control /\ Tracking /\ ResultWhenDone /\ Met /\ [Next]_vars
        => ResultWhenDone' /\ Met'
  BY ResultStep, MetStep
<1>3. Met => PublishedWasTrue
  BY DEF Met, PublishedWasTrue
<1> QED
  BY <1>1, <1>2, <1>3, TrackingHolds, PTL DEF Spec
=============================================================================
