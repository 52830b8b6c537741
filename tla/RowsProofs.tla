----------------------------- MODULE RowsProofs -----------------------------
(***************************************************************************)
(* One call of Reconcile's Publish never leaves two rows for one record,   *)
(* for every zone, set of calls and set of plans, and every bound.         *)
(***************************************************************************)
EXTENDS ReconcileProofs

(* A create for record k has left the call, and its answer is not awaited. *)
Gone(p, k) == k < at[p] \/ (k = at[p] /\ pc[p] \in {"observe", "done"})

(* A row which call p created, at a name the customer left alone.          *)
RowOf(i, p) == Live(i) /\ origin[i] = p /\ zone[i].name \notin disturbed

PlansGood == \A p \in Passes : plan[p] \in Publishable \union {<<>>}

LatePlanned == \A r \in late : \E k \in DOMAIN plan[r.by] :
  Gone(r.by, k) /\ r.want = plan[r.by][k]

RowsPlanned == \A p \in Passes, i \in Ids : RowOf(i, p) =>
  \E k \in DOMAIN plan[p] : Gone(p, k) /\ Same(zone[i], plan[p][k])

(* A create that may still land has not landed.                            *)
LateUnlanded == \A r \in late, i \in Ids : r.id = 0 /\ RowOf(i, r.by) => ~Same(zone[i], r.want)

RowsApart == \A p \in Passes, i, j \in Ids :
  i # j /\ RowOf(i, p) /\ RowOf(j, p) => ~Same(zone[i], zone[j])

RowFacts == PlansGood /\ LatePlanned /\ RowsPlanned /\ LateUnlanded /\ RowsApart

Sound == TypeOK /\ Control /\ Tracking /\ RowFacts

LEMMA RowsInit == Init => RowFacts
BY DEF Init, ZoneInit, RowFacts, PlansGood, LatePlanned, RowsPlanned, LateUnlanded, RowsApart, RowOf, Live

LEMMA RecordsApart ==
  ASSUME TypeOK, NEW p \in Passes, NEW j \in DOMAIN plan[p], NEW k \in DOMAIN plan[p], j # k
  PROVE  ~Same(plan[p][j], plan[p][k])
<1>1. CASE plan[p] = <<>>
  BY <1>1
<1>2. CASE plan[p] \in Plans
  BY <1>2, PlansAssumption
<1> QED BY <1>1, <1>2 DEF TypeOK

LEMMA LateTypes ==
  ASSUME TypeOK, NEW r \in late
  PROVE  r \in Request /\ r.by \in Passes /\ r = [id |-> r.id, want |-> r.want, by |-> r.by]
BY DEF TypeOK, Request

-----------------------------------------------------------------------------
(* Steps of a call.                                                        *)

Still(p) == pc'[p] = pc[p] /\ plan'[p] = plan[p] /\ at'[p] = at[p]

LEMMA OtherCalls ==
  ASSUME TypeOK, NEW p \in Passes, NEW q \in Passes, q # p,
         Call(q) \/ Progress(q) \/ CloseWindow(q) \/ Crash(q)
  PROVE  Still(p)
BY DEF Still, Call, Progress, pvars, Decline, Begin, CallFails, FindZone, ListName, AllRead, Skip,
   RefuseNameInUse, Send, SendTooLate, Publish, Accept, Reject, Duplicate, LoseAnswer,
   ObserveFinds, ObserveGivesUp, CloseWindow, Crash, Ends, Goto, Advance, TypeOK

(* What has left a call stays so: it never goes back over its plan.        *)
LEMMA GoneOn ==
  ASSUME TypeOK, Control, [Next]_vars, NEW p \in Passes, NEW k \in DOMAIN plan[p], Gone(p, k)
  PROVE  plan'[p] = plan[p] /\ k \in DOMAIN plan'[p] /\ (Gone(p, k))'
<1>0. k \in Nat \ {0} /\ at[p] \in Nat
  BY PlanTypes DEF TypeOK
<1>1. pc[p] # "idle"
  BY <1>0 DEF Gone, Control
<1>2. CASE Still(p)
  BY <1>2 DEF Still, Gone
<1>3. ASSUME NEW r \in Results, Ends(p, r)
      PROVE  plan'[p] = plan[p] /\ pc'[p] = "done" /\ at'[p] = at[p]
  BY <1>3 DEF Ends, TypeOK
<1>4. CASE Skip(p) \/ Accept(p) \/ ObserveFinds(p)
  <2>1. plan' = plan /\ at'[p] = at[p] + 1
    BY <1>4 DEF Skip, Accept, ObserveFinds, Advance, TypeOK
  <2> QED BY <1>0, <2>1 DEF Gone
<1>5. CASE FindZone(p) \/ ListName(p) \/ AllRead(p) \/ Send(p) \/ Duplicate(p) \/ LoseAnswer(p)
           \/ CloseWindow(p)
  <2>1. plan' = plan /\ at' = at /\ (pc[p] \in {"observe", "done"} => pc'[p] = pc[p])
    BY <1>5 DEF FindZone, ListName, AllRead, Send, InLoop, Duplicate, LoseAnswer, CloseWindow,
                Goto, TypeOK
  <2> QED BY <2>1 DEF Gone
<1>6. CASE Decline(p) \/ CallFails(p) \/ RefuseNameInUse(p) \/ SendTooLate(p) \/ Publish(p)
           \/ Reject(p) \/ ObserveGivesUp(p) \/ Crash(p)
  <2>1. PICK r \in Results : Ends(p, r)
    BY <1>6 DEF Decline, Declined, CallFails, RefuseNameInUse, SendTooLate, Publish, Reject,
                ObserveGivesUp, Crash, Results
  <2> QED BY <1>3, <2>1 DEF Gone
<1>7. ASSUME NEW s \in Plans, Begin(p, s) PROVE FALSE
  BY <1>1, <1>7 DEF Begin
<1>8. CASE ApplyLate \/ CustomerStep \/ UNCHANGED vars
  BY <1>2, <1>8 DEF ApplyLate, CustomerStep, vars, pvars, Still
<1>9. CASE Engine
  <2>1. PICK q \in Passes : Call(q) \/ Progress(q) \/ CloseWindow(q) \/ Crash(q)
    BY <1>9 DEF Engine
  <2>2. CASE q # p
    BY <1>2, <2>1, <2>2, OtherCalls
  <2>3. CASE q = p
    BY <1>4, <1>5, <1>6, <1>7, <2>1, <2>3 DEF Call, Progress
  <2> QED BY <2>2, <2>3
<1> QED BY <1>8, <1>9 DEF Next

(* The requests that are late after a step were so, or were in flight.     *)
LEMMA LateStep ==
  ASSUME TypeOK, Control, [Next]_vars, NEW r \in late', r \notin late
  PROVE  \E p \in Passes :
           /\ r = req[p] /\ pc[p] = "sent" /\ pc'[p] \in {"observe", "done"}
           /\ at'[p] = at[p] /\ plan'[p] = plan[p] /\ UNCHANGED <<zone, disturbed, origin>>
<1>1. CASE ApplyLate \/ CustomerStep \/ UNCHANGED vars
  BY <1>1 DEF ApplyLate, CustomerStep, vars, zvars
<1>2. CASE Engine
  <2>1. PICK p \in Passes : Call(p) \/ Progress(p) \/ CloseWindow(p) \/ Crash(p)
    BY <1>2 DEF Engine
  <2>2. CASE LoseAnswer(p)
    BY <2>2 DEF LoseAnswer, Goto, TypeOK
  <2>3. CASE Crash(p)
    BY <2>3 DEF Crash, Ends, TypeOK
  <2>4. ~LoseAnswer(p) /\ ~Crash(p) => late' = late
    BY <2>1 DEF Call, Progress, zvars, Decline, Begin, CallFails, FindZone, ListName, AllRead,
       Skip, RefuseNameInUse, Send, SendTooLate, Publish, Accept, Reject, Duplicate,
       ObserveFinds, ObserveGivesUp, CloseWindow
  <2> QED BY <2>2, <2>3, <2>4
<1> QED BY <1>1, <1>2 DEF Next

-----------------------------------------------------------------------------
(* Steps of the zone.                                                      *)

RowNext(i, p) == zone'[i] # NoRow /\ origin'[i] = p /\ zone'[i].name \notin disturbed'

Kept(i, p) == RowOf(i, p) /\ Same(zone'[i], zone[i])

Landed(i, p, r) == /\ r.id = 0 /\ r.by = p /\ r.want = zone'[i] /\ i = issued + 1
                   /\ \A j \in Ids \ {i} : zone'[j] = zone[j]

(* A write that reaches the zone is a row of its own, or leaves the row it *)
(* patches the record it was - or that row's name is disturbed.            *)
LEMMA ApplyRows ==
  ASSUME TypeOK, NEW r \in Request, Grounded(r), Apply(r),
         NEW i \in Ids, NEW p \in Passes, RowNext(i, p)
  PROVE  Kept(i, p) \/ Landed(i, p, r)
<1> USE DEF TypeOK, RowNext
<1>0. issued \in Nat /\ r.want \in Record /\ disturbed' = disturbed
  BY DEF Apply, Request
<1>1. CASE r.id = 0
  <2>1. /\ zone' = [zone EXCEPT ![issued + 1] = r.want]
        /\ origin' = [origin EXCEPT ![issued + 1] = r.by]
    BY <1>1 DEF Apply, AddRow
  <2>2. CASE i = issued + 1
    BY <1>1, <2>1, <2>2 DEF Landed
  <2>3. CASE i # issued + 1
    BY <1>0, <2>1, <2>3 DEF Kept, RowOf, Live, Same
  <2> QED BY <2>2, <2>3
<1>2. CASE r.id # 0
  <2>1. /\ zone' = [zone EXCEPT ![r.id] = r.want] /\ origin' = origin /\ Live(r.id)
        /\ r.id \in Ids
    BY <1>2 DEF Apply, Request, Ids
  <2>2. CASE i = r.id
    BY <1>0, <1>2, <2>1, <2>2 DEF Grounded, Tracks, Kept, RowOf, Live, Same
  <2>3. CASE i # r.id
    BY <1>0, <2>1, <2>3 DEF Kept, RowOf, Live, Same
  <2> QED BY <2>2, <2>3
<1> QED BY <1>1, <1>2

LEMMA CustomerRows ==
  ASSUME TypeOK, CustomerStep, NEW i \in Ids, NEW p \in Passes, RowNext(i, p)
  PROVE  Kept(i, p)
<1> USE PassesAssumption DEF TypeOK, RowNext, Kept, RowOf, Live, Same
<1>0. p # Customer /\ issued \in Nat
  OBVIOUS
<1>1. CASE CustomerAdds /\ ByCustomer(issued + 1)
  <2>1. PICK s \in Record : zone' = [zone EXCEPT ![issued + 1] = s] /\ issued < MaxRows
    BY <1>1 DEF CustomerAdds, AddRow
  <2>2. i # issued + 1
    BY <1>0, <1>1 DEF ByCustomer
  <2> QED BY <1>0, <1>1, <2>1, <2>2 DEF CustomerAdds, ByCustomer
<1>2. CASE /\ CustomerEdits
           /\ origin' = [j \in Ids |-> IF zone'[j] # zone[j] THEN Customer ELSE origin[j]]
  <2>1. zone'[i] = zone[i] /\ origin[i] = p
    BY <1>0, <1>2
  <2> QED BY <1>2, <2>1 DEF CustomerEdits
<1>3. CASE CustomerDeletes /\ UNCHANGED origin
  BY <1>3 DEF CustomerDeletes
<1> QED BY <1>1, <1>2, <1>3 DEF CustomerStep

(* A row of a call after a step is one before it, or the landing of its    *)
(* request: the one it has in flight, or one that is late.                 *)
LEMMA RowsStep ==
  ASSUME TypeOK, Control, ReqsGrounded, [Next]_vars,
         NEW i \in Ids, NEW p \in Passes, RowNext(i, p)
  PROVE  \/ Kept(i, p)
         \/ Accept(p) /\ Landed(i, p, req[p])
         \/ \E r \in late : Landed(i, p, r) /\ late' = late \ {r} /\ UNCHANGED pvars
<1>1. CASE UNCHANGED <<zone, disturbed, origin>>
  BY <1>1 DEF RowNext, Kept, RowOf, Live, Same
<1>2. ASSUME NEW q \in Passes, Accept(q) PROVE Kept(i, p) \/ (Accept(p) /\ Landed(i, p, req[p]))
  <2>1. req[q] \in Request /\ Grounded(req[q]) /\ Apply(req[q]) /\ req[q].by = q
    BY <1>2 DEF Accept, Control, ReqsGrounded
  <2>2. Kept(i, p) \/ Landed(i, p, req[q])
    BY <2>1, ApplyRows
  <2> QED BY <1>2, <2>1, <2>2 DEF Landed
<1>3. CASE ApplyLate
  <2>1. PICK r \in late : Apply(r) /\ late' = late \ {r} /\ UNCHANGED pvars
    BY <1>3 DEF ApplyLate
  <2>2. r \in Request /\ Grounded(r)
    BY DEF TypeOK, ReqsGrounded
  <2>3. Kept(i, p) \/ Landed(i, p, r)
    BY <2>1, <2>2, ApplyRows
  <2> QED BY <2>1, <2>3
<1>4. CASE CustomerStep
  BY <1>4, CustomerRows
<1>5. ASSUME NEW q \in Passes, ~Accept(q),
             Call(q) \/ Progress(q) \/ CloseWindow(q) \/ Crash(q)
      PROVE  UNCHANGED <<zone, disturbed, origin>>
  BY <1>5 DEF Call, Progress, zvars, Decline, Begin, CallFails, FindZone, ListName, AllRead, Skip,
     RefuseNameInUse, Send, SendTooLate, Publish, Reject, Duplicate, LoseAnswer, ObserveFinds,
     ObserveGivesUp, CloseWindow, Crash
<1>6. UNCHANGED vars => UNCHANGED <<zone, disturbed, origin>>
  BY DEF vars, zvars
<1> QED BY <1>1, <1>2, <1>3, <1>4, <1>5, <1>6 DEF Next, Engine

-----------------------------------------------------------------------------
(* A create in flight is for a record for which nothing has left yet.      *)
LEMMA SentIsNext ==
  ASSUME TypeOK, Control, NEW p \in Passes, pc[p] = "sent", NEW k \in DOMAIN plan[p], Gone(p, k)
  PROVE  /\ at[p] \in DOMAIN plan[p] /\ req[p].want = plan[p][at[p]]
         /\ ~Same(plan[p][k], req[p].want) /\ ~Same(req[p].want, plan[p][k])
<1>1. at[p] \in DOMAIN plan[p] /\ req[p].want = plan[p][at[p]]
  BY DEF Control, Want
<1>2. k < at[p] /\ k \in Nat /\ at[p] \in Nat
  BY PlanTypes DEF Gone, TypeOK
<1>3. k # at[p]
  BY <1>2
<1> QED BY <1>1, <1>3, RecordsApart

LEMMA PlansStep ==
  ASSUME TypeOK, Control, PlansGood, [Next]_vars
  PROVE  PlansGood'
<1>1. ASSUME NEW p \in Passes, NEW s \in Plans, Begin(p, s) PROVE PlansGood'
  BY <1>1 DEF Begin, PlansGood, TypeOK
<1>2. CASE plan' = plan
  BY <1>2 DEF PlansGood
<1>3. ASSUME NEW p \in Passes, Decline(p) \/ Progress(p) \/ CloseWindow(p) \/ Crash(p)
      PROVE  plan' = plan
  BY <1>3 DEF Progress, Decline, CallFails, FindZone, ListName, AllRead, Skip, RefuseNameInUse,
     Send, SendTooLate, Publish, Accept, Reject, Duplicate, LoseAnswer, ObserveFinds,
     ObserveGivesUp, CloseWindow, Crash, Ends
<1> QED
  BY <1>1, <1>2, <1>3 DEF Next, Engine, Call, ApplyLate, CustomerStep, vars, pvars

LEMMA LatePlannedStep ==
  ASSUME TypeOK, Control, LatePlanned, [Next]_vars
  PROVE  LatePlanned'
<1> SUFFICES ASSUME NEW r \in late'
             PROVE  \E k \in DOMAIN plan'[r.by] : (Gone(r.by, k))' /\ r.want = plan'[r.by][k]
  BY DEF LatePlanned
<1>1. CASE r \in late
  <2>1. PICK k \in DOMAIN plan[r.by] : Gone(r.by, k) /\ r.want = plan[r.by][k]
    BY <1>1 DEF LatePlanned
  <2> QED BY <1>1, <2>1, LateTypes, GoneOn
<1>2. CASE r \notin late
  <2>1. PICK p \in Passes : /\ r = req[p] /\ pc[p] = "sent" /\ pc'[p] \in {"observe", "done"}
                            /\ at'[p] = at[p] /\ plan'[p] = plan[p]
    BY <1>2, LateStep
  <2>2. at[p] \in DOMAIN plan[p] /\ r.want = plan[p][at[p]] /\ r.by = p
    BY <2>1 DEF Control, Want
  <2>3. (Gone(p, at[p]))'
    BY <2>1 DEF Gone
  <2> QED BY <2>1, <2>2, <2>3 DEF Gone
<1> QED BY <1>1, <1>2

LEMMA RowsPlannedStep ==
  ASSUME Sound, [Next]_vars
  PROVE  RowsPlanned'
<1> USE DEF Sound, Tracking, RowFacts
<1> SUFFICES ASSUME NEW p \in Passes, NEW i \in Ids, RowNext(i, p)
             PROVE  \E k \in DOMAIN plan'[p] : (Gone(p, k))' /\ Same(zone'[i], plan'[p][k])
  BY DEF RowsPlanned, RowOf, RowNext, Live, Same
<1>1. CASE Kept(i, p)
  <2>1. PICK k \in DOMAIN plan[p] : Gone(p, k) /\ Same(zone[i], plan[p][k])
    BY <1>1 DEF Kept, RowsPlanned
  <2>2. plan'[p] = plan[p] /\ (Gone(p, k))'
    BY <2>1, GoneOn
  <2> QED BY <1>1, <2>1, <2>2 DEF Kept, Same
<1>2. CASE Accept(p) /\ Landed(i, p, req[p])
  <2>1. at[p] \in DOMAIN plan[p] /\ zone'[i] = plan[p][at[p]]
    BY <1>2 DEF Accept, Landed, Control, Want
  <2>2. plan' = plan /\ at'[p] = at[p] + 1 /\ at[p] \in Nat
    BY <1>2 DEF Accept, Advance, TypeOK
  <2>3. at[p] < at'[p]
    BY <2>2
  <2> QED BY <2>1, <2>2, <2>3 DEF Gone, Same
<1>3. ASSUME NEW r \in late, Landed(i, p, r)
      PROVE  \E k \in DOMAIN plan'[p] : (Gone(p, k))' /\ Same(zone'[i], plan'[p][k])
  <2>1. PICK k \in DOMAIN plan[p] : Gone(p, k) /\ r.want = plan[p][k]
    BY <1>3 DEF LatePlanned, Landed
  <2>2. plan'[p] = plan[p] /\ (Gone(p, k))'
    BY <2>1, GoneOn
  <2> QED BY <1>3, <2>1, <2>2 DEF Landed, Same
<1> QED BY <1>1, <1>2, <1>3, RowsStep

LEMMA LateUnlandedStep ==
  ASSUME Sound, [Next]_vars
  PROVE  LateUnlanded'
<1> USE DEF Sound, Tracking, RowFacts
<1> SUFFICES ASSUME NEW r \in late', NEW i \in Ids, r.id = 0, RowNext(i, r.by),
                    Same(zone'[i], r.want)
             PROVE  FALSE
  BY DEF LateUnlanded, RowOf, RowNext, Live, Same
<1>1. CASE r \in late
  <2> DEFINE p == r.by
  <2>0. p \in Passes /\ r = [id |-> r.id, want |-> r.want, by |-> p]
    BY <1>1, LateTypes
  <2>1. PICK k \in DOMAIN plan[p] : Gone(p, k) /\ r.want = plan[p][k]
    BY <1>1 DEF LatePlanned
  <2>2. CASE Kept(i, p)
    BY <1>1, <2>2 DEF Kept, LateUnlanded, Same
  <2>3. CASE Accept(p) /\ Landed(i, p, req[p])
    <3>1. pc[p] = "sent" /\ zone'[i] = req[p].want
      BY <2>3 DEF Accept, Landed
    <3> QED BY <2>0, <2>1, <3>1, SentIsNext
  <2>4. ASSUME NEW s \in late, Landed(i, p, s), late' = late \ {s} PROVE FALSE
    <3>1. s.id = 0 /\ s.by = p /\ zone'[i] = s.want
      BY <2>4 DEF Landed
    <3>2. PICK j \in DOMAIN plan[p] : s.want = plan[p][j]
      BY <3>1 DEF LatePlanned
    <3>3. j = k
      BY <2>0, <2>1, <3>1, <3>2, RecordsApart DEF Same
    <3>4. s = [id |-> s.id, want |-> s.want, by |-> s.by]
      BY LateTypes
    <3>5. s = r
      BY <2>0, <2>1, <3>1, <3>2, <3>3, <3>4
    <3> QED BY <2>4, <3>5
  <2> QED BY <2>0, <2>2, <2>3, <2>4, RowsStep
<1>2. CASE r \notin late
  <2>1. PICK p \in Passes : r = req[p] /\ pc[p] = "sent" /\ UNCHANGED <<zone, disturbed, origin>>
    BY <1>2, LateStep
  <2>2. r.by = p
    BY <2>1 DEF Control
  <2>3. RowOf(i, p) /\ Same(zone[i], r.want)
    BY <2>1, <2>2 DEF RowNext, RowOf, Live
  <2>4. PICK k \in DOMAIN plan[p] : Gone(p, k) /\ Same(zone[i], plan[p][k])
    BY <2>3 DEF RowsPlanned
  <2>5. Same(plan[p][k], r.want)
    BY <2>3, <2>4 DEF Same
  <2> QED BY <2>1, <2>4, <2>5, SentIsNext
<1> QED BY <1>1, <1>2

(* What has just landed is no row the call had.                            *)
LEMMA LandedApart ==
  ASSUME Sound, [Next]_vars, NEW p \in Passes, NEW i \in Ids, NEW j \in Ids, RowOf(j, p),
         \/ Accept(p) /\ Landed(i, p, req[p])
         \/ \E r \in late : Landed(i, p, r)
  PROVE  ~Same(zone'[i], zone[j])
<1> USE DEF Sound, RowFacts
<1>1. CASE Accept(p) /\ Landed(i, p, req[p])
  <2>1. PICK k \in DOMAIN plan[p] : Gone(p, k) /\ Same(zone[j], plan[p][k])
    BY DEF RowsPlanned
  <2>2. pc[p] = "sent" /\ zone'[i] = req[p].want
    BY <1>1 DEF Accept, Landed
  <2>3. ~Same(plan[p][k], req[p].want)
    BY <2>1, <2>2, SentIsNext
  <2> QED BY <2>1, <2>2, <2>3 DEF Same
<1>2. ASSUME NEW r \in late, Landed(i, p, r) PROVE ~Same(zone'[i], zone[j])
  BY <1>2 DEF Landed, LateUnlanded, Same
<1> QED BY <1>1, <1>2

LEMMA RowsApartStep ==
  ASSUME Sound, [Next]_vars
  PROVE  RowsApart'
<1> USE DEF Sound, Tracking
<1> SUFFICES ASSUME NEW p \in Passes, NEW i \in Ids, NEW j \in Ids, i # j,
                    RowNext(i, p), RowNext(j, p), Same(zone'[i], zone'[j])
             PROVE  FALSE
  BY DEF RowsApart, RowOf, RowNext, Live, Same
<1> DEFINE New(h) == \/ Accept(p) /\ Landed(h, p, req[p])
                     \/ \E r \in late : Landed(h, p, r)
<1>1. (Kept(i, p) \/ New(i)) /\ (Kept(j, p) \/ New(j))
  BY RowsStep
<1>2. CASE Kept(i, p) /\ Kept(j, p)
  BY <1>2 DEF Kept, RowFacts, RowsApart, Same
<1>3. CASE New(i) /\ Kept(j, p)
  BY <1>3, LandedApart DEF Kept, Same
<1>4. CASE Kept(i, p) /\ New(j)
  BY <1>4, LandedApart DEF Kept, Same
<1>5. CASE New(i) /\ New(j)
  BY <1>5 DEF Landed
<1> QED BY <1>1, <1>2, <1>3, <1>4, <1>5

LEMMA SoundHolds == Spec => []Sound
<1>1. Init => RowFacts
  BY RowsInit
<1>2. Sound /\ [Next]_vars => RowFacts'
  BY PlansStep, LatePlannedStep, RowsPlannedStep, LateUnlandedStep, RowsApartStep DEF Sound, RowFacts
<1> QED BY <1>1, <1>2, TrackingHolds, PTL DEF Spec, Sound

(* One call never leaves two rows for one record, nor two CNAMEs at one    *)
(* owner, even when answers are lost and writes land late (Publish, rules  *)
(* 3 and 4).                                                               *)
THEOREM OneRowHolds == Spec => []OneRowPerRecord
<1>1. Sound => OneRowPerRecord
  <2> SUFFICES ASSUME Sound, NEW i \in Ids, NEW j \in Ids, i # j, NEW p \in Passes,
                      RowOf(i, p), RowOf(j, p)
               PROVE  /\ ~Same(zone[i], zone[j])
                      /\ ~(/\ zone[i].type = "CNAME" /\ zone[j].type = "CNAME"
                           /\ zone[i].name = zone[j].name)
    BY DEF OneRowPerRecord, RowOf, Sound, TypeOK
  <2>1. ~Same(zone[i], zone[j])
    BY DEF Sound, RowFacts, RowsApart
  <2>2. PICK k, l \in DOMAIN plan[p] : Same(zone[i], plan[p][k]) /\ Same(zone[j], plan[p][l])
    BY DEF Sound, RowFacts, RowsPlanned
  <2>3. ~Conflicting(plan[p])
    BY <2>2 DEF Sound, RowFacts, PlansGood, Publishable
  <2> QED BY <2>1, <2>2, <2>3 DEF Conflicting, Same
<1> QED BY <1>1, SoundHolds, PTL
=============================================================================
