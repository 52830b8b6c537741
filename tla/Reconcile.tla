------------------------------ MODULE Reconcile ------------------------------
(***************************************************************************)
(* internal/reconcile: one call of Publisher.Publish, against a provider   *)
(* that loses answers and applies writes late, a customer who edits the    *)
(* zone meanwhile, a window that closes, an instance that dies, and other  *)
(* calls of Publish on the same zone (nothing serialises them).            *)
(*                                                                         *)
(* Names are in dnsplan.NormalizeName's form, and a value stands for its   *)
(* class under the provider's SameValue, so equality is the comparison the *)
(* code makes.  The provider is assumed to enforce no policy of its own:   *)
(* it may accept or refuse a second CNAME, or a second identical row.      *)
(***************************************************************************)
EXTENDS Zone, Sequences, FiniteSets

CONSTANTS Passes,     \* calls of Publish
          Plans,      \* the snapshots' records a call may be handed
          Anchored,   \* the names at or under the snapshot's anchor
          MaxEdits,   \* bound: steps of the customer
          MaxFaults   \* bound: errors, lost answers, closed windows, crashes

VARIABLES
  edits, faults,  \* how much of the two budgets is used
  late,           \* requests whose answer was lost and that may yet apply
  pc, plan, seen, \* per call: control point, snapshot records, `existing`
  read, at, req,  \* names listed, record being reconciled, request in flight
  open, result,   \* the publication window, what Publish returned
  origin,         \* history: who created the row's content
  met             \* history: records satisfied at some instant of the call

zvars == <<zone, issued, disturbed, late, origin>>
pvars == <<pc, plan, seen, read, at, req, open, result>>
vars  == <<zvars, pvars, edits, faults, met>>

Customer == "customer"
Nobody   == "nobody"
NoReq    == [id |-> 0, want |-> NoRow, by |-> Nobody]
Unseen   == [n \in Names |-> [i \in Ids |-> NoRow]]
Request  == [id : 0..MaxRows, want : Record, by : Passes]
Active   == {"find", "list", "write", "sent", "observe"}
Results  == {"none", "no_token", "no_records", "anchor_escape", "conflicting_plan",
             "provider_error", "deadline", "name_in_use", "crashed", "published"}

(* dnsplan.NewSnapshot removes repeated records before Publish sees them.  *)
ASSUME PlansAssumption ==
  /\ Plans \subseteq Seq(Record)
  /\ \A s \in Plans : \A j, k \in DOMAIN s : j # k => ~Same(s[j], s[k])
ASSUME BoundsAssumption == MaxEdits \in Nat /\ MaxFaults \in Nat
ASSUME NamesAssumption == Anchored \subseteq Names
ASSUME PassesAssumption == Passes \cap {Customer, Nobody} = {}

Escapes(s) == \E k \in DOMAIN s : s[k].name \notin Anchored

(* validateNoConflictingCNAMEs                                             *)
Conflicting(s) == \E j, k \in DOMAIN s :
  s[j].type = "CNAME" /\ s[k].type = "CNAME"
    /\ s[j].name = s[k].name /\ s[j].value # s[k].value

(* Mutants: no containment recheck; no conflict check.                     *)
PublishableUncontained == {s \in Plans : s # <<>> /\ ~Conflicting(s)}
PublishableConflicting == {s \in Plans : s # <<>> /\ ~Escapes(s)}

Publishable == {s \in Plans : s # <<>> /\ ~Escapes(s) /\ ~Conflicting(s)}

(* What a customer agreed to: planned records at or under their anchor.    *)
Approved == {r \in UNION {{s[k] : k \in DOMAIN s} : s \in Plans} : r.name \in Anchored}

TypeOK ==
  /\ zone \in [Ids -> Record \union {NoRow}] /\ issued \in 0..MaxRows
  /\ disturbed \subseteq Names /\ late \subseteq Request
  /\ origin \in [Ids -> Passes \union {Customer, Nobody}]
  /\ pc \in [Passes -> Active \union {"idle", "done"}]
  /\ plan \in [Passes -> Plans \union {<<>>}]
  /\ seen \in [Passes -> [Names -> [Ids -> Record \union {NoRow}]]]
  /\ read \in [Passes -> SUBSET Names] /\ at \in [Passes -> Nat \ {0}]
  /\ req \in [Passes -> Request \union {NoReq}]
  /\ open \in [Passes -> BOOLEAN] /\ result \in [Passes -> Results]
  /\ edits \in 0..MaxEdits /\ faults \in 0..MaxFaults
  /\ met \in [Passes -> SUBSET Nat]
  /\ \A p \in Passes : at[p] <= Len(plan[p]) + 1

Init ==
  /\ ZoneInit /\ late = {} /\ origin = [i \in Ids |-> Nobody]
  /\ pc = [p \in Passes |-> "idle"]  /\ plan = [p \in Passes |-> <<>>]
  /\ seen = [p \in Passes |-> Unseen] /\ read = [p \in Passes |-> {}]
  /\ at = [p \in Passes |-> 1]       /\ req = [p \in Passes |-> NoReq]
  /\ open = [p \in Passes |-> FALSE] /\ result = [p \in Passes |-> "none"]
  /\ edits = 0 /\ faults = 0 /\ met = [p \in Passes |-> {}]

Want(p) == plan[p][at[p]]

(* A row that leaves nothing to do for `want`: for a routing CNAME the     *)
(* proxy state counts, for any other type it does not.                     *)
Settles(r, want) == /\ r # NoRow /\ Same(r, want)
                    /\ want.type = "CNAME" => r.proxied = want.proxied

SettledIn(z, s) == {k \in DOMAIN s : \E i \in Ids : Settles(z[i], s[k])}

(* History: what has been true of the zone since the call began.           *)
Witness == met' = [p \in Passes |->
  IF pc'[p] \notin Active THEN met[p]
  ELSE SettledIn(zone', plan'[p]) \union (IF pc[p] \in Active THEN met[p] ELSE {})]

Fault == faults < MaxFaults /\ faults' = faults + 1

Ends(p, r) == /\ pc' = [pc EXCEPT ![p] = "done"]
              /\ result' = [result EXCEPT ![p] = r]
              /\ req' = [req EXCEPT ![p] = NoReq]
              /\ seen' = [seen EXCEPT ![p] = Unseen]
              /\ read' = [read EXCEPT ![p] = {}]
              /\ open' = [open EXCEPT ![p] = FALSE]
              /\ UNCHANGED <<plan, at>>

Goto(p, l) == pc' = [pc EXCEPT ![p] = l]

-----------------------------------------------------------------------------
(* Publish, up to the window: the refusals that make no provider call.     *)

Begin(p, s) ==
  /\ pc[p] = "idle" /\ s \in Publishable
  /\ Goto(p, "find")
  /\ plan' = [plan EXCEPT ![p] = s]
  /\ open' = [open EXCEPT ![p] = TRUE]
  /\ UNCHANGED <<zvars, seen, read, at, req, result, edits, faults>>

Declined(s) == IF s = <<>> THEN "no_records"
               ELSE IF Escapes(s) THEN "anchor_escape" ELSE "conflicting_plan"

Decline(p) ==
  /\ pc[p] = "idle"
  /\ \/ Fault /\ Ends(p, "no_token")
     \/ \E s \in Plans \ Publishable : Ends(p, Declined(s)) /\ UNCHANGED faults
  /\ UNCHANGED <<zvars, edits>>

(* Every provider call carries the window's context: it fails when the     *)
(* window is closed, and may fail on its own.                              *)
CallFails(p) ==
  /\ pc[p] \in {"find", "list"}
  /\ \/ ~open[p] /\ Ends(p, "deadline") /\ UNCHANGED faults
     \/ open[p] /\ Fault /\ Ends(p, "provider_error")
  /\ UNCHANGED <<zvars, edits>>

FindZone(p) ==
  /\ pc[p] = "find" /\ open[p]
  /\ Goto(p, "list")
  /\ UNCHANGED <<zvars, plan, seen, read, at, req, open, result, edits, faults>>

PlanNames(p) == {plan[p][k].name : k \in DOMAIN plan[p]}

(* The next distinct owner name, in plan order, is listed into `existing`. *)
ListName(p) ==
  /\ pc[p] = "list" /\ open[p]
  /\ \E k \in DOMAIN plan[p] : LET n == plan[p][k].name IN
       /\ n \notin read[p]
       /\ \A j \in 1..(k - 1) : plan[p][j].name \in read[p]
       /\ seen' = [seen EXCEPT ![p][n] =
                     [i \in Ids |-> IF Live(i) /\ zone[i].name = n THEN zone[i] ELSE NoRow]]
       /\ read' = [read EXCEPT ![p] = @ \union {n}]
  /\ UNCHANGED <<zvars, pc, plan, at, req, open, result, edits, faults>>

AllRead(p) ==
  /\ pc[p] = "list" /\ PlanNames(p) \subseteq read[p]
  /\ Goto(p, "write")
  /\ UNCHANGED <<zvars, plan, seen, read, at, req, open, result, edits, faults>>

-----------------------------------------------------------------------------
(* The record loop.  It decides from `existing`, which is never refreshed. *)

Rows(p)     == seen[p][Want(p).name]
Present(p)  == {i \in Ids : Rows(p)[i] # NoRow}
SameType(p) == {i \in Present(p) : Rows(p)[i].type = Want(p).type}
Ours(p)     == {i \in SameType(p) : Rows(p)[i].value = Want(p).value}

(* Mutant: value alone, so that a wrong proxy state is never repaired.     *)
MatchedByValue(p) == Ours(p) # {}

Matched(p)  == \E i \in Ours(p) :
                 Want(p).type = "CNAME" => Rows(p)[i].proxied = Want(p).proxied
Occupied(p) == Want(p).type = "CNAME" /\ SameType(p) # {}

InLoop(p) == pc[p] = "write" /\ at[p] \in DOMAIN plan[p]

(* Mutant: steps over a record.                                            *)
AdvanceTwo(p) == at' = [at EXCEPT ![p] = @ + 2]

Advance(p) == at' = [at EXCEPT ![p] = @ + 1]

Skip(p) ==
  /\ InLoop(p) /\ Matched(p)
  /\ Advance(p)
  /\ UNCHANGED <<zvars, pc, plan, seen, read, req, open, result, edits, faults>>

RefuseNameInUse(p) ==
  /\ InLoop(p) /\ ~Matched(p) /\ Occupied(p) /\ Ours(p) = {}
  /\ Ends(p, "name_in_use")
  /\ UNCHANGED <<zvars, edits, faults>>

(* The id written: 0 creates a row, otherwise that row is patched.  The    *)
(* provider lists rows in an order of its own, so "the first of ours" may  *)
(* be any of ours.                                                         *)
(* Mutant: the row already there is patched, whoever it serves.            *)
TargetsAnyRow(p) == IF Occupied(p) THEN SameType(p) ELSE {0}

Targets(p) == IF Occupied(p) THEN Ours(p) ELSE {0}

Send(p) ==
  /\ InLoop(p) /\ ~Matched(p) /\ Targets(p) # {} /\ open[p]
  /\ \E t \in Targets(p) :
       req' = [req EXCEPT ![p] = [id |-> t, want |-> Want(p), by |-> p]]
  /\ Goto(p, "sent")
  /\ UNCHANGED <<zvars, plan, seen, read, at, open, result, edits, faults>>

(* A write under a closed window is never sent; its ambiguous error is     *)
(* observed under the same closed window.                                  *)
SendTooLate(p) ==
  /\ InLoop(p) /\ ~Matched(p) /\ Targets(p) # {} /\ ~open[p]
  /\ Ends(p, "deadline")
  /\ UNCHANGED <<zvars, edits, faults>>

Publish(p) ==
  /\ pc[p] = "write" /\ at[p] \notin DOMAIN plan[p]
  /\ Ends(p, "published")
  /\ UNCHANGED <<zvars, edits, faults>>

-----------------------------------------------------------------------------
(* The provider.  Apply is a write reaching the zone; a create mints an    *)
(* id, a patch sets every field of the row with that id.                   *)

Apply(r) ==
  \/ /\ r.id = 0 /\ AddRow(r.want)
     /\ origin' = [origin EXCEPT ![issued + 1] = r.by]
     /\ UNCHANGED disturbed
  \/ /\ r.id # 0 /\ Live(r.id)
     /\ zone' = [zone EXCEPT ![r.id] = r.want]
     /\ UNCHANGED <<issued, disturbed, origin>>

Accept(p) ==
  /\ pc[p] = "sent" /\ open[p]
  /\ Apply(req[p])
  /\ Goto(p, "write") /\ Advance(p)
  /\ req' = [req EXCEPT ![p] = NoReq]
  /\ UNCHANGED <<late, plan, seen, read, open, result, edits, faults>>

(* A definitive refusal needs a reason: the row to patch is gone, a CNAME  *)
(* is in the way, the zone is full; or any other error the provider has.   *)
Refusable(r) ==
  \/ r.id # 0 /\ ~Live(r.id)
  \/ r.id = 0 /\ issued = MaxRows
  \/ r.id = 0 /\ \E i \in Ids : Live(i) /\ zone[i].name = r.want.name
                    /\ "CNAME" \in {zone[i].type, r.want.type}

Reject(p) ==
  /\ pc[p] = "sent" /\ open[p]
  /\ IF Refusable(req[p]) THEN UNCHANGED faults ELSE Fault
  /\ Ends(p, "provider_error")
  /\ UNCHANGED <<zvars, edits>>

(* "Already exists": something raced the create, not that it is ours.      *)
Duplicate(p) ==
  /\ pc[p] = "sent" /\ open[p] /\ req[p].id = 0
  /\ \E i \in Ids : /\ Live(i) /\ zone[i].name = req[p].want.name
                    /\ zone[i].type = req[p].want.type
                    /\ zone[i].type = "TXT" => zone[i].value = req[p].want.value
  /\ Goto(p, "observe")
  /\ UNCHANGED <<zvars, plan, seen, read, at, req, open, result, edits, faults>>

(* Timeout, rate limit, 5xx, broken connection: the request may apply      *)
(* later, or never.  A closed window cuts the call off in the same way.    *)
LoseAnswer(p) ==
  /\ pc[p] = "sent"
  /\ IF open[p] THEN Fault ELSE UNCHANGED faults
  /\ late' = late \union {req[p]}
  /\ Goto(p, "observe")
  /\ UNCHANGED <<zone, issued, disturbed, origin, plan, seen, read, at, req, open, result, edits>>

ApplyLate ==
  /\ \E r \in late : Apply(r) /\ late' = late \ {r}
  /\ UNCHANGED <<pvars, edits, faults>>

-----------------------------------------------------------------------------
(* observe: read-only re-reads until the row is there or time runs out.    *)

Satisfies(r, want) == r # NoRow /\ r = want

Converged(p) == \E i \in Ids : /\ req[p].id \in {0, i}
                               /\ Satisfies(zone[i], req[p].want)

ObserveFinds(p) ==
  /\ pc[p] = "observe" /\ open[p] /\ Converged(p)
  /\ Goto(p, "write") /\ Advance(p)
  /\ req' = [req EXCEPT ![p] = NoReq]
  /\ UNCHANGED <<zvars, plan, seen, read, open, result, edits, faults>>

(* Mutants: the lost write is assumed to have landed; it is sent again;    *)
(* re-reading goes on until the row is there.                              *)
AssumeLanded(p) ==
  /\ pc[p] = "observe"
  /\ Goto(p, "write") /\ Advance(p)
  /\ req' = [req EXCEPT ![p] = NoReq]
  /\ UNCHANGED <<zvars, plan, seen, read, open, result, edits, faults>>

SendAgain(p) ==
  /\ pc[p] = "observe" /\ ~Converged(p)
  /\ Goto(p, "sent")
  /\ UNCHANGED <<zvars, plan, seen, read, at, req, open, result, edits, faults>>

ObserveForever(p) ==
  /\ pc[p] = "observe" /\ Converged(p)
  /\ Ends(p, "provider_error")
  /\ UNCHANGED <<zvars, edits, faults>>

(* Re-reads that fail or find nothing change nothing until one of the two  *)
(* timeouts wins.  The observation window may close just before a row      *)
(* turns up, so it is not guarded by ~Converged.                           *)
ObserveGivesUp(p) ==
  /\ pc[p] = "observe"
  /\ Ends(p, IF open[p] THEN "provider_error" ELSE "deadline")
  /\ UNCHANGED <<zvars, edits, faults>>

CloseWindow(p) ==
  /\ pc[p] \in Active /\ open[p] /\ Fault
  /\ open' = [open EXCEPT ![p] = FALSE]
  /\ UNCHANGED <<zvars, pc, plan, seen, read, at, req, result, edits>>

(* The instance dies: nothing is returned, a request in flight is on its   *)
(* own.                                                                    *)
Crash(p) ==
  /\ pc[p] \in Active /\ Fault
  /\ late' = IF pc[p] = "sent" THEN late \union {req[p]} ELSE late
  /\ Ends(p, "crashed")
  /\ UNCHANGED <<zone, issued, disturbed, origin, edits>>

-----------------------------------------------------------------------------
(* The customer, in their own dashboard.                                   *)

Edit == edits < MaxEdits /\ edits' = edits + 1

ByCustomer(i) == origin' = [origin EXCEPT ![i] = Customer]

CustomerStep ==
  /\ Edit
  /\ \/ CustomerAdds /\ ByCustomer(issued + 1)
     \/ CustomerEdits /\ origin' = [i \in Ids |->
                           IF zone'[i] # zone[i] THEN Customer ELSE origin[i]]
     \/ CustomerDeletes /\ UNCHANGED origin
  /\ UNCHANGED <<late, pvars, faults>>

(* The caller's next pass over the same registration, as its schedule has  *)
(* it.  Used where a property is about repeated passes.                    *)
Again(p) ==
  /\ pc[p] = "done"
  /\ pc' = [pc EXCEPT ![p] = "idle"] /\ plan' = [plan EXCEPT ![p] = <<>>]
  /\ at' = [at EXCEPT ![p] = 1] /\ result' = [result EXCEPT ![p] = "none"]
  /\ UNCHANGED <<zvars, seen, read, req, open, edits, faults>>

(* The steps of the call itself, and those of the world around it.         *)
Progress(p) ==
  \/ FindZone(p) \/ ListName(p) \/ AllRead(p) \/ Skip(p) \/ RefuseNameInUse(p)
  \/ Send(p) \/ SendTooLate(p) \/ Publish(p) \/ CallFails(p)
  \/ Accept(p) \/ Reject(p) \/ Duplicate(p) \/ LoseAnswer(p)
  \/ ObserveFinds(p) \/ ObserveGivesUp(p)

Call(p) == \/ Decline(p) \/ \E s \in Plans : Begin(p, s)

Engine == \E p \in Passes : Call(p) \/ Progress(p) \/ CloseWindow(p) \/ Crash(p)

Next == /\ Engine \/ ApplyLate \/ CustomerStep
        /\ Witness

Spec == Init /\ [][Next]_vars

(* The scheduler keeps calling Publish, and a call that has begun goes on: *)
(* the process runs, the provider answers or the HTTP client's timeout     *)
(* does, the windows close.  Neither the customer, a crash nor a fault is  *)
(* ever owed.                                                              *)
RepeatNext == /\ Engine \/ ApplyLate \/ CustomerStep \/ \E p \in Passes : Again(p)
              /\ Witness

RepeatSpec ==
  /\ Init /\ [][RepeatNext]_vars
  /\ \A p \in Passes : /\ WF_vars(Progress(p) /\ Witness)
                       /\ WF_vars((\E s \in Plans : Begin(p, s)) /\ Witness)
                       /\ WF_vars(Again(p) /\ Witness)

-----------------------------------------------------------------------------
(* The contract, with the approved records as what was promised.           *)
Contract == INSTANCE ZoneContract WITH Promised <- Approved
ImplementsContract == Contract!CSpec

(* Publish's nil answer is earned: every record of the plan was satisfied  *)
(* at some instant between the call's start and its return - whatever the  *)
(* customer, other calls or lost answers did (Publish, createObserved).    *)
PublishedWasTrue ==
  \A p \in Passes : result[p] = "published" => met[p] = DOMAIN plan[p]

(* And it lasts: at a name whose rows the customer left alone, a published *)
(* record is still there, whatever later or concurrent calls do (rules 1   *)
(* and 3 of the package comment).                                          *)
PublishedStands ==
  \A p \in Passes : result[p] = "published" =>
    \A k \in DOMAIN plan[p] : plan[p][k].name \notin disturbed =>
      \E i \in Ids : Live(i) /\ Same(zone[i], plan[p][k])

(* One call never leaves two rows for one record, nor two CNAMEs at one    *)
(* owner, even when answers are lost and writes land late (rules 3 and 4). *)
OneRowPerRecord ==
  \A i, j \in Ids : (i # j /\ Live(i) /\ Live(j) /\ origin[i] \in Passes /\ origin[j] = origin[i]
                      /\ {zone[i].name, zone[j].name} \cap disturbed = {}) =>
    /\ ~Same(zone[i], zone[j])
    /\ ~(zone[i].type = "CNAME" /\ zone[j].type = "CNAME" /\ zone[i].name = zone[j].name)

(* Every call ends, however its answers are lost (rule 5: one bounded      *)
(* window).                                                                *)
EveryCallEnds == \A p \in Passes : pc[p] \in Active ~> pc[p] = "done"

(* Repeated passes converge once the customer and the faults are quiet:    *)
(* either every record of the plan is in the zone, or a row the customer   *)
(* put at a planned name excludes it (a CNAME beside anything else) and    *)
(* stays refused - the engine never gets in its own way (Publish).         *)
Blocked(s) == \E k \in DOMAIN s, i \in Ids :
  /\ Live(i) /\ origin[i] = Customer /\ zone[i].name = s[k].name
  /\ ~Same(zone[i], s[k]) /\ "CNAME" \in {zone[i].type, s[k].type}

Convergence == \A s \in Publishable :
  <>[](SettledIn(zone, s) = DOMAIN s \/ Blocked(s))
=============================================================================
