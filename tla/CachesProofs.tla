---------------------------- MODULE CachesProofs ----------------------------
(***************************************************************************)
(* Proofs about Caches, for every pair of windows, every set of values and *)
(* every history of the source.                                            *)
(***************************************************************************)
EXTENDS Caches, TLAPS

(* No date is in the future.                                               *)
Dated ==
  /\ loadedAt <= now /\ failedAt <= now /\ lastFail <= now
  /\ answer.at <= now /\ changedAt <= now

(* The probe reads no secret and remembers no refusal.                     *)
ProbeOnly == which = "reach" => secret = Answered /\ failedAt = Never

(* What was loaded since the source last changed is what it holds: the     *)
(* value if there is one, and none if it was withdrawn.                    *)
LoadedIsCurrent ==
  loadedAt > changedAt =>
    /\ Usable => value = secret
    /\ Withdrawn => value = None

(* A refusal dated since the source last changed is still deserved.        *)
RefusedIsUnusable == failedAt > changedAt => ~Usable

(* What was answered last, if anything, is still held.                     *)
AnswerIsHeld == answer.value # None => value = answer.value

(* Whatever read failed last left a date behind that keeps the next away.  *)
FailureIsDated ==
  which # "oauth" /\ lastFail # Never =>
    \/ loadedAt >= lastFail /\ (which = "reach" \/ value # None)
    \/ failedAt >= lastFail /\ (which = "keyset" \/ value = None)

Inv ==
  /\ TypeOK /\ Dated /\ ProbeOnly /\ LoadedIsCurrent /\ RefusedIsUnusable
  /\ AnswerIsHeld /\ FailureIsDated

LEMMA AnsweredIsValue == Answered \in Values /\ Answered \notin {"unfilled", "malformed", None}
BY ValuesAssumption DEF Answered

LEMMA InvInit == Init => Inv
<1> USE BoundAssumption, AnsweredIsValue DEF Init, Never, Times
<1>1. ASSUME Init PROVE TypeOK
  <2>1. answer \in [value : Values \union {None}, at : Times]
    BY <1>1
  <2>2. which \in Kinds /\ secret \in Contents /\ reachable \in BOOLEAN /\ reads \in BOOLEAN
    BY <1>1, Zenon
  <2>3. {now, changedAt} \subseteq 0..MaxTime /\ changes \in 0..MaxChanges
    BY <1>1
  <2>4. value \in Values \union {None} /\ {loadedAt, failedAt, lastFail} \subseteq Times
    BY <1>1
  <2> QED BY <2>1, <2>2, <2>3, <2>4 DEF TypeOK
<1>2. Init => Dated /\ ProbeOnly /\ AnswerIsHeld /\ FailureIsDated
  BY DEF Dated, ProbeOnly, AnswerIsHeld, FailureIsDated
<1>3. Init => LoadedIsCurrent /\ RefusedIsUnusable
  BY DEF LoadedIsCurrent, RefusedIsUnusable
<1> QED BY <1>1, <1>2, <1>3 DEF Inv

-----------------------------------------------------------------------------
(* The steps that read nothing.                                            *)

LEMMA TickStep == Inv /\ Tick => Inv'
BY BoundAssumption
DEF Inv, Tick, TypeOK, Dated, ProbeOnly, LoadedIsCurrent, RefusedIsUnusable, AnswerIsHeld,
    FailureIsDated, Usable, Withdrawn, source, loader, history, Times, Never

(* A change of the source dates everything loaded or refused before it.    *)
LEMMA ChangeStep ==
  ASSUME Inv, Changes, secret' \in Contents, reachable' \in BOOLEAN,
         which = "reach" => secret' = secret
  PROVE  Inv'
<1> USE BoundAssumption DEF Inv, Changes, Change, loader, history
<1>1. TypeOK'
  BY DEF TypeOK, Times
<1>2. loadedAt' <= changedAt' /\ failedAt' <= changedAt'
  BY DEF Dated
<1>3. LoadedIsCurrent' /\ RefusedIsUnusable'
  BY <1>1, <1>2 DEF LoadedIsCurrent, RefusedIsUnusable, TypeOK, Times, Never
<1>4. Dated' /\ ProbeOnly' /\ AnswerIsHeld' /\ FailureIsDated'
  BY DEF Dated, ProbeOnly, AnswerIsHeld, FailureIsDated, TypeOK
<1> QED BY <1>1, <1>3, <1>4

LEMMA ServeStep == Inv /\ Serve => Inv'
<1> SUFFICES ASSUME Inv, Serve PROVE Inv'
  OBVIOUS
<1> USE DEF Inv, Serve, Answers, source, loader
<1>1. TypeOK'
  BY DEF TypeOK, Times, Fresh, BackingOff
<1>2. Dated'
  BY DEF Dated, TypeOK
<1>3. ProbeOnly' /\ LoadedIsCurrent' /\ RefusedIsUnusable' /\ AnswerIsHeld' /\ FailureIsDated'
  BY DEF ProbeOnly, LoadedIsCurrent, RefusedIsUnusable, AnswerIsHeld, FailureIsDated, Usable, Withdrawn
<1> QED BY <1>1, <1>2, <1>3

-----------------------------------------------------------------------------
(* The steps that read.                                                    *)

LEMMA LoadStep == Inv /\ Load => Inv'
<1> SUFFICES ASSUME Inv, Load PROVE Inv'
  OBVIOUS
<1> USE ValuesAssumption, BoundAssumption DEF Inv, Load, Reads, Answers, source, Usable
<1>1. TypeOK'
  BY DEF TypeOK, Times, Never
<1>2. Dated' /\ ProbeOnly' /\ RefusedIsUnusable' /\ AnswerIsHeld'
  BY DEF Dated, ProbeOnly, RefusedIsUnusable, AnswerIsHeld, TypeOK, Never
<1>3. LoadedIsCurrent'
  BY DEF LoadedIsCurrent, Withdrawn, TypeOK
<1>4. FailureIsDated'
  BY DEF FailureIsDated, Dated, TypeOK, Times
<1> QED BY <1>1, <1>2, <1>3, <1>4

LEMMA RideStep == Inv /\ Ride => Inv'
<1> SUFFICES ASSUME Inv, Ride PROVE Inv'
  OBVIOUS
<1> USE ValuesAssumption, BoundAssumption DEF Inv, Ride, Reads, Answers, source, Blip
<1>1. TypeOK'
  BY DEF TypeOK, Times
<1>2. Dated' /\ ProbeOnly' /\ AnswerIsHeld'
  BY DEF Dated, ProbeOnly, AnswerIsHeld, TypeOK
<1>3. LoadedIsCurrent' /\ RefusedIsUnusable'
  BY DEF LoadedIsCurrent, RefusedIsUnusable, Usable, Withdrawn
<1>4. FailureIsDated'
  BY DEF FailureIsDated, TypeOK
<1> QED BY <1>1, <1>2, <1>3, <1>4

LEMMA RefuseStep == Inv /\ Refuse => Inv'
<1> SUFFICES ASSUME Inv, Refuse PROVE Inv'
  OBVIOUS
<1> USE ValuesAssumption, BoundAssumption DEF Inv, Refuse, Reads, Answers, source, Remaining
<1>1. TypeOK'
  BY DEF TypeOK, Times
<1>2. Dated' /\ ProbeOnly' /\ AnswerIsHeld'
  BY DEF Dated, ProbeOnly, AnswerIsHeld, TypeOK
<1>3. LoadedIsCurrent' /\ RefusedIsUnusable'
  BY DEF LoadedIsCurrent, RefusedIsUnusable, Usable, Withdrawn
<1>4. FailureIsDated'
  BY DEF FailureIsDated, TypeOK
<1> QED BY <1>1, <1>2, <1>3, <1>4

LEMMA SweepStep == Inv /\ (\E cut \in BOOLEAN : Sweep(cut)) => Inv'
<1> SUFFICES ASSUME Inv, NEW cut \in BOOLEAN, Sweep(cut) PROVE Inv'
  OBVIOUS
<1> USE AnsweredIsValue, BoundAssumption DEF Inv, Sweep, Answers, Change
<1>1. TypeOK'
  BY DEF TypeOK, Times
<1>2. Dated' /\ ProbeOnly' /\ AnswerIsHeld'
  BY DEF Dated, ProbeOnly, AnswerIsHeld, TypeOK
<1>3. LoadedIsCurrent'
  <2>1. CASE cut
    BY <2>1 DEF LoadedIsCurrent, TypeOK
  <2>2. CASE ~cut
    BY <2>2 DEF LoadedIsCurrent, ProbeOnly, Degraded, Usable, Withdrawn
  <2> QED BY <2>1, <2>2
<1>4. RefusedIsUnusable' /\ FailureIsDated'
  BY DEF RefusedIsUnusable, FailureIsDated, ProbeOnly, Dated, TypeOK, Times, Never
<1> QED BY <1>1, <1>2, <1>3, <1>4

LEMMA InvStep == Inv /\ [Next]_vars => Inv'
<1> SUFFICES ASSUME Inv, [Next]_vars PROVE Inv'
  OBVIOUS
<1>1. CASE Rewrite
  BY <1>1, ChangeStep DEF Rewrite, Inv, TypeOK
<1>2. CASE Outage
  BY <1>2, ChangeStep DEF Outage, Inv, TypeOK
<1>3. CASE UNCHANGED vars
  BY <1>3 DEF vars, source, loader, history, Inv, TypeOK, Dated, ProbeOnly, LoadedIsCurrent,
     RefusedIsUnusable, AnswerIsHeld, FailureIsDated, Usable, Withdrawn
<1> QED
  BY <1>1, <1>2, <1>3, TickStep, ServeStep, LoadStep, RideStep, RefuseStep, SweepStep DEF Next

LEMMA InvHolds == Spec => []Inv
BY InvInit, InvStep, PTL DEF Spec

(* Every variable of the loaders keeps its type.                           *)
THEOREM TypeCorrect == Spec => []TypeOK
<1>1. Inv => TypeOK
  BY DEF Inv
<1> QED BY <1>1, InvHolds, PTL

-----------------------------------------------------------------------------
(* What is served.  A call that does not read serves what was loaded, or   *)
(* refused, within a window: if the source last changed a success window   *)
(* ago, then after it changed.                                             *)

LEMMA ServedIsCurrent ==
  ASSUME Inv, Serve, now - changedAt >= SuccessTTL
  PROVE  (Usable => value = secret) /\ (Withdrawn => value = None)
<1> USE TTLAssumption DEF Inv, TypeOK, Times, Within, Never
<1>1. CASE Fresh
  BY <1>1 DEF Fresh, LoadedIsCurrent
<1>2. CASE BackingOff
  BY <1>2 DEF BackingOff, RefusedIsUnusable, Withdrawn
<1> QED BY <1>1, <1>2 DEF Serve

LEMMA CurrentStep ==
  ASSUME Inv, [Next]_vars, CurrentServed, WithdrawnNotServed
  PROVE  CurrentServed' /\ WithdrawnNotServed'
<1> USE TTLAssumption, ValuesAssumption
        DEF CurrentServed, WithdrawnNotServed, Usable, Withdrawn, Answers, source, loader, history
<1>1. CASE Tick \/ UNCHANGED vars
  BY <1>1 DEF Tick, vars
<1>2. CASE Rewrite \/ Outage
  <2>1. ~(answer'.at - changedAt' >= SuccessTTL)
    BY <1>2 DEF Rewrite, Outage, Changes, Change, Inv, Dated, TypeOK, Times, Never
  <2> QED BY <2>1
<1>3. CASE Serve
  BY <1>3, ServedIsCurrent DEF Serve, Inv, TypeOK
<1>4. CASE Load
  BY <1>4 DEF Load, Reads
<1>5. CASE Ride
  BY <1>5 DEF Ride, Reads, Blip
<1>6. CASE Refuse
  BY <1>6 DEF Refuse, Reads
<1>7. ASSUME NEW cut \in BOOLEAN, Sweep(cut)
      PROVE  CurrentServed' /\ WithdrawnNotServed'
  <2>1. CASE cut
    <3>1. answer'.at - changedAt' = 0
      BY <1>7, <2>1 DEF Sweep, Change, Inv, TypeOK
    <3> QED BY <3>1
  <2>2. CASE ~cut
    BY <1>7, <2>2 DEF Sweep, Degraded, Inv, ProbeOnly
  <2> QED BY <2>1, <2>2
<1> QED BY <1>1, <1>2, <1>3, <1>4, <1>5, <1>6, <1>7 DEF Next

LEMMA CurrentInit == Init => CurrentServed /\ WithdrawnNotServed
BY DEF Init, CurrentServed, WithdrawnNotServed

LEMMA ServedHolds == Spec => [](CurrentServed /\ WithdrawnNotServed)
BY InvHolds, CurrentInit, CurrentStep, PTL DEF Spec

(* A rotated value reaches every caller within one success window, for     *)
(* every pair of windows: all it takes is that no refusal is remembered    *)
(* longer than a success (shared/grantcrypto, shared/cfoauth,              *)
(* shared/cfedge, relay.DCV, observe.Probe).                               *)
THEOREM CurrentHolds == Spec => []CurrentServed
BY ServedHolds, PTL

(* What was withdrawn is out of use as soon (shared/cfoauth,               *)
(* shared/cfedge, relay.DCV, observe.Probe).                               *)
THEOREM WithdrawnHolds == Spec => []WithdrawnNotServed
BY ServedHolds, PTL

-----------------------------------------------------------------------------
(* What a failed read takes away, and what it costs.                       *)

(* A value that was answered and is still the source's is answered again,  *)
(* whatever the re-reads do (the three Secrets Manager loaders).           *)
THEOREM BlipHolds == Spec => BlipKeepsServing
<1> DEFINE Kept == (which \notin {"dcv", "reach"} /\ secret \in Values
                     /\ answer.value = secret /\ secret' = secret) => answer'.value = secret
<1>1. ASSUME Inv, [Next]_vars PROVE Kept
  <2> SUFFICES ASSUME which \notin {"dcv", "reach"}, secret \in Values,
                      answer.value = secret, secret' = secret
               PROVE  answer'.value = secret
    OBVIOUS
  <2>1. value = secret /\ value # None
    BY <1>1, ValuesAssumption DEF Inv, AnswerIsHeld
  <2>2. which \in {"keyset", "oauth", "edge"}
    BY <1>1, KindsAssumption DEF Inv, TypeOK, AllKinds
  <2>3. CASE Refuse
    BY <2>1, <2>2, <2>3 DEF Refuse, Answers, Usable, Blip
  <2>4. CASE Serve \/ Load \/ Ride
    BY <2>1, <2>4 DEF Serve, Load, Ride, Answers
  <2>5. CASE Tick \/ Rewrite \/ Outage \/ UNCHANGED vars
    BY <2>5 DEF Tick, Rewrite, Outage, Changes, history, vars
  <2>6. CASE \E cut \in BOOLEAN : Sweep(cut)
    BY <2>6 DEF Sweep
  <2> QED BY <1>1, <2>3, <2>4, <2>5, <2>6 DEF Next
<1> QED BY <1>1, InvHolds, PTL DEF Spec, BlipKeepsServing

(* Between a read that failed and the end of its window there is no other, *)
(* whichever of the two dates it left behind (all but cfoauth).            *)
THEOREM SpacedHolds == Spec => FailuresSpaced
<1>1. ASSUME Inv, [Next]_vars PROVE which # "oauth" => Spaced
  <2> SUFFICES ASSUME which # "oauth", reads' # reads, Within(lastFail, FailureTTL) PROVE FALSE
    BY DEF Spaced
  <2>1. Fresh \/ BackingOff
    BY <1>1, TTLAssumption
    DEF Inv, FailureIsDated, TypeOK, Times, Never, Within, Fresh, BackingOff
  <2>2. ~Fresh /\ (~BackingOff \/ which = "reach")
    BY <1>1 DEF Next, Tick, Rewrite, Outage, Changes, Serve, Load, Ride, Refuse, Reads, Sweep,
       history, vars
  <2>3. ~BackingOff
    BY <1>1, <2>2 DEF Inv, ProbeOnly, BackingOff, Within
  <2> QED BY <2>1, <2>2, <2>3
<1> QED BY <1>1, InvHolds, PTL DEF Spec, FailuresSpaced
=============================================================================
