---------------------------- MODULE GrantProofs ----------------------------
(***************************************************************************)
(* Proofs about GrantLifecycle, for every set of calls and registrations   *)
(* and every bound.                                                        *)
(***************************************************************************)
EXTENDS GrantLifecycle, Integers, TLAPS

Flying(c) == pc[c] \in InFlight

-----------------------------------------------------------------------------
(* Types.                                                                  *)

LEMMA JobTypes ==
  ASSUME TypeOK, NEW c \in Calls, Flying(c)
  PROVE  /\ job[c] \in Job /\ Reg(c) \in Regs /\ Op(c) \in Ops
         /\ job[c].env \in Envelope \union {NoEnv}
         /\ job[c].env # NoEnv => job[c].env.token \in Token /\ job[c].env.aad \in Regs
BY DEF TypeOK, Flying, Job, Reg, Op, Envelope

LEMMA HandTypes ==
  ASSUME TypeOK, NEW c \in Calls, hand[c] # NoToken
  PROVE  hand[c] \in Token /\ hand[c].grant \in Grants
BY DEF TypeOK, Token

(* A step that moves a call without a change of what it holds.             *)
LEMMA MovesType ==
  ASSUME TypeOK, NEW c \in Calls, NEW l \in (InFlight \ {"refresh"}) \union {"done"},
         Flying(c), Goto(c, l), UNCHANGED job
  PROVE  /\ pc' \in [Calls -> InFlight \union {"idle", "done"}]
         /\ job' \in [Calls -> Job \union {NoJob}]
         /\ \A d \in Calls : pc'[d] \in InFlight => job'[d] \in Job
         /\ \A d \in Calls : pc'[d] = "refresh" => job'[d].env \in [token : Token, aad : {job'[d].reg}]
BY DEF TypeOK, Goto, Flying, InFlight

LEMMA SaysType ==
  ASSUME TypeOK, NEW c \in Calls, NEW r \in Results, NEW f \in Failures, NEW b \in BOOLEAN,
         Says(c, r, f, b)
  PROVE  answer' \in [Calls -> [result : Results, failure : Failures, revoked : BOOLEAN]]
BY DEF TypeOK, Says

(* Where a call goes whose credential could not be resolved.               *)
LEMMA UnresolvedType ==
  ASSUME TypeOK, NEW c \in Calls, NEW f \in Failures, Flying(c), Unresolved(c, f)
  PROVE  /\ answer' \in [Calls -> [result : Results, failure : Failures, revoked : BOOLEAN]]
         /\ Goto(c, "read") \/ Goto(c, "answer")
<1>1. CASE Op(c) = "orphans"
  BY <1>1, SaysType DEF Unresolved, Results
<1>2. CASE Op(c) = "release"
  BY <1>2, SaysType DEF Unresolved, Answers, Results, Failures
<1>3. CASE Op(c) \notin {"orphans", "release"}
  BY <1>3, SaysType DEF Unresolved, Answers, Results
<1> QED BY <1>1, <1>2, <1>3

LEMMA TypeInit == Init => TypeOK
<1> SUFFICES ASSUME Init PROVE TypeOK
  OBVIOUS
<1> USE BoundsAssumption DEF Init, InFlight
<1>1. answer \in [Calls -> [result : Results, failure : Failures, revoked : BOOLEAN]]
  BY DEF NoAnswer, Results, Failures
<1>2. /\ pc \in [Calls -> InFlight \union {"idle", "done"}] /\ job \in [Calls -> Job \union {NoJob}]
      /\ hand \in [Calls -> Token \union {NoToken}] /\ sealed \in [Calls -> Envelope \union {NoEnv}]
      /\ row \in [Regs -> Envelope \union {NoEnv}]
  OBVIOUS
<1>3. \A c \in Calls : pc[c] \notin InFlight /\ pc[c] # "refresh"
  OBVIOUS
<1>4. outdated \in BOOLEAN
  OBVIOUS
<1>5. faults \in 0..MaxFaults /\ outside \in 0..MaxOutside /\ minted \in 0..MaxGrants
  OBVIOUS
<1> QED BY <1>1, <1>2, <1>3, <1>4, <1>5 DEF TypeOK

(* What is left of a call that is over.                                    *)
LEMMA EndsFrame ==
  ASSUME TypeOK, NEW c \in Calls, Ends(c)
  PROVE  /\ pc'[c] = "done" /\ job'[c] = NoJob /\ hand'[c] = NoToken /\ sealed'[c] = NoEnv
         /\ \A d \in Calls \ {c} : /\ pc'[d] = pc[d] /\ job'[d] = job[d] /\ hand'[d] = hand[d]
                                   /\ sealed'[d] = sealed[d] /\ answer'[d] = answer[d]
BY DEF Ends, Goto, TypeOK

LEMMA EndsType ==
  ASSUME TypeOK, NEW c \in Calls, Ends(c)
  PROVE  /\ pc' \in [Calls -> InFlight \union {"idle", "done"}]
         /\ job' \in [Calls -> Job \union {NoJob}]
         /\ hand' \in [Calls -> Token \union {NoToken}]
         /\ sealed' \in [Calls -> Envelope \union {NoEnv}]
         /\ answer' \in [Calls -> [result : Results, failure : Failures, revoked : BOOLEAN]]
         /\ \A d \in Calls : pc'[d] \in InFlight => job'[d] \in Job
         /\ \A d \in Calls : pc'[d] = "refresh" => job'[d].env \in [token : Token, aad : {job'[d].reg}]
<1>1. NoAnswer \in [result : Results, failure : Failures, revoked : BOOLEAN]
  BY DEF NoAnswer, Results, Failures
<1>2. "done" \notin InFlight /\ "done" # "refresh"
  BY DEF InFlight
<1>3. /\ pc' \in [Calls -> InFlight \union {"idle", "done"}]
      /\ job' \in [Calls -> Job \union {NoJob}]
      /\ hand' \in [Calls -> Token \union {NoToken}]
      /\ sealed' \in [Calls -> Envelope \union {NoEnv}]
      /\ answer' \in [Calls -> [result : Results, failure : Failures, revoked : BOOLEAN]]
  BY <1>1 DEF Ends, Goto, TypeOK
<1>4. /\ \A d \in Calls : pc'[d] \in InFlight => job'[d] \in Job
      /\ \A d \in Calls : pc'[d] = "refresh" => job'[d].env \in [token : Token, aad : {job'[d].reg}]
  BY <1>2, EndsFrame DEF TypeOK
<1> QED BY <1>3, <1>4

LEMMA TypeCaller ==
  ASSUME TypeOK,
         \/ \E c \in Calls : Deliver(c) \/ Lost(c)
         \/ \E c \in Calls, op \in Ops, r \in Regs : Start(c, op, r)
         \/ \E r \in Regs : Approve(r)
         \/ \E r, s \in Regs : Misfile(r, s)
         \/ \E g \in Grants : CustomerRevokes(g)
         \/ ClientReplaced \/ ClientReloaded
  PROVE  TypeOK'
<1> USE BoundsAssumption DEF provider, calls, Fault, Outside
<1>1. ASSUME NEW c \in Calls, Deliver(c) PROVE TypeOK'
  <2>1. Reg(c) \in Regs
    BY <1>1, JobTypes DEF Deliver, Flying, InFlight
  <2>2. row' \in [Regs -> Envelope \union {NoEnv}]
    BY <1>1, <2>1 DEF Deliver, Stores, TypeOK
  <2>3. lapsed' \subseteq Grants
    BY <1>1 DEF Deliver, Befalls, TypeOK
  <2> QED BY <1>1, <2>2, <2>3, EndsType DEF Deliver, TypeOK
<1>2. ASSUME NEW c \in Calls, Lost(c) PROVE TypeOK'
  <2>1. lapsed' \subseteq Grants /\ faults' \in 0..MaxFaults
    BY <1>2 DEF Lost, Befalls, TypeOK
  <2> QED BY <1>2, <2>1, EndsType DEF Lost, TypeOK
<1>3. ASSUME NEW c \in Calls, NEW op \in Ops, NEW r \in Regs, Start(c, op, r) PROVE TypeOK'
  <2>1. [op |-> op, reg |-> r, env |-> IF op = "complete" THEN NoEnv ELSE row[r]] \in Job
    BY DEF TypeOK, Job
  <2> QED BY <1>3, <2>1 DEF Start, TypeOK, Goto, InFlight
<1>4. ASSUME NEW r \in Regs, Approve(r) PROVE TypeOK'
  BY <1>4 DEF Approve, TypeOK
<1>5. ASSUME NEW r \in Regs, NEW s \in Regs, Misfile(r, s) PROVE TypeOK'
  BY <1>5 DEF Misfile, TypeOK
<1>6. ASSUME NEW g \in Grants, CustomerRevokes(g) PROVE TypeOK'
  BY <1>6 DEF CustomerRevokes, TypeOK
<1>7. CASE ClientReplaced \/ ClientReloaded
  <2>1. outdated' \in BOOLEAN
    BY <1>7 DEF ClientReplaced, ClientReloaded
  <2>2. outside' \in 0..MaxOutside
    BY <1>7 DEF ClientReplaced, ClientReloaded, TypeOK
  <2>3. UNCHANGED <<provider, row, calls, faults, lapsed>>
    BY <1>7 DEF ClientReplaced, ClientReloaded
  <2> QED BY <2>1, <2>2, <2>3 DEF TypeOK
<1> QED BY <1>1, <1>2, <1>3, <1>4, <1>5, <1>6, <1>7

LEMMA TypeProgress ==
  ASSUME TypeOK, NEW c \in Calls, Progress(c)
  PROVE  TypeOK'
<1> USE BoundsAssumption DEF provider, calls, Fault, Refused
<1>0. Flying(c)
  BY DEF Progress, Flying, InFlight, Refuse, Proceed, Exchange, LoseExchange, SpentCode, Open,
     NoGrant, Unreadable, Refresh, InvalidGrant, LoseRefresh, Seal, SealFails, Published,
     PublishFails, Report, ReportFails, Revoke, RevokeFails
<1>1. ASSUME NEW r \in Results, NEW f \in Failures, NEW b \in BOOLEAN, Answers(c, r, f, b)
      PROVE  /\ Goto(c, "answer") /\ "answer" \in InFlight \ {"refresh"}
             /\ answer' \in [Calls -> [result : Results, failure : Failures, revoked : BOOLEAN]]
  BY <1>1, SaysType DEF Answers, InFlight
<1>2. CASE Refuse(c)
  BY <1>0, <1>1, <1>2, MovesType DEF Refuse, TypeOK, Results, Failures
<1>3. CASE Proceed(c)
  BY <1>0, <1>3, MovesType DEF Proceed, TypeOK, InFlight
<1>4. ASSUME NEW r \in Regs, NEW first \in {0, 1}, Issues(r, first)
      PROVE  /\ codes' \subseteq Regs /\ minted' \in 0..MaxGrants /\ minted + 1 \in Grants
             /\ owner' \in [Grants -> Regs \union {NoReg}] /\ current' \in [Grants -> Nat]
  BY <1>4 DEF Issues, TypeOK, Grants
<1>5. CASE Exchange(c)
  <2>1. PICK first \in {0, 1} :
          /\ Issues(Reg(c), first)
          /\ hand' = [hand EXCEPT ![c] = IF first = 0 THEN NoToken
                                         ELSE [grant |-> minted + 1, n |-> 1]]
    BY <1>5 DEF Exchange
  <2>2. Reg(c) \in Regs
    BY <1>0, JobTypes
  <2>3. [grant |-> minted + 1, n |-> 1] \in Token
    BY <1>4, <2>1, <2>2 DEF Token
  <2>4. hand' \in [Calls -> Token \union {NoToken}]
    BY <2>1, <2>3 DEF TypeOK
  <2>5. Goto(c, "seal") /\ "seal" \in InFlight \ {"refresh"}
    BY <1>5 DEF Exchange, InFlight
  <2>6. /\ codes' \subseteq Regs /\ minted' \in 0..MaxGrants
        /\ owner' \in [Grants -> Regs \union {NoReg}] /\ current' \in [Grants -> Nat]
    BY <1>4, <2>1, <2>2
  <2> QED BY <1>0, <1>5, <2>4, <2>5, <2>6, MovesType DEF Exchange, TypeOK
<1>6. CASE LoseExchange(c)
  <2>1. Reg(c) \in Regs
    BY <1>0, JobTypes
  <2>2. /\ codes' \subseteq Regs /\ minted' \in 0..MaxGrants
        /\ owner' \in [Grants -> Regs \union {NoReg}] /\ current' \in [Grants -> Nat]
    BY <1>4, <1>6, <2>1 DEF LoseExchange, TypeOK
  <2>3. lapsed' \subseteq Grants
    BY <1>6 DEF LoseExchange, Befalls, TypeOK
  <2>4. Goto(c, "answer") /\ "answer" \in InFlight \ {"refresh"}
        /\ answer' \in [Calls -> [result : Results, failure : Failures, revoked : BOOLEAN]]
    BY <1>1, <1>6 DEF LoseExchange, Results, Failures
  <2> QED BY <1>0, <1>6, <2>2, <2>3, <2>4, MovesType DEF LoseExchange, TypeOK
<1>7. CASE SpentCode(c)
  BY <1>0, <1>1, <1>7, MovesType DEF SpentCode, TypeOK, Results, Failures
<1>8. CASE Open(c)
  <2>1. job[c].env \in Envelope /\ job[c].env.token \in Token /\ job[c].env.aad = job[c].reg
    BY <1>0, <1>8, JobTypes DEF Open, Opens, Reg
  <2>2. CASE Op(c) = "release"
    <3>1. answer' \in [Calls -> [result : Results, failure : Failures, revoked : BOOLEAN]]
      BY <1>8, <2>2, SaysType DEF Open, Results, Failures
    <3>2. Goto(c, "revoke") /\ "revoke" \in InFlight \ {"refresh"}
      BY <1>8, <2>2 DEF Open, InFlight
    <3> QED BY <1>0, <1>8, <2>1, <2>2, <3>1, <3>2, MovesType DEF Open, TypeOK
  <2>3. CASE Op(c) # "release"
    <3>1. job[c].env \in [token : Token, aad : {job[c].reg}]
      BY <2>1 DEF Envelope
    <3>2. /\ pc' = [pc EXCEPT ![c] = "refresh"] /\ UNCHANGED <<job, hand, answer>>
          /\ job[c] \in Job
      BY <1>0, <1>8, <2>3, JobTypes DEF Open, Goto
    <3> QED BY <1>8, <3>1, <3>2 DEF Open, TypeOK, InFlight
  <2> QED BY <2>2, <2>3
<1>9. CASE NoGrant(c)
  <2>1. /\ Goto(c, "read") \/ Goto(c, "answer")
        /\ answer' \in [Calls -> [result : Results, failure : Failures, revoked : BOOLEAN]]
    <3>1. CASE Op(c) = "orphans"
      BY <1>9, <3>1 DEF NoGrant, TypeOK
    <3>2. CASE Op(c) = "release"
      BY <1>1, <1>9, <3>2 DEF NoGrant, Results, Failures
    <3>3. CASE Op(c) \notin {"orphans", "release"}
      BY <1>1, <1>9, <3>3 DEF NoGrant, Results, Failures
    <3> QED BY <3>1, <3>2, <3>3
  <2> QED BY <1>0, <1>9, <2>1, MovesType DEF NoGrant, TypeOK, InFlight
<1>10. CASE Unreadable(c) \/ InvalidGrant(c)
  <2>1. PICK f \in Failures : Unresolved(c, f)
    BY <1>10 DEF Unreadable, InvalidGrant, Failures
  <2>2. lapsed' \subseteq Grants /\ faults' \in 0..MaxFaults
    BY <1>10 DEF Unreadable, InvalidGrant, Befalls, TypeOK
  <2>3. UNCHANGED <<provider, row, job, hand, sealed, outdated, outside>>
    BY <1>10 DEF Unreadable, InvalidGrant
  <2> QED
    BY SMTT(40), <1>0, <2>1, <2>2, <2>3, UnresolvedType, MovesType DEF TypeOK, InFlight
<1>11. CASE Refresh(c) \/ LoseRefresh(c)
  <2> DEFINE t == job[c].env.token
  <2>1. t \in Token /\ t.grant \in Grants /\ t.n \in Nat
    BY <1>11 DEF Refresh, LoseRefresh, TypeOK, Token
  <2>2. current' \in [Grants -> Nat]
    BY <1>11, <2>1 DEF Refresh, LoseRefresh, Rotates, TypeOK
  <2>3. CASE Refresh(c)
    <3>1. [grant |-> t.grant, n |-> t.n + 1] \in Token
      BY <2>1 DEF Token
    <3>2. hand' \in [Calls -> Token \union {NoToken}]
      BY <2>1, <2>3, <3>1 DEF Refresh, TypeOK
    <3>3. Goto(c, "seal") /\ "seal" \in InFlight \ {"refresh"}
      BY <2>3 DEF Refresh, InFlight
    <3> QED BY <1>0, <2>2, <2>3, <3>2, <3>3, MovesType DEF Refresh, TypeOK
  <2>4. CASE LoseRefresh(c)
    <3>1. Unresolved(c, "provider_failure") /\ "provider_failure" \in Failures
      BY <2>4 DEF LoseRefresh, Failures
    <3>2. lapsed' \subseteq Grants
      BY <2>4 DEF LoseRefresh, Befalls, TypeOK
    <3> QED
      BY <1>0, <2>2, <2>4, <3>1, <3>2, UnresolvedType, MovesType DEF LoseRefresh, TypeOK, InFlight
  <2> QED BY <1>11, <2>3, <2>4
<1>12. CASE Seal(c)
  <2>1. [token |-> hand[c], aad |-> Reg(c)] \in Envelope
    BY <1>0, <1>12, JobTypes, HandTypes DEF Seal, Envelope
  <2> QED BY <1>0, <1>12, <2>1, MovesType DEF Seal, TypeOK, InFlight
<1>13. CASE SealFails(c)
  <2>1. CASE Op(c) = "orphans"
    <3>1. answer' \in [Calls -> [result : Results, failure : Failures, revoked : BOOLEAN]]
      BY <1>13, <2>1, SaysType DEF SealFails, Results, Failures
    <3> QED BY <1>0, <1>13, <2>1, <3>1, MovesType DEF SealFails, TypeOK, InFlight
  <2>2. CASE Op(c) # "orphans"
    BY <1>0, <1>13, <2>2, MovesType DEF SealFails, TypeOK, InFlight
  <2> QED BY <2>1, <2>2
<1>14. CASE Published(c) \/ PublishFails(c)
  <2>1. /\ Goto(c, "answer") \/ Goto(c, "revoke")
        /\ answer' \in [Calls -> [result : Results, failure : Failures, revoked : BOOLEAN]]
    <3>1. CASE Published(c)
      BY <1>1, <3>1, SaysType DEF Published, Answers, Results, Failures
    <3>2. CASE PublishFails(c)
      <4>1. PICK b \in BOOLEAN : Says(c, "deferred", "provider_failure", b)
        BY <3>2 DEF PublishFails, Held
      <4> QED BY <3>2, <4>1, SaysType DEF PublishFails, Results, Failures
    <3> QED BY <1>14, <3>1, <3>2
  <2> QED BY <1>0, <1>14, <2>1, MovesType DEF Published, PublishFails, TypeOK, InFlight
<1>15. CASE Report(c)
  <2>1. answer[c].failure \in Failures /\ answer[c].revoked \in BOOLEAN /\ "report" \in Results
    BY DEF TypeOK, Results
  <2> QED BY <1>0, <1>1, <1>15, <2>1, MovesType DEF Report, TypeOK
<1>16. CASE ReportFails(c)
  <2>1. /\ Goto(c, "answer") /\ "answer" \in InFlight \ {"refresh"}
        /\ answer' \in [Calls -> [result : Results, failure : Failures, revoked : BOOLEAN]]
    BY <1>1, <1>16 DEF ReportFails, Results, Failures
  <2>2. lapsed' \subseteq Grants /\ sealed' \in [Calls -> Envelope \union {NoEnv}]
    BY <1>16 DEF ReportFails, TypeOK, Befalls
  <2>3. faults' \in 0..MaxFaults
    BY <1>16 DEF ReportFails, TypeOK
  <2> QED BY <1>0, <1>16, <2>1, <2>2, <2>3, MovesType DEF ReportFails, TypeOK
<1>17. CASE Revoke(c) \/ RevokeFails(c)
  <2>1. Goto(c, AfterRevoke(c)) /\ AfterRevoke(c) \in InFlight \ {"refresh"} /\ UNCHANGED job
    BY <1>17 DEF Revoke, RevokeFails, AfterRevoke, InFlight
  <2>2. /\ pc' \in [Calls -> InFlight \union {"idle", "done"}]
        /\ job' \in [Calls -> Job \union {NoJob}]
        /\ \A d \in Calls : pc'[d] \in InFlight => job'[d] \in Job
        /\ \A d \in Calls : pc'[d] = "refresh" =>
              job'[d].env \in [token : Token, aad : {job'[d].reg}]
    BY <1>0, <2>1, MovesType
  <2>3. CASE Revoke(c)
    <3>1. current' \in [Grants -> Nat]
      BY <2>3 DEF Revoke, TypeOK
    <3> QED BY <2>2, <2>3, <3>1 DEF Revoke, TypeOK
  <2>4. CASE RevokeFails(c)
    <3>1. lapsed' \subseteq Grants /\ faults' \in 0..MaxFaults
      BY <2>4 DEF RevokeFails, Befalls, TypeOK
    <3> QED BY <2>2, <2>4, <3>1 DEF RevokeFails, TypeOK
  <2> QED BY <1>17, <2>3, <2>4
<1> QED
  BY <1>2, <1>3, <1>5, <1>6, <1>7, <1>8, <1>9, <1>10, <1>11, <1>12, <1>13, <1>14, <1>15, <1>16,
     <1>17 DEF Progress

LEMMA TypeStep == TypeOK /\ [Next]_vars => TypeOK'
<1>1. TypeOK /\ UNCHANGED vars => TypeOK'
  BY DEF TypeOK, vars, provider, calls
<1> QED BY <1>1, TypeCaller, TypeProgress DEF Next

(* Every variable of the credential half keeps its type; in particular a   *)
(* call that goes on to refresh has opened an envelope sealed for its own  *)
(* registration.                                                           *)
THEOREM TypeCorrect == Spec => []TypeOK
BY TypeInit, TypeStep, PTL DEF Spec

-----------------------------------------------------------------------------
(* Whose grant is whose.                                                   *)

OwnEnv(e) == owner[e.token.grant] = e.aad

(* Whatever is in a call's hands, in its answer, in its request or in a    *)
(* row belongs to the registration it names; nothing is known of a grant   *)
(* before it is issued, nor held by a call before it begins.               *)
Owned ==
  /\ \A g \in Grants : g > minted => owner[g] = NoReg /\ current[g] = 0
  /\ \A c \in Calls : hand[c] # NoToken => Reg(c) \in Regs /\ owner[hand[c].grant] = Reg(c)
  /\ \A c \in Calls : sealed[c] # NoEnv => OwnEnv(sealed[c]) /\ sealed[c].aad = Reg(c)
  /\ \A c \in Calls : job[c].env # NoEnv => OwnEnv(job[c].env)
  /\ \A r \in Regs : row[r] # NoEnv => OwnEnv(row[r])
  /\ \A c \in Calls : pc[c] = "idle" => hand[c] = NoToken /\ sealed[c] = NoEnv

OwnersStand == \A g \in Grants : owner[g] \in Regs => owner'[g] = owner[g]

LEMMA OwnedInit == Init => Owned
BY DEF Init, Owned, NoJob

(* What is held of a grant names a registration.                           *)
LEMMA HeldGrants ==
  ASSUME TypeOK, Owned
  PROVE  /\ \A r \in Regs : row[r] # NoEnv =>
              row[r].token.grant \in Grants /\ owner[row[r].token.grant] \in Regs
         /\ \A c \in Calls : job[c].env # NoEnv =>
              job[c].env.token.grant \in Grants /\ owner[job[c].env.token.grant] \in Regs
         /\ \A c \in Calls : sealed[c] # NoEnv =>
              sealed[c].token.grant \in Grants /\ owner[sealed[c].token.grant] \in Regs
BY DEF TypeOK, Owned, OwnEnv, Envelope, Token, Job, NoJob

LEMMA HandOwner ==
  ASSUME TypeOK, Owned, NEW c \in Calls, hand[c] # NoToken
  PROVE  hand[c].grant \in Grants /\ owner[hand[c].grant] = Reg(c) /\ Reg(c) \in Regs
BY HandTypes DEF Owned

LEMMA OwnedCaller ==
  ASSUME TypeOK, Owned,
         \/ \E c \in Calls : Deliver(c) \/ Lost(c)
         \/ \E c \in Calls, op \in Ops, r \in Regs : Start(c, op, r)
         \/ \E r \in Regs : Approve(r)
         \/ \E r, s \in Regs : Misfile(r, s)
         \/ \E g \in Grants : CustomerRevokes(g)
         \/ ClientReplaced \/ ClientReloaded
  PROVE  Owned'
<1> USE DEF Owned, OwnEnv, Reg, provider, calls
<1>1. ASSUME NEW c \in Calls, Deliver(c) \/ Lost(c) PROVE Owned'
  <2>1. /\ pc'[c] = "done" /\ job'[c] = NoJob /\ hand'[c] = NoToken /\ sealed'[c] = NoEnv
        /\ \A d \in Calls \ {c} : /\ pc'[d] = pc[d] /\ job'[d] = job[d] /\ hand'[d] = hand[d]
                                  /\ sealed'[d] = sealed[d]
    BY <1>1, EndsFrame DEF Deliver, Lost
  <2>2. \A r \in Regs : row'[r] \in {row[r], NoEnv, sealed[c]}
    BY <1>1 DEF Deliver, Stores, Lost, TypeOK
  <2>3. UNCHANGED <<minted, owner, current>> /\ NoJob.env = NoEnv
    BY <1>1 DEF Deliver, Lost, NoJob
  <2> QED BY <2>1, <2>2, <2>3
<1>3. ASSUME NEW c \in Calls, NEW op \in Ops, NEW r \in Regs, Start(c, op, r) PROVE Owned'
  <2>1. job'[c].env \in {row[r], NoEnv} /\ hand[c] = NoToken /\ sealed[c] = NoEnv /\ pc'[c] = "plan"
    BY <1>3 DEF Start, Goto, TypeOK
  <2>2. \A d \in Calls \ {c} : job'[d] = job[d] /\ pc'[d] = pc[d]
    BY <1>3 DEF Start, Goto, TypeOK
  <2>3. UNCHANGED <<minted, owner, current, row, hand, sealed>>
    BY <1>3 DEF Start
  <2> QED BY <2>1, <2>2, <2>3
<1>4. ASSUME NEW r \in Regs, Approve(r) PROVE Owned'
  BY <1>4 DEF Approve
<1>5. ASSUME NEW r \in Regs, NEW s \in Regs, Misfile(r, s) PROVE Owned'
  <2>1. \A q \in Regs : row'[q] \in {row[q], row[r]}
    BY <1>5 DEF Misfile, TypeOK
  <2> QED BY <1>5, <2>1 DEF Misfile
<1>6. ASSUME NEW g \in Grants, CustomerRevokes(g) PROVE Owned'
  BY <1>6 DEF CustomerRevokes, TypeOK
<1>7. CASE ClientReplaced \/ ClientReloaded
  BY <1>7 DEF ClientReplaced, ClientReloaded
<1> QED BY <1>1, <1>3, <1>4, <1>5, <1>6, <1>7

(* Issuing a grant takes nothing from those issued before.                 *)
LEMMA IssuesOwned ==
  ASSUME TypeOK, Owned, NEW r \in Regs, NEW first \in Nat, Issues(r, first)
  PROVE  /\ minted + 1 \in Grants /\ minted' = minted + 1
         /\ owner'[minted + 1] = r /\ current'[minted + 1] = first
         /\ owner[minted + 1] = NoReg /\ current[minted + 1] = 0
         /\ \A g \in Grants \ {minted + 1} : owner'[g] = owner[g] /\ current'[g] = current[g]
         /\ \A g \in Grants : g > minted' => owner'[g] = NoReg /\ current'[g] = 0
         /\ OwnersStand
BY BoundsAssumption, RegsAssumption DEF Issues, TypeOK, Owned, Grants, OwnersStand

(* A call that moves on: what it now holds must be its own, the rest stays.*)
LEMMA OwnedCall ==
  ASSUME TypeOK, Owned, OwnersStand, NEW c \in Calls, Flying(c),
         \A g \in Grants : g > minted' => owner'[g] = NoReg /\ current'[g] = 0,
         UNCHANGED <<job, row>>, pc'[c] # "idle",
         \A d \in Calls \ {c} : pc'[d] = pc[d] /\ hand'[d] = hand[d] /\ sealed'[d] = sealed[d],
         hand'[c] \in {hand[c], NoToken} \/ owner'[hand'[c].grant] = Reg(c),
         \/ sealed'[c] \in {sealed[c], NoEnv}
         \/ owner'[sealed'[c].token.grant] = Reg(c) /\ sealed'[c].aad = Reg(c)
  PROVE  Owned'
<1> USE HeldGrants, HandOwner DEF OwnersStand
<1>1. Reg(c) \in Regs
  BY JobTypes
<1>2. \A d \in Calls : hand'[d] # NoToken => Reg(d)' \in Regs /\ owner'[hand'[d].grant] = Reg(d)'
  BY <1>1 DEF Reg
<1>3. \A d \in Calls : sealed'[d] # NoEnv => OwnEnv(sealed[d])' /\ sealed'[d].aad = Reg(d)'
  BY <1>1 DEF Owned, OwnEnv, Reg
<1>4. \A d \in Calls : job'[d].env # NoEnv => OwnEnv(job[d].env)'
  BY DEF Owned, OwnEnv
<1>5. \A r \in Regs : row'[r] # NoEnv => OwnEnv(row[r])'
  BY DEF Owned, OwnEnv
<1>6. \A d \in Calls : pc'[d] = "idle" => hand'[d] = NoToken /\ sealed'[d] = NoEnv
  BY DEF Owned
<1> QED BY <1>2, <1>3, <1>4, <1>5, <1>6 DEF Owned

(* What a step of one call leaves alone.                                   *)
LEMMA ProgressFrame ==
  ASSUME TypeOK, NEW c \in Calls, Progress(c)
  PROVE  /\ Flying(c) /\ UNCHANGED <<job, row, outdated, outside>>
         /\ pc'[c] \in InFlight /\ \A d \in Calls \ {c} : pc'[d] = pc[d]
         /\ \A d \in Calls \ {c} : hand'[d] = hand[d] /\ sealed'[d] = sealed[d]
         /\ \A d \in Calls \ {c} : answer'[d] = answer[d]
         /\ lapsed \subseteq lapsed'
<1> USE DEF TypeOK, InFlight, Goto, Answers, Says, Befalls, Unresolved, AfterRevoke, provider, calls,
            Flying
<1>1. CASE Refuse(c) \/ Proceed(c) \/ SpentCode(c)
  BY <1>1 DEF Refuse, Proceed, SpentCode
<1>2. CASE Exchange(c) \/ LoseExchange(c)
  BY <1>2 DEF Exchange, LoseExchange
<1>3. CASE Open(c) \/ NoGrant(c)
  BY <1>3 DEF Open, NoGrant
<1>4. CASE Unreadable(c) \/ InvalidGrant(c)
  BY <1>4 DEF Unreadable, InvalidGrant
<1>5. CASE Refresh(c) \/ LoseRefresh(c)
  BY <1>5 DEF Refresh, LoseRefresh
<1>6. CASE Seal(c) \/ SealFails(c)
  BY <1>6 DEF Seal, SealFails
<1>7. CASE Published(c) \/ PublishFails(c)
  BY <1>7 DEF Published, PublishFails
<1>8. CASE Report(c) \/ ReportFails(c)
  BY <1>8 DEF Report, ReportFails
<1>9. CASE Revoke(c) \/ RevokeFails(c)
  BY <1>9 DEF Revoke, RevokeFails
<1> QED BY <1>1, <1>2, <1>3, <1>4, <1>5, <1>6, <1>7, <1>8, <1>9 DEF Progress

LEMMA OwnedProgress ==
  ASSUME TypeOK, Owned, NEW c \in Calls, Progress(c)
  PROVE  Owned'
<1> DEFINE NewHand   == hand'[c] \in {hand[c], NoToken} \/ owner'[hand'[c].grant] = Reg(c)
           NewSealed == \/ sealed'[c] \in {sealed[c], NoEnv}
                        \/ owner'[sealed'[c].token.grant] = Reg(c) /\ sealed'[c].aad = Reg(c)
           Unissued  == \A g \in Grants : g > minted' => owner'[g] = NoReg /\ current'[g] = 0
<1> USE DEF provider
<1>1. Reg(c) \in Regs /\ Flying(c)
  BY ProgressFrame, JobTypes
<1>2. CASE Exchange(c)
  <2>1. PICK first \in {0, 1} :
          /\ Issues(Reg(c), first)
          /\ hand' = [hand EXCEPT ![c] = IF first = 0 THEN NoToken
                                         ELSE [grant |-> minted + 1, n |-> 1]]
    BY <1>2 DEF Exchange
  <2>2. OwnersStand /\ Unissued /\ owner'[minted + 1] = Reg(c)
    BY <1>1, <2>1, IssuesOwned
  <2>3. NewHand
    BY <2>1, <2>2 DEF TypeOK
  <2>4. NewSealed
    BY <1>2 DEF Exchange
  <2> QED BY <1>1, <2>2, <2>3, <2>4, ProgressFrame, OwnedCall DEF InFlight
<1>3. CASE LoseExchange(c)
  <2>1. OwnersStand /\ Unissued
    BY <1>1, <1>3, IssuesOwned DEF LoseExchange, OwnersStand, Owned
  <2> QED BY <1>1, <1>3, <2>1, ProgressFrame, OwnedCall DEF LoseExchange, InFlight
<1>4. CASE UNCHANGED <<minted, owner>> /\ NewHand /\ NewSealed /\ Unissued
  BY <1>1, <1>4, ProgressFrame, OwnedCall DEF InFlight, OwnersStand
<1>5. CASE Open(c)
  <2>1. job[c].env # NoEnv => OwnEnv(job[c].env)
    BY DEF Owned
  <2>2. NewHand
    BY <1>5, <2>1 DEF Open, Opens, OwnEnv, TypeOK
  <2> QED BY <1>4, <1>5, <2>2 DEF Open, Owned
<1>6. CASE Refresh(c) \/ LoseRefresh(c)
  <2> DEFINE t == job[c].env.token
  <2>1. job[c].env.aad = Reg(c) /\ t \in Token /\ job[c].env # NoEnv
    BY <1>6, RegsAssumption, <1>1 DEF Refresh, LoseRefresh, TypeOK, Reg, NoEnv
  <2>2. owner[t.grant] = Reg(c) /\ t.grant \in Grants
    BY <2>1 DEF Owned, OwnEnv, Token
  <2>3. t.grant <= minted
    <3>1. minted \in Int /\ t.grant \in Int
      BY <2>2 DEF TypeOK, Grants
    <3>2. ~(t.grant > minted)
      BY <1>1, <2>2, RegsAssumption DEF Owned
    <3> QED BY <3>1, <3>2
  <2>4. Unissued
    <3>1. \A g \in Grants \ {t.grant} : current'[g] = current[g]
      BY <1>6 DEF Refresh, LoseRefresh, Rotates, TypeOK
    <3>2. minted' = minted /\ owner' = owner /\ minted \in Int
      BY <1>6 DEF Refresh, LoseRefresh, TypeOK
    <3>3. \A g \in Grants : g > minted' => g # t.grant
      BY <2>3, <3>2 DEF Grants
    <3> QED BY <3>1, <3>2, <3>3 DEF Owned
  <2>5. NewHand
    BY <1>6, <2>2 DEF Refresh, LoseRefresh, TypeOK
  <2> QED BY <1>4, <1>6, <2>4, <2>5 DEF Refresh, LoseRefresh
<1>7. CASE Seal(c)
  <2>1. sealed'[c].token = hand[c] /\ sealed'[c].aad = Reg(c)
    BY <1>7 DEF Seal, TypeOK
  <2>2. NewSealed
    BY <1>7, <2>1, HandOwner DEF Seal
  <2> QED BY <1>4, <1>7, <2>2 DEF Seal, Owned
<1>8. CASE Revoke(c)
  <2>1. Unissued
    BY <1>8 DEF Revoke, Owned, TypeOK
  <2> QED BY <1>4, <1>8, <2>1 DEF Revoke, TypeOK
<1>9. CASE RevokeFails(c) \/ ReportFails(c)
  BY <1>4, <1>9 DEF RevokeFails, ReportFails, Owned, TypeOK
<1>10. CASE \/ Refuse(c) \/ Proceed(c) \/ SpentCode(c) \/ NoGrant(c) \/ Unreadable(c) \/ InvalidGrant(c)
            \/ SealFails(c) \/ Published(c) \/ PublishFails(c) \/ Report(c)
  BY <1>4, <1>10 DEF Refuse, Proceed, SpentCode, NoGrant, Unreadable, InvalidGrant, SealFails,
     Published, PublishFails, Report, Owned
<1> QED
  BY <1>2, <1>3, <1>5, <1>6, <1>7, <1>8, <1>9, <1>10 DEF Progress

LEMMA OwnedStep == TypeOK /\ Owned /\ [Next]_vars => Owned'
<1>1. TypeOK /\ Owned /\ UNCHANGED vars => Owned'
  BY DEF Owned, OwnEnv, Reg, vars, provider, calls
<1> QED BY <1>1, OwnedCaller, OwnedProgress DEF Next

LEMMA OwnedHolds == Spec => []Owned
BY OwnedInit, OwnedStep, TypeCorrect, PTL DEF Spec

(* A call for one registration never has in its hands a grant another one  *)
(* was authorized for, whatever rows were misfiled and however calls       *)
(* overlap (GrantAAD, resolveGrant).                                       *)
THEOREM OwnGrantOnlyHolds == Spec => []OwnGrantOnly
<1>1. Owned => OwnGrantOnly
  BY DEF Owned, OwnGrantOnly
<1> QED BY <1>1, OwnedHolds, PTL

-----------------------------------------------------------------------------
(* Where a live grant is, while the caller makes one call at a time for a  *)
(* registration.                                                           *)

Tok(g) == [grant |-> g, n |-> current[g]]
Cur(g) == [token |-> Tok(g), aad |-> owner[g]]

Alone == \A c, d \in Calls : Flying(c) /\ Flying(d) /\ Reg(c) = Reg(d) => c = d

(* Before it has resolved its credential a call holds nothing, and what it *)
(* was sent is still what the caller stores.                               *)
Resolving == {"plan", "open", "refresh"}

Requested == \A c \in Calls :
  /\ pc[c] \in Resolving \union {"exchange"} => hand[c] = NoToken
  /\ pc[c] \in Resolving \union {"exchange", "seal"} => sealed[c] = NoEnv
  /\ pc[c] \in Resolving /\ job[c].env # NoEnv => row[Reg(c)] = job[c].env
  /\ Op(c) = "complete" => job[c].env = NoEnv
  /\ pc[c] \in {"open", "refresh", "read"} => Op(c) # "complete"
  /\ pc[c] = "refresh" => Op(c) # "release"

(* A Complete that has exchanged its code, and may have the caller store   *)
(* or discard something, has a later grant than any the caller stores.     *)
Exchanged(c) ==
  /\ Op(c) = "complete"
  /\ \/ pc[c] \in {"seal", "publish", "revoke"}
     \/ pc[c] = "answer" /\ (sealed[c] # NoEnv \/ Discards(c))

Newer(c) == \A s \in Regs : row[s] # NoEnv /\ row[s].aad = Reg(c) =>
  \E h \in Grants : h > row[s].token.grant /\ owner[h] = Reg(c)

Ahead == \A c \in Calls : Exchanged(c) => Newer(c)

(* How a call in flight accounts for a live grant of its registration: the *)
(* caller's row has it and will be left alone, or the call has it in hand, *)
(* and its answer, if it has one, carries it; or else the call is a        *)
(* Complete, which was sent nothing, and the row has it.                   *)
Stored(c, g) == row[Reg(c)] = Cur(g)

Holds(c, g) ==
  \/ pc[c] \in Resolving /\ Stored(c, g) /\ job[c].env = Cur(g)
  \/ pc[c] \in {"seal", "publish", "revoke"} /\ hand[c] = Tok(g) /\ sealed[c] \in {NoEnv, Cur(g)}
  \/ pc[c] \in {"read", "answer"} /\ hand[c] = Tok(g) /\ sealed[c] = Cur(g)
  \/ pc[c] \in {"read", "answer"} /\ Stored(c, g) /\ sealed[c] = NoEnv /\ ~Discards(c)

Beside(c, g) == Op(c) = "complete" /\ Stored(c, g)

Where(c, g) == Holds(c, g) \/ Beside(c, g)

Idle(r) == \A c \in Calls : Flying(c) => Reg(c) # r

Sound(g) == current[g] # 0 /\ g \notin lapsed

Accounted(g) ==
  /\ \A c \in Calls : Flying(c) /\ Reg(c) = owner[g] => Where(c, g)
  /\ Idle(owner[g]) => row[owner[g]] = Cur(g)

OwnedAlive == \A g \in Grants : current[g] # 0 => owner[g] \in Regs

InCustody == /\ Alone /\ Requested /\ Ahead /\ OwnedAlive
             /\ \A g \in Grants : Sound(g) => Accounted(g)

LEMMA CustodyInit == Init => InCustody
BY DEF Init, InCustody, Alone, Requested, Ahead, Exchanged, OwnedAlive, Flying, Sound, Resolving,
       InFlight, Op, NoJob

LEMMA AloneStep ==
  ASSUME TypeOK, OneAtATime, Alone, [Next]_vars
  PROVE  Alone'
<1> USE DEF Alone, Flying, Reg
<1>1. ASSUME NEW c \in Calls, Progress(c) PROVE Alone'
  BY <1>1, ProgressFrame
<1>2. ASSUME NEW c \in Calls, Deliver(c) \/ Lost(c) PROVE Alone'
  <2>1. /\ pc'[c] \notin InFlight
        /\ \A d \in Calls \ {c} : pc'[d] = pc[d] /\ job'[d] = job[d]
    BY <1>2, EndsFrame DEF Deliver, Lost, InFlight
  <2> QED BY <2>1
<1>3. ASSUME NEW c \in Calls, NEW op \in Ops, NEW r \in Regs, Start(c, op, r) PROVE Alone'
  <2>1. job'[c].reg = r /\ \A d \in Calls \ {c} : job'[d] = job[d] /\ pc'[d] = pc[d]
    BY <1>3 DEF Start, Goto, TypeOK
  <2>2. \A d \in Calls : Flying(d) => Reg(d) # r
    BY <1>3 DEF Start, Free
  <2> QED BY <2>1, <2>2
<1>4. CASE UNCHANGED <<pc, job>>
  BY <1>4
<1> QED
  BY <1>1, <1>2, <1>3, <1>4
  DEF Next, Approve, Misfile, CustomerRevokes, ClientReplaced, ClientReloaded, vars, calls

LEMMA RequestedStep ==
  ASSUME TypeOK, Alone, Requested, [Next]_vars, Owned
  PROVE  Requested'
<1> USE DEF Requested, Reg, Op, Resolving, provider, calls
<1>1. ASSUME NEW c \in Calls, Progress(c) PROVE Requested'
  <2>1. \A d \in Calls \ {c} :
          pc'[d] = pc[d] /\ hand'[d] = hand[d] /\ sealed'[d] = sealed[d]
    BY <1>1, ProgressFrame
  <2>2. /\ pc'[c] \in Resolving \union {"exchange"} => hand'[c] = NoToken /\ pc[c] \in Resolving
        /\ pc'[c] \in Resolving \union {"exchange", "seal"} => sealed'[c] = NoEnv
        /\ pc'[c] \in {"open", "refresh", "read"} => Op(c) # "complete"
        /\ pc'[c] = "refresh" => Op(c) # "release"
        /\ job' = job /\ row' = row
    <3> USE DEF Answers, Says, Goto, Unresolved, AfterRevoke, TypeOK
    <3>1. CASE Refuse(c) \/ Proceed(c) \/ SpentCode(c)
      BY <3>1 DEF Refuse, Proceed, SpentCode
    <3>2. CASE Exchange(c) \/ LoseExchange(c)
      BY <3>2 DEF Exchange, LoseExchange
    <3>3. CASE Open(c) \/ NoGrant(c)
      BY <3>3 DEF Open, NoGrant
    <3>4. CASE Unreadable(c) \/ InvalidGrant(c)
      BY <3>4 DEF Unreadable, InvalidGrant
    <3>5. CASE Refresh(c) \/ LoseRefresh(c)
      BY <3>5 DEF Refresh, LoseRefresh
    <3>6. CASE Seal(c) \/ SealFails(c)
      BY <3>6 DEF Seal, SealFails
    <3>7. CASE Published(c) \/ PublishFails(c)
      BY <3>7 DEF Published, PublishFails
    <3>8. CASE Report(c) \/ ReportFails(c)
      BY <3>8 DEF Report, ReportFails
    <3>9. CASE Revoke(c) \/ RevokeFails(c)
      BY <3>9 DEF Revoke, RevokeFails
    <3> QED BY <1>1, <3>1, <3>2, <3>3, <3>4, <3>5, <3>6, <3>7, <3>8, <3>9 DEF Progress
  <2> QED BY <2>1, <2>2
<1>2. ASSUME NEW c \in Calls, Deliver(c) \/ Lost(c) PROVE Requested'
  <2>1. /\ pc'[c] = "done" /\ job'[c] = NoJob /\ NoJob.op # "complete"
        /\ \A d \in Calls \ {c} : /\ pc'[d] = pc[d] /\ job'[d] = job[d] /\ hand'[d] = hand[d]
                                  /\ sealed'[d] = sealed[d]
        /\ \A r \in Regs \ {Reg(c)} : row'[r] = row[r]
    BY <1>2, EndsFrame DEF Deliver, Lost, NoJob, TypeOK
  <2>2. \A d \in Calls \ {c} : Flying(d) => Reg(d) # Reg(c) /\ Reg(d) \in Regs
    BY <1>2, JobTypes DEF Deliver, Lost, Alone, Flying, InFlight
  <2> QED BY <2>1, <2>2 DEF Flying, InFlight
<1>4. ASSUME NEW c \in Calls, NEW op \in Ops, NEW r \in Regs, Start(c, op, r) PROVE Requested'
  <2>1. /\ job'[c] = [op |-> op, reg |-> r, env |-> IF op = "complete" THEN NoEnv ELSE row[r]]
        /\ pc'[c] = "plan"
        /\ \A d \in Calls \ {c} : job'[d] = job[d] /\ pc'[d] = pc[d]
        /\ UNCHANGED <<row, hand, sealed>>
    BY <1>4 DEF Start, Goto, TypeOK
  <2>2. hand[c] = NoToken /\ sealed[c] = NoEnv
    BY <1>4 DEF Start, Owned
  <2> QED BY <2>1, <2>2
<1>5. ASSUME NEW r \in Regs, NEW s \in Regs, Misfile(r, s) PROVE Requested'
  <2>1. \A q \in Regs : row[q] # NoEnv => row'[q] = row[q]
    BY <1>5 DEF Misfile, TypeOK
  <2>2. \A c \in Calls : pc[c] \in Resolving => Reg(c) \in Regs
    BY JobTypes DEF Flying, InFlight
  <2> QED BY <1>5, <2>1, <2>2 DEF Misfile
<1>6. CASE UNCHANGED <<calls, row>>
  BY <1>6
<1> QED
  BY <1>1, <1>2, <1>4, <1>5, <1>6
  DEF Next, Approve, CustomerRevokes, ClientReplaced, ClientReloaded, vars

(* No step takes an issued grant from its registration.                    *)
LEMMA OwnersStay ==
  ASSUME TypeOK, Owned, [Next]_vars
  PROVE  OwnersStand
<1> USE DEF provider
<1>1. ASSUME NEW c \in Calls, Exchange(c) \/ LoseExchange(c) PROVE OwnersStand
  <2>1. Reg(c) \in Regs
    BY <1>1, JobTypes DEF Exchange, LoseExchange, Flying, InFlight
  <2>2. CASE \E first \in {0, 1} : Issues(Reg(c), first)
    BY <2>1, <2>2, IssuesOwned
  <2>3. CASE owner' = owner
    BY <2>3 DEF OwnersStand
  <2> QED BY <1>1, <2>2, <2>3 DEF Exchange, LoseExchange
<1>2. CASE owner' = owner
  BY <1>2 DEF OwnersStand
<1> QED
  BY ZenonT(60), <1>1, <1>2
  DEF Next, Progress, Refuse, Proceed, SpentCode, Open, NoGrant, Unreadable, Refresh, InvalidGrant,
      LoseRefresh, Seal, SealFails, Published, PublishFails, Report, ReportFails, Revoke, RevokeFails,
      Start, Deliver, Lost, Approve, Misfile, CustomerRevokes, ClientReplaced, ClientReloaded, vars

LEMMA AheadStep ==
  ASSUME TypeOK, Owned, Alone, Requested, Ahead, [Next]_vars
  PROVE  Ahead'
<1>1. ASSUME NEW d \in Calls, Exchanged(d), job'[d] = job[d],
             \A s \in Regs : row'[s] # NoEnv /\ row'[s].aad = Reg(d) =>
               \E q \in Regs : row'[s] = row[q]
      PROVE  Newer(d)'
  <2>1. Newer(d) /\ Reg(d)' = Reg(d)
    BY <1>1 DEF Ahead, Reg
  <2>2. Reg(d) \in Regs
    BY <1>1, JobTypes DEF Exchanged, Flying, InFlight
  <2>3. ASSUME NEW s \in Regs, row'[s] # NoEnv, row'[s].aad = Reg(d)
        PROVE  \E h \in Grants : h > row'[s].token.grant /\ owner'[h] = Reg(d)
    <3>1. PICK q \in Regs : row'[s] = row[q]
      BY <1>1, <2>3
    <3>2. PICK h \in Grants : h > row[q].token.grant /\ owner[h] = Reg(d)
      BY <2>1, <2>3, <3>1 DEF Newer
    <3>3. owner'[h] = owner[h]
      BY <2>2, <3>2, OwnersStay DEF OwnersStand
    <3> QED BY <3>1, <3>2, <3>3
  <2> QED BY <2>1, <2>3 DEF Newer
<1>2. ASSUME NEW c \in Calls, Progress(c), NEW d \in Calls, Exchanged(d)' PROVE Newer(d)'
  <2>1. /\ row' = row /\ job' = job /\ Flying(c) /\ Reg(c) \in Regs
        /\ \A e \in Calls \ {c} : pc'[e] = pc[e] /\ sealed'[e] = sealed[e] /\ answer'[e] = answer[e]
    BY <1>2, ProgressFrame, JobTypes
  <2>2. CASE Exchanged(d)
    BY <1>1, <2>1, <2>2
  <2>3. CASE ~Exchanged(d)
    <3>1. d = c /\ Op(c) = "complete"
      BY <1>2, <2>1, <2>3 DEF Exchanged, Op, Discards
    <3>2. Exchange(c)
      <4> USE DEF Requested, Resolving, Exchanged, Discards, Answers, Says, Goto, Op, TypeOK
      <4>1. pc[c] \notin {"open", "refresh", "read", "seal", "publish", "revoke"}
        BY <2>3, <3>1
      <4>2. ~Refuse(c) /\ ~Proceed(c)
        BY <1>2, <3>1 DEF Refuse, Proceed
      <4>3. ~LoseExchange(c) /\ ~SpentCode(c)
        BY <1>2, <3>1 DEF LoseExchange, SpentCode
      <4> QED
        BY <1>2, <4>1, <4>2, <4>3
        DEF Progress, Open, NoGrant, Unreadable, Refresh, InvalidGrant, LoseRefresh, Seal, SealFails,
            Published, PublishFails, Report, ReportFails, Revoke, RevokeFails
    <3>3. PICK first \in {0, 1} : Issues(Reg(c), first)
      BY <3>2 DEF Exchange
    <3>4. minted + 1 \in Grants /\ owner'[minted + 1] = Reg(c) /\ minted \in Int
      BY <2>1, <3>3, IssuesOwned DEF TypeOK
    <3>5. ASSUME NEW s \in Regs, row[s] # NoEnv
          PROVE  minted + 1 > row[s].token.grant
      <4>1. row[s].token.grant \in Grants /\ owner[row[s].token.grant] \in Regs
        BY <3>5, HeldGrants
      <4>2. ~(row[s].token.grant > minted) /\ row[s].token.grant \in Int
        BY <4>1, RegsAssumption DEF Owned, Grants
      <4> QED BY <3>4, <4>2
    <3> QED BY <2>1, <3>1, <3>4, <3>5 DEF Newer, Reg
  <2> QED BY <2>2, <2>3
<1>3. ASSUME NEW c \in Calls, Deliver(c) \/ Lost(c), NEW d \in Calls, Exchanged(d)' PROVE Newer(d)'
  <2>1. d # c /\ job'[d] = job[d] /\ Exchanged(d)
    BY <1>3, EndsFrame DEF Deliver, Lost, Exchanged, Op, Discards
  <2>2. Reg(d) # Reg(c)
    BY <1>3, <2>1 DEF Deliver, Lost, Alone, Flying, InFlight, Exchanged
  <2>3. \A s \in Regs : row'[s] \in {row[s], NoEnv, sealed[c]}
    BY <1>3 DEF Deliver, Stores, Lost, TypeOK
  <2>4. sealed[c] # NoEnv => sealed[c].aad = Reg(c)
    BY DEF Owned
  <2> QED BY <1>1, <2>1, <2>2, <2>3, <2>4
<1>4. ASSUME NEW c \in Calls, NEW op \in Ops, NEW r \in Regs, Start(c, op, r),
             NEW d \in Calls, Exchanged(d)'
      PROVE  Newer(d)'
  <2>1. /\ pc'[c] = "plan" /\ UNCHANGED <<row, sealed, answer>>
        /\ \A e \in Calls \ {c} : job'[e] = job[e] /\ pc'[e] = pc[e]
    BY <1>4 DEF Start, Goto, TypeOK
  <2>2. d # c /\ Exchanged(d)
    BY <1>4, <2>1 DEF Exchanged, Op, Discards
  <2> QED BY <1>1, <2>1, <2>2
<1>5. ASSUME NEW r \in Regs, NEW s \in Regs, Misfile(r, s), NEW d \in Calls, Exchanged(d)'
      PROVE  Newer(d)'
  <2>1. UNCHANGED calls /\ \A q \in Regs : row'[q] \in {row[q], row[r]}
    BY <1>5 DEF Misfile, TypeOK
  <2>2. Exchanged(d)
    BY <1>5, <2>1 DEF Exchanged, Op, Discards, calls
  <2> QED BY <1>1, <2>1, <2>2 DEF calls
<1>6. ASSUME UNCHANGED <<calls, row>>, NEW d \in Calls, Exchanged(d)'
      PROVE  Newer(d)'
  <2>1. Exchanged(d) /\ row' = row /\ job' = job
    BY <1>6 DEF Exchanged, Op, Discards, calls
  <2> QED BY <1>1, <2>1
<1> QED
  BY <1>2, <1>3, <1>4, <1>5, <1>6
  DEF Ahead, Next, Approve, CustomerRevokes, ClientReplaced, ClientReloaded, vars

LEMMA AliveStep ==
  ASSUME TypeOK, Owned, OwnedAlive, [Next]_vars
  PROVE  OwnedAlive'
<1> USE DEF OwnedAlive, provider
<1>1. CASE \A g \in Grants : owner'[g] = owner[g] /\ (current'[g] # 0 => current[g] # 0)
  BY <1>1
<1>2. ASSUME NEW c \in Calls, Exchange(c) \/ LoseExchange(c) PROVE OwnedAlive'
  <2>1. Reg(c) \in Regs
    BY <1>2, JobTypes DEF Exchange, LoseExchange, Flying, InFlight
  <2>2. CASE \E first \in {0, 1} : Issues(Reg(c), first)
    BY <2>1, <2>2, IssuesOwned
  <2>3. CASE UNCHANGED provider
    BY <2>3
  <2> QED BY <1>2, <2>2, <2>3 DEF Exchange, LoseExchange
<1>3. ASSUME NEW c \in Calls, Refresh(c) \/ LoseRefresh(c) PROVE OwnedAlive'
  <2> DEFINE t == job[c].env.token
  <2>1. t \in Token /\ t.n # 0 /\ t.grant \in Grants
    BY <1>3 DEF Refresh, LoseRefresh, TypeOK, Token
  <2>2. UNCHANGED current \/ (current[t.grant] # 0 /\ Rotates(t))
    BY <1>3, <2>1 DEF Refresh, LoseRefresh, Known
  <2>3. owner' = owner
    BY <1>3 DEF Refresh, LoseRefresh
  <2> QED BY <1>1, <2>2, <2>3 DEF Rotates, TypeOK
<1>4. ASSUME NEW c \in Calls, Revoke(c) PROVE OwnedAlive'
  BY <1>1, <1>4 DEF Revoke, TypeOK
<1>5. ASSUME NEW g \in Grants, CustomerRevokes(g) PROVE OwnedAlive'
  BY <1>1, <1>5 DEF CustomerRevokes, TypeOK
<1>6. CASE UNCHANGED <<owner, current>>
  BY <1>6
<1> QED
  BY ZenonT(60), <1>2, <1>3, <1>4, <1>5, <1>6
  DEF Next, Progress, Refuse, Proceed, SpentCode, Open, NoGrant, Unreadable, InvalidGrant, Seal,
      SealFails, Published, PublishFails, Report, ReportFails, RevokeFails, Start, Deliver, Lost,
      Approve, Misfile, ClientReplaced, ClientReloaded, vars

(* What a call does to the grants of other registrations: nothing.         *)
LEMMA OthersGrants ==
  ASSUME TypeOK, Owned, NEW c \in Calls, Progress(c), NEW g \in Grants, owner'[g] # Reg(c)
  PROVE  owner'[g] = owner[g] /\ current'[g] = current[g]
<1> USE DEF provider
<1>1. Reg(c) \in Regs /\ Flying(c)
  BY ProgressFrame, JobTypes
<1>2. CASE Exchange(c) \/ LoseExchange(c)
  <2>1. CASE \E first \in {0, 1} : Issues(Reg(c), first)
    BY <1>1, <2>1, IssuesOwned
  <2>2. CASE UNCHANGED provider
    BY <2>2
  <2> QED BY <1>2, <2>1, <2>2 DEF Exchange, LoseExchange
<1>3. CASE Refresh(c) \/ LoseRefresh(c)
  <2> DEFINE t == job[c].env.token
  <2>1. job[c].env.aad = Reg(c) /\ job[c].env # NoEnv /\ t \in Token
    BY <1>1, <1>3, RegsAssumption DEF Refresh, LoseRefresh, TypeOK, Reg, NoEnv
  <2>2. owner[t.grant] = Reg(c) /\ owner' = owner
    BY <1>3, <2>1 DEF Refresh, LoseRefresh, Owned, OwnEnv
  <2> QED BY <1>3, <2>2 DEF Refresh, LoseRefresh, Rotates, TypeOK
<1>4. CASE Revoke(c)
  <2>1. hand[c] # NoToken => owner[hand[c].grant] = Reg(c)
    BY HandOwner
  <2> QED BY <1>4, <2>1 DEF Revoke, Known, TypeOK
<1>5. CASE UNCHANGED <<owner, current>>
  BY <1>5
<1> QED
  BY <1>2, <1>3, <1>4, <1>5
  DEF Progress, Refuse, Proceed, SpentCode, Open, NoGrant, Unreadable, InvalidGrant, Seal,
      SealFails, Published, PublishFails, Report, ReportFails, RevokeFails

(* How a call goes on accounting for a grant of its own registration.      *)
LEMMA OwnGrants ==
  ASSUME TypeOK, Owned, InCustody, NEW c \in Calls, Progress(c),
         NEW g \in Grants, Sound(g)', owner'[g] = Reg(c)
  PROVE  Where(c, g)'
<1> SUFFICES ASSUME ~Beside(c, g)' PROVE Holds(c, g)'
  BY DEF Where
<1> USE DEF provider, calls, TypeOK
<1>1. Reg(c) \in Regs /\ Flying(c) /\ Reg(c)' = Reg(c) /\ row' = row /\ job' = job
  BY ProgressFrame, JobTypes DEF Reg
<1>2. g \notin lapsed /\ g \notin lapsed' /\ current'[g] # 0
  BY ProgressFrame DEF Sound
<1>3. ASSUME current'[g] = current[g], owner'[g] = owner[g]
      PROVE  /\ Holds(c, g) /\ Tok(g)' = Tok(g) /\ Cur(g)' = Cur(g) /\ Cur(g) # NoEnv
             /\ Tok(g) # NoToken /\ Stored(c, g)' = Stored(c, g)
  <2>1. Where(c, g)
    BY <1>1, <1>2, <1>3 DEF InCustody, Accounted, Sound
  <2>2. Cur(g) # NoEnv /\ Tok(g) # NoToken
    BY <1>2, <1>3 DEF Cur, Tok, NoEnv, NoToken
  <2>3. Tok(g)' = Tok(g) /\ Cur(g)' = Cur(g) /\ Stored(c, g)' = Stored(c, g)
    BY <1>1, <1>3 DEF Tok, Cur, Stored
  <2>4. ~Beside(c, g)
    BY <1>1, <2>3 DEF Beside, Op
  <2> QED BY <2>1, <2>2, <2>3, <2>4 DEF Where
<1>4. CASE Exchange(c)
  <2>1. PICK first \in {0, 1} :
          /\ Issues(Reg(c), first)
          /\ hand' = [hand EXCEPT ![c] = IF first = 0 THEN NoToken
                                         ELSE [grant |-> minted + 1, n |-> 1]]
    BY <1>4 DEF Exchange
  <2>2. CASE g = minted + 1
    <3>1. current'[g] = 1 /\ first = 1
      BY <1>1, <1>2, <2>1, <2>2, IssuesOwned
    <3>2. hand'[c] = Tok(g)'
      BY <2>1, <2>2, <3>1 DEF Tok
    <3>3. pc'[c] = "seal" /\ sealed'[c] = NoEnv
      BY <1>4 DEF Exchange, Goto, InCustody, Requested
    <3> QED BY <3>2, <3>3 DEF Holds
  <2>3. CASE g # minted + 1
    BY <1>1, <1>3, <1>4, <2>1, <2>3, IssuesOwned DEF Exchange, Holds, Resolving
  <2> QED BY <2>2, <2>3
<1>5. CASE LoseExchange(c) \/ SpentCode(c)
  <2>1. CASE UNCHANGED <<owner, current>>
    BY <1>3, <1>5, <2>1 DEF LoseExchange, SpentCode, Holds, Resolving
  <2>2. CASE Issues(Reg(c), 1) /\ Befalls(minted + 1)
    <3>1. g # minted + 1
      BY <1>2, <2>2 DEF Befalls
    <3> QED BY <1>1, <1>3, <1>5, <2>2, <3>1, IssuesOwned DEF LoseExchange, SpentCode, Holds, Resolving
  <2> QED BY <1>5, <2>1, <2>2 DEF LoseExchange, SpentCode
<1>6. CASE Refuse(c)
  <2>1. Stored(c, g)' /\ pc'[c] = "answer" /\ sealed'[c] = NoEnv
    BY <1>3, <1>6 DEF Refuse, Answers, Goto, Holds, Resolving, InCustody, Requested
  <2>2. ~Discards(c)'
    BY <1>6 DEF Refuse, Answers, Says, Discards
  <2> QED BY <2>1, <2>2 DEF Holds
<1>7. CASE Proceed(c)
  BY <1>3, <1>7 DEF Proceed, Goto, Holds, Resolving, InCustody, Requested
<1>8. CASE Open(c)
  <2>1. pc[c] = "open" /\ Stored(c, g)' /\ job[c].env = Cur(g) /\ Cur(g)' = Cur(g) /\ sealed[c] = NoEnv
    BY <1>3, <1>8 DEF Open, Holds, Resolving, InCustody, Requested
  <2>2. CASE Op(c) = "release"
    <3>1. hand'[c] = Tok(g)'
      BY <1>3, <1>8, <2>1, <2>2 DEF Open, Cur
    <3> QED BY <1>8, <2>1, <2>2, <3>1 DEF Open, Goto, Holds
  <2>3. CASE Op(c) # "release"
    BY <1>1, <1>8, <2>1, <2>3 DEF Open, Goto, Holds, Resolving
  <2> QED BY <2>2, <2>3
<1>9. CASE NoGrant(c)
  BY <1>3, <1>9 DEF NoGrant, Holds, Resolving
<1>10. CASE Unreadable(c)
  <2>1. job[c].env = Cur(g) /\ Cur(g).token.grant = g /\ Cur(g).aad = Reg(c)
    BY <1>3, <1>10 DEF Unreadable, Holds, Resolving, Cur, Tok
  <2>2. Opens(c)
    BY <1>10, <2>1 DEF Unreadable, Opens
  <2> QED BY <1>2, <1>10, <2>1, <2>2 DEF Unreadable, Befalls
<1>11. CASE InvalidGrant(c)
  <2>1. job[c].env.token = Tok(g) /\ Tok(g) # NoToken
    BY <1>3, <1>11 DEF InvalidGrant, Holds, Resolving, Cur
  <2>2. Known(job[c].env.token)
    BY <2>1 DEF Known, Tok
  <2> QED BY <1>2, <1>11, <2>1, <2>2 DEF InvalidGrant, Befalls, Tok
<1>12. CASE Refresh(c) \/ LoseRefresh(c)
  <2> DEFINE t == job[c].env.token
  <2>1. t \in Token /\ t.grant \in Grants /\ owner' = owner /\ pc[c] = "refresh"
    BY <1>12 DEF Refresh, LoseRefresh, Token
  <2>2. sealed'[c] = NoEnv /\ Op(c) # "release"
    BY <1>12 DEF Refresh, LoseRefresh, InCustody, Requested, Resolving
  <2>3. CASE UNCHANGED current
    <3>1. job[c].env = Cur(g) /\ Stored(c, g)' /\ t = Tok(g)'
      BY <1>3, <2>1, <2>3 DEF Holds, Resolving, Cur
    <3>2. CASE Refresh(c)
      <4>1. hand'[c] = t
        BY <2>1, <2>3, <3>2 DEF Refresh, Rotates, Known
      <4> QED BY <2>2, <3>1, <3>2, <4>1 DEF Refresh, Goto, Holds
    <3>3. CASE LoseRefresh(c)
      <4>1. pc'[c] \in {"read", "answer"} /\ ~Discards(c)'
        BY <2>2, <3>3 DEF LoseRefresh, Unresolved, Answers, Says, Goto, Discards
      <4> QED BY <2>2, <3>1, <4>1 DEF Holds
    <3> QED BY <1>12, <3>2, <3>3
  <2>4. CASE Known(t) /\ Rotates(t)
    <3>1. current[t.grant] = t.n /\ t.n # 0
      BY <2>1, <2>4 DEF Known, Token
    <3>2. g = t.grant
      <4>1. SUFFICES ASSUME g # t.grant PROVE FALSE
        OBVIOUS
      <4>2. current'[g] = current[g]
        BY <2>1, <2>4, <4>1 DEF Rotates
      <4>3. job[c].env = Cur(g)
        BY <1>3, <2>1, <4>2 DEF Holds, Resolving
      <4> QED BY <4>1, <4>3 DEF Cur, Tok
    <3>3. CASE Refresh(c)
      <4>1. hand'[c] = Tok(g)'
        BY <2>1, <2>4, <3>1, <3>2, <3>3 DEF Refresh, Rotates, Tok
      <4> QED BY <2>2, <3>3, <4>1 DEF Refresh, Goto, Holds
    <3>4. CASE LoseRefresh(c)
      <4>1. Befalls(t.grant)
        BY <2>1, <2>4, <3>1, <3>4 DEF LoseRefresh, Rotates
      <4> QED BY <1>2, <3>2, <4>1 DEF Befalls
    <3> QED BY <1>12, <3>3, <3>4
  <2> QED BY <1>12, <2>3, <2>4 DEF Refresh, LoseRefresh
<1>13. CASE Seal(c)
  <2>1. hand[c] = Tok(g) /\ hand' = hand /\ Tok(g)' = Tok(g) /\ Cur(g)' = Cur(g)
    BY <1>3, <1>13 DEF Seal, Holds, Resolving
  <2>2. sealed'[c] = Cur(g)
    BY <1>13, <2>1 DEF Seal, Cur
  <2>3. pc'[c] \in {"read", "publish"}
    BY <1>13 DEF Seal, Goto
  <2> QED BY <2>1, <2>2, <2>3 DEF Holds
<1>14. CASE SealFails(c)
  <2>1. hand'[c] = Tok(g)' /\ sealed'[c] = NoEnv /\ pc'[c] \in {"revoke", "publish"}
    BY <1>3, <1>14 DEF SealFails, Goto, Holds, Resolving, InCustody, Requested
  <2> QED BY <2>1 DEF Holds
<1>15. CASE Published(c) \/ PublishFails(c)
  <2>1. hand'[c] = Tok(g)' /\ sealed'[c] = sealed[c] /\ sealed[c] \in {NoEnv, Cur(g)} /\ Cur(g)' = Cur(g)
    BY <1>3, <1>15 DEF Published, PublishFails, Holds, Resolving
  <2>2. pc'[c] = IF Held(c) THEN "answer" ELSE "revoke"
    BY <1>15 DEF Published, PublishFails, Answers, Goto
  <2> QED BY <2>1, <2>2 DEF Holds, Held
<1>16. CASE Report(c)
  <2>1. \/ hand[c] = Tok(g) /\ sealed[c] = Cur(g)
        \/ Stored(c, g) /\ sealed[c] = NoEnv /\ ~Discards(c)
    BY <1>3, <1>16 DEF Report, Holds, Resolving
  <2>2. pc'[c] = "answer" /\ (Discards(c)' => Discards(c))
    BY <1>16 DEF Report, Answers, Says, Goto, Discards
  <2> QED BY <1>3, <1>16, <2>1, <2>2 DEF Report, Holds
<1>17. CASE ReportFails(c)
  <2>1. \/ hand[c] = Tok(g)
        \/ Stored(c, g)
    BY <1>3, <1>17 DEF ReportFails, Holds, Resolving
  <2>2. hand[c] # Tok(g)
    BY <1>2, <1>17 DEF ReportFails, Befalls, Tok
  <2>3. pc'[c] = "answer" /\ sealed'[c] = NoEnv /\ ~Discards(c)'
    BY <1>17 DEF ReportFails, Answers, Says, Goto, Discards
  <2> QED BY <1>3, <1>17, <2>1, <2>2, <2>3 DEF ReportFails, Holds
<1>18. CASE Revoke(c) \/ RevokeFails(c)
  <2>1. current'[g] = current[g] /\ owner'[g] = owner[g]
    <3>1. hand[c] # NoToken => hand[c].grant \in Grants
      BY HandTypes
    <3> QED BY <1>2, <1>18, <3>1 DEF Revoke, RevokeFails, Known
  <2>2. hand[c] = Tok(g) /\ hand[c] # NoToken
    BY <1>3, <1>18, <2>1 DEF Revoke, RevokeFails, Holds, Resolving
  <2>3. CASE Revoke(c)
    BY <1>2, <2>2, <2>3 DEF Revoke, Known, Tok
  <2>4. CASE RevokeFails(c)
    BY <1>2, <2>2, <2>4 DEF RevokeFails, Befalls, Tok
  <2> QED BY <1>18, <2>3, <2>4
<1> QED
  BY <1>4, <1>5, <1>6, <1>7, <1>8, <1>9, <1>10, <1>11, <1>12, <1>13, <1>14, <1>15, <1>16, <1>17,
     <1>18 DEF Progress

LEMMA AccountedProgress ==
  ASSUME TypeOK, OneAtATime, Owned, InCustody, NEW c \in Calls, Progress(c),
         NEW g \in Grants, Sound(g)'
  PROVE  Accounted(g)'
<1>1. /\ Reg(c) \in Regs /\ Flying(c) /\ Flying(c)' /\ row' = row /\ job' = job
      /\ \A d \in Calls : Reg(d)' = Reg(d) /\ (Flying(d)' <=> Flying(d))
  BY ProgressFrame, JobTypes DEF Reg, Flying
<1>2. CASE owner'[g] = Reg(c)
  <2>1. \A d \in Calls : Flying(d)' /\ Reg(d)' = owner'[g] => d = c
    BY <1>1, <1>2 DEF InCustody, Alone
  <2>2. ~Idle(owner[g])'
    BY <1>1, <1>2 DEF Idle
  <2> QED BY <1>2, <2>1, <2>2, OwnGrants DEF Accounted
<1>3. CASE owner'[g] # Reg(c)
  <2>1. owner'[g] = owner[g] /\ current'[g] = current[g]
    BY <1>3, OthersGrants
  <2>2. Accounted(g) /\ Cur(g)' = Cur(g) /\ Tok(g)' = Tok(g)
    BY <2>1, ProgressFrame DEF InCustody, Sound, Cur, Tok
  <2>3. ASSUME NEW d \in Calls, Flying(d)', Reg(d)' = owner'[g] PROVE Where(d, g)'
    <3>1. Where(d, g) /\ d # c
      BY <1>1, <1>3, <2>1, <2>2, <2>3 DEF Accounted
    <3>2. pc'[d] = pc[d] /\ hand'[d] = hand[d] /\ sealed'[d] = sealed[d] /\ answer'[d] = answer[d]
      BY <3>1, ProgressFrame
    <3> QED BY <1>1, <2>2, <3>1, <3>2 DEF Where, Holds, Beside, Stored, Discards, Op
  <2>4. Idle(owner[g])' => row'[owner'[g]] = Cur(g)'
    BY <1>1, <2>1, <2>2 DEF Accounted, Idle
  <2> QED BY <2>3, <2>4 DEF Accounted
<1> QED BY <1>2, <1>3

LEMMA AccountedDeliver ==
  ASSUME TypeOK, Owned, InCustody, NEW c \in Calls, Deliver(c) \/ Lost(c),
         NEW g \in Grants, Sound(g)'
  PROVE  Accounted(g)'
<1>1. /\ Flying(c) /\ Reg(c) \in Regs /\ ~Flying(c)' /\ UNCHANGED <<owner, current>>
      /\ lapsed \subseteq lapsed'
      /\ \A r \in Regs \ {Reg(c)} : row'[r] = row[r]
  <2>1. Flying(c)
    BY DEF Deliver, Lost, Flying, InFlight
  <2>2. ~Flying(c)'
    BY EndsFrame DEF Deliver, Lost, Flying, InFlight
  <2>3. \A r \in Regs \ {Reg(c)} : row'[r] = row[r]
    BY DEF Deliver, Lost, TypeOK
  <2>4. UNCHANGED <<owner, current>> /\ lapsed \subseteq lapsed'
    BY DEF Deliver, Lost, Befalls, provider
  <2> QED BY <2>1, <2>2, <2>3, <2>4, JobTypes
<1>2. Accounted(g) /\ Cur(g)' = Cur(g) /\ Tok(g)' = Tok(g) /\ owner[g] \in Regs
  BY <1>1 DEF InCustody, OwnedAlive, Sound, Cur, Tok
<1>3. \A d \in Calls : Flying(d)' => d # c
  BY <1>1
<1>4. \A d \in Calls \ {c} : /\ pc'[d] = pc[d] /\ job'[d] = job[d] /\ hand'[d] = hand[d]
                             /\ sealed'[d] = sealed[d] /\ answer'[d] = answer[d]
  BY EndsFrame DEF Deliver, Lost
<1>5. CASE owner[g] = Reg(c)
  <2>1. ASSUME NEW d \in Calls, Flying(d)', Reg(d)' = owner'[g] PROVE FALSE
    BY <1>1, <1>3, <1>4, <1>5, <2>1 DEF InCustody, Alone, Flying, Reg
  <2>2. Holds(c, g) \/ Beside(c, g)
    BY <1>1, <1>2, <1>5 DEF Accounted, Where
  <2>3. Cur(g) # NoEnv /\ Cur(g).aad = Reg(c) /\ Cur(g).token.grant = g
    BY <1>2, <1>5, RegsAssumption DEF Cur, Tok, NoEnv
  <2>4. CASE Deliver(c)
    <3>1. row'[Reg(c)] = Stores(c)
      BY <1>1, <2>4 DEF Deliver, TypeOK
    <3>2. ASSUME Holds(c, g) PROVE row'[Reg(c)] = Cur(g)
      <4>1. \/ sealed[c] = Cur(g)
            \/ Stored(c, g) /\ sealed[c] = NoEnv /\ ~Discards(c)
        BY <2>4, <3>2 DEF Deliver, Holds, Resolving
      <4> QED BY <2>3, <3>1, <4>1 DEF Stored, Stores
    <3>3. ASSUME Beside(c, g) PROVE row'[Reg(c)] = Cur(g)
      <4>1. ~Replaces(c)
        <5> SUFFICES ASSUME Replaces(c) PROVE FALSE
          OBVIOUS
        <5>1. Befalls(g)
          BY <2>3, <2>4, <3>3 DEF Deliver, Beside, Stored
        <5> QED BY <5>1 DEF Befalls, Sound
      <4> QED BY <2>3, <3>1, <3>3, <4>1 DEF Replaces, Beside, Stored
    <3>4. row'[Reg(c)] = Cur(g)
      BY <2>2, <3>2, <3>3
    <3> QED BY <1>1, <1>2, <1>5, <2>1, <3>4 DEF Accounted
  <2>5. CASE Lost(c)
    <3>1. hand[c] # Tok(g)
      BY <2>5 DEF Lost, Befalls, Sound, Tok
    <3>2. Stored(c, g)
      BY <2>2, <3>1 DEF Holds, Beside
    <3> QED BY <1>1, <1>2, <1>5, <2>1, <2>5, <3>2 DEF Accounted, Stored, Lost
  <2> QED BY <2>4, <2>5
<1>6. CASE owner[g] # Reg(c)
  <2>1. ASSUME NEW d \in Calls, Flying(d)', Reg(d)' = owner'[g] PROVE Where(d, g)'
    <3>1. d # c /\ Flying(d) /\ Reg(d) = owner[g] /\ Reg(d)' = Reg(d) /\ Op(d)' = Op(d)
      BY <1>1, <1>3, <1>4, <2>1 DEF Flying, Reg, Op
    <3>2. Where(d, g)
      BY <1>2, <3>1 DEF Accounted
    <3>3. row'[Reg(d)] = row[Reg(d)]
      BY <1>1, <1>2, <1>6, <3>1
    <3> QED BY <1>2, <1>4, <3>1, <3>2, <3>3 DEF Where, Holds, Beside, Stored, Discards
  <2>2. Idle(owner[g])' => row'[owner'[g]] = Cur(g)'
    BY <1>1, <1>2, <1>4, <1>6 DEF Accounted, Idle, Flying, Reg
  <2> QED BY <2>1, <2>2 DEF Accounted
<1> QED BY <1>5, <1>6

LEMMA AccountedStart ==
  ASSUME TypeOK, OneAtATime, Owned, InCustody, NEW c \in Calls, NEW op \in Ops, NEW r \in Regs,
         Start(c, op, r), NEW g \in Grants, Sound(g)'
  PROVE  Accounted(g)'
<1>1. /\ pc[c] = "idle" /\ pc'[c] = "plan" /\ job'[c].reg = r
      /\ job'[c].op = "complete" \/ job'[c].env = row[r]
      /\ UNCHANGED <<row, hand, sealed, owner, current, answer, lapsed>>
      /\ \A d \in Calls \ {c} : pc'[d] = pc[d] /\ job'[d] = job[d]
  BY DEF Start, Goto, TypeOK, provider
<1>2. Accounted(g) /\ Cur(g)' = Cur(g) /\ Tok(g)' = Tok(g)
  BY <1>1 DEF InCustody, Sound, Cur, Tok
<1>3. Idle(r) /\ Flying(c)' /\ Reg(c)' = r
  BY <1>1 DEF Start, Free, Idle, Flying, Reg, InFlight
<1>4. ASSUME NEW d \in Calls, Flying(d)', Reg(d)' = owner'[g] PROVE Where(d, g)'
  <2>1. CASE d = c
    <3>1. row[r] = Cur(g)
      BY <1>1, <1>2, <1>3, <1>4, <2>1 DEF Accounted
    <3> QED BY <1>1, <1>2, <1>3, <2>1, <3>1 DEF Where, Holds, Beside, Stored, Resolving, Op
  <2>2. CASE d # c
    <3>1. Where(d, g) /\ Reg(d)' = Reg(d) /\ Op(d)' = Op(d)
      BY <1>1, <1>2, <1>4, <2>2 DEF Accounted, Flying, Reg, Op
    <3> QED BY <1>1, <1>2, <2>2, <3>1 DEF Where, Holds, Beside, Stored, Discards
  <2> QED BY <2>1, <2>2
<1>5. Idle(owner[g])' => row'[owner'[g]] = Cur(g)'
  <2>1. Idle(owner[g])' => Idle(owner[g])
    BY <1>1 DEF Idle, Flying, Reg, InFlight
  <2> QED BY <1>1, <1>2, <2>1 DEF Accounted
<1> QED BY <1>4, <1>5 DEF Accounted

(* What else the caller, the customer and the operator may do.             *)
LEMMA AccountedOutside ==
  ASSUME TypeOK, Owned, InCustody, UNCHANGED <<calls, owner>>, lapsed' = lapsed,
         \A r \in Regs : row[r] # NoEnv => row'[r] = row[r],
         NEW g \in Grants, Sound(g)', current'[g] = current[g]
  PROVE  Accounted(g)'
<1>1. /\ Accounted(g) /\ Cur(g)' = Cur(g) /\ Tok(g)' = Tok(g) /\ owner[g] \in Regs
      /\ \A d \in Calls : Reg(d)' = Reg(d)
  BY DEF InCustody, OwnedAlive, Sound, Cur, Tok, Reg, calls
<1>2. Cur(g) # NoEnv
  BY <1>1, RegsAssumption DEF Cur, NoEnv
<1>3. row[owner[g]] = Cur(g) => row'[owner[g]] = Cur(g)
  BY <1>1, <1>2
<1>4. ASSUME NEW d \in Calls, Flying(d)', Reg(d)' = owner'[g] PROVE Where(d, g)'
  <2>1. Where(d, g) /\ Reg(d) = owner[g]
    BY <1>1, <1>4 DEF Accounted, Flying, calls
  <2>2. Stored(d, g) => Stored(d, g)'
    BY <1>1, <1>3, <2>1 DEF Stored
  <2> QED BY <1>1, <2>1, <2>2 DEF Where, Holds, Beside, Discards, Op, calls
<1>5. Idle(owner[g])' => row'[owner'[g]] = Cur(g)'
  BY <1>1, <1>3 DEF Accounted, Idle, Flying, calls
<1> QED BY <1>4, <1>5 DEF Accounted

LEMMA CustodyStep ==
  ASSUME TypeOK, OneAtATime, Owned, InCustody, [Next]_vars
  PROVE  InCustody'
<1>1. Alone' /\ Requested' /\ Ahead' /\ OwnedAlive'
  BY AloneStep, RequestedStep, AheadStep, AliveStep DEF InCustody
<1>2. ASSUME NEW g \in Grants, Sound(g)' PROVE Accounted(g)'
  <2>1. ASSUME NEW c \in Calls, Progress(c) \/ Deliver(c) \/ Lost(c) PROVE Accounted(g)'
    BY <1>2, <2>1, AccountedProgress, AccountedDeliver
  <2>2. ASSUME NEW c \in Calls, NEW op \in Ops, NEW r \in Regs, Start(c, op, r)
        PROVE  Accounted(g)'
    BY <1>2, <2>2, AccountedStart
  <2>3. ASSUME NEW r \in Regs, NEW s \in Regs, Approve(r) \/ Misfile(r, s) PROVE Accounted(g)'
    <3>1. \A q \in Regs : row[q] # NoEnv => row'[q] = row[q]
      BY <2>3 DEF Approve, Misfile, TypeOK
    <3> QED BY <1>2, <2>3, <3>1, AccountedOutside DEF Approve, Misfile, provider
  <2>4. ASSUME NEW h \in Grants, CustomerRevokes(h) PROVE Accounted(g)'
    <3>1. current'[g] = current[g]
      BY <1>2, <2>4 DEF CustomerRevokes, TypeOK, Sound
    <3> QED BY <1>2, <2>4, <3>1, AccountedOutside DEF CustomerRevokes
  <2>5. CASE ClientReplaced \/ ClientReloaded \/ UNCHANGED vars
    BY <1>2, <2>5, AccountedOutside DEF ClientReplaced, ClientReloaded, vars, provider
  <2> QED BY <2>1, <2>2, <2>3, <2>4, <2>5 DEF Next
<1> QED BY <1>1, <1>2 DEF InCustody

LEMMA InCustodyHolds ==
  ASSUME OneAtATime
  PROVE  Spec => []InCustody
<1>1. TypeOK /\ Owned /\ InCustody /\ [Next]_vars => InCustody'
  BY CustodyStep
<1> QED BY <1>1, CustodyInit, TypeCorrect, OwnedHolds, PTL DEF Spec

(* While the caller makes one call at a time for a registration, what it   *)
(* stores between calls is the token the provider knows, or the grant has  *)
(* ended, or something befell it (write, Orphans, Release).                *)
THEOREM StoredIsCurrentHolds ==
  ASSUME OneAtATime
  PROVE  Spec => []StoredIsCurrent
<1>1. TypeOK /\ Owned /\ InCustody => StoredIsCurrent
  <2> SUFFICES ASSUME TypeOK, Owned, InCustody, NEW r \in Regs, row[r] # NoEnv, row[r].aad = r,
                      \A c \in Calls : pc[c] \in InFlight => Reg(c) # r,
                      current[row[r].token.grant] # 0, row[r].token.grant \notin lapsed
               PROVE  current[row[r].token.grant] = row[r].token.n
    BY DEF StoredIsCurrent
  <2> DEFINE g == row[r].token.grant
  <2>1. g \in Grants /\ owner[g] = r
    BY HeldGrants DEF Owned, OwnEnv
  <2>2. row[r] = Cur(g)
    BY <2>1 DEF InCustody, Sound, Accounted, Idle, Flying
  <2> QED BY <2>2 DEF Cur, Tok
<1> QED BY <1>1, InCustodyHolds, TypeCorrect, OwnedHolds, PTL

-----------------------------------------------------------------------------
(* The contract.  A step of the module moves each grant as GrantCustody    *)
(* allows it to.                                                           *)

Placed(g) ==
  /\ custodyOf(g) \in {"none", "ended", "engine", "caller", "lost"}
  /\ custodyOf(g) = "none" <=> g > minted
  /\ custodyOf(g) = "ended" <=> ~(g > minted) /\ current[g] = 0
  /\ custodyOf(g) = "engine" <=> ~(g > minted) /\ current[g] # 0 /\ InHand(g)
  /\ custodyOf(g) = "caller" <=> ~(g > minted) /\ current[g] # 0 /\ ~InHand(g) /\ InRow(g)
  /\ custodyOf(g) = "lost" <=> ~(g > minted) /\ current[g] # 0 /\ ~InHand(g) /\ ~InRow(g)

LEMMA PlaceOf == \A g \in Grants : Placed(g) /\ Placed(g)'
BY DEF Placed, custodyOf

(* A grant is out of everybody's hands only if something befell it.        *)
LostLapsed == \A g \in Grants : custodyOf(g) = "lost" => g \in lapsed

LEMMA LostIsLapsed == TypeOK /\ Owned /\ InCustody => LostLapsed
<1> SUFFICES ASSUME TypeOK, Owned, InCustody, NEW g \in Grants, custodyOf(g) = "lost",
                    g \notin lapsed
             PROVE  FALSE
  BY DEF LostLapsed
<1>1. ~InHand(g) /\ ~InRow(g) /\ Sound(g) /\ owner[g] \in Regs
  BY PlaceOf DEF Placed, Sound, InCustody, OwnedAlive
<1>2. Accounted(g) /\ row[owner[g]] # Cur(g)
  BY <1>1 DEF InCustody, InRow, Cur, Tok
<1>3. PICK c \in Calls : Flying(c) /\ Reg(c) = owner[g]
  BY <1>2 DEF Accounted, Idle
<1>4. Where(c, g) /\ ~Stored(c, g)
  BY <1>2, <1>3 DEF Accounted, Stored
<1>5. Cur(g) # NoEnv
  BY <1>1, RegsAssumption DEF Cur, NoEnv
<1>6. hand[c] = Tok(g) /\ (pc[c] = "answer" => Held(c))
  BY <1>4, <1>5 DEF Where, Holds, Beside, Held
<1> QED BY <1>1, <1>3, <1>6 DEF InHand, Flying, Tok

(* Issued grants stay issued, and ended ones ended; a grant is issued into *)
(* a call's hands or nobody's.                                             *)
LEMMA GrantsStay ==
  ASSUME TypeOK, Owned, [Next]_vars, NEW g \in Grants
  PROVE  /\ g > minted' => g > minted
         /\ ~(g > minted) => owner'[g] = owner[g]
         /\ ~(g > minted) /\ current[g] = 0 => current'[g] = 0
         /\ g > minted /\ ~(g > minted') => ~InRow(g)'
<1> USE DEF provider
<1>1. ASSUME NEW c \in Calls, Exchange(c) \/ LoseExchange(c), ~UNCHANGED provider
      PROVE  /\ g > minted' => g > minted
             /\ ~(g > minted) => owner'[g] = owner[g]
             /\ ~(g > minted) /\ current[g] = 0 => current'[g] = 0
             /\ g > minted /\ ~(g > minted') => ~InRow(g)'
  <2>1. PICK first \in {0, 1} : Issues(Reg(c), first)
    BY <1>1 DEF Exchange, LoseExchange
  <2>2. Reg(c) \in Regs /\ row' = row
    BY <1>1, JobTypes DEF Exchange, LoseExchange, Flying, InFlight
  <2>3. minted \in Int /\ g \in Int
    BY DEF TypeOK, Grants
  <2>4. /\ minted' = minted + 1
        /\ g # minted + 1 => current'[g] = current[g] /\ owner'[g] = owner[g]
    BY <2>1, <2>2, IssuesOwned
  <2>5. g > minted => \A r \in Regs : row[r] # NoEnv => row[r].token.grant # g
    BY HeldGrants, RegsAssumption DEF Owned
  <2>6. g > minted => ~InRow(g)'
    <3>1. ASSUME NEW r \in Regs, row[r].token.grant = g, row[r].aad = r PROVE row[r] # NoEnv
      BY <3>1, RegsAssumption DEF NoEnv
    <3>2. InRow(g)' => \E r \in Regs : row[r].token.grant = g /\ row[r].aad = r
      BY <2>2 DEF InRow
    <3> QED BY <2>5, <3>1, <3>2
  <2> QED BY <2>3, <2>4, <2>6
<1>2. CASE minted' = minted /\ owner' = owner /\ (current[g] = 0 => current'[g] = 0)
  BY <1>2
<1>3. ASSUME NEW c \in Calls, Refresh(c) \/ LoseRefresh(c)
      PROVE  minted' = minted /\ owner' = owner /\ (current[g] = 0 => current'[g] = 0)
  <2> DEFINE t == job[c].env.token
  <2>1. t \in Token /\ t.n # 0
    BY <1>3 DEF Refresh, LoseRefresh, TypeOK, Token
  <2>2. current' = current \/ (Rotates(t) /\ current[t.grant] # 0)
    BY <1>3, <2>1 DEF Refresh, LoseRefresh, Known
  <2>3. minted' = minted /\ owner' = owner
    BY <1>3 DEF Refresh, LoseRefresh
  <2> QED BY <2>2, <2>3 DEF Rotates, TypeOK
<1>4. ASSUME NEW c \in Calls, Revoke(c)
      PROVE  minted' = minted /\ owner' = owner /\ (current[g] = 0 => current'[g] = 0)
  BY <1>4 DEF Revoke, TypeOK
<1>5. ASSUME NEW h \in Grants, CustomerRevokes(h)
      PROVE  minted' = minted /\ owner' = owner /\ (current[g] = 0 => current'[g] = 0)
  BY <1>5 DEF CustomerRevokes, TypeOK
<1>6. CASE UNCHANGED <<minted, owner, current>>
  BY <1>2, <1>6
<1> QED
  BY ZenonT(60), <1>1, <1>2, <1>3, <1>4, <1>5, <1>6
  DEF Next, Progress, Refuse, Proceed, SpentCode, Open, NoGrant, Unreadable, InvalidGrant, Seal,
      SealFails, Published, PublishFails, Report, ReportFails, RevokeFails, Start, Deliver, Lost,
      Approve, Misfile, ClientReplaced, ClientReloaded, vars

(* A call comes by a live grant from the caller's row alone: nothing that  *)
(* is out of everybody's hands gets into the engine's.                     *)
LEMMA TakenFromRow ==
  ASSUME TypeOK, Owned, InCustody, [Next]_vars, NEW g \in Grants, ~(g > minted),
         current[g] # 0, current'[g] # 0, InHand(g)'
  PROVE  InHand(g) \/ InRow(g)
<1> USE DEF provider, calls
<1>1. PICK c \in Calls : /\ Flying(c)' /\ hand'[c] = Tok(g)' /\ (pc'[c] = "answer" => Held(c)')
  BY DEF InHand, Flying, Tok
<1>2. ASSUME Flying(c), hand'[c] = hand[c], current'[g] = current[g],
             pc[c] = "answer" => pc'[c] = "answer" /\ sealed'[c] = sealed[c]
      PROVE  InHand(g)
  BY <1>1, <1>2 DEF InHand, Flying, Tok, Held
<1>3. ASSUME NEW d \in Calls, Progress(d), d # c PROVE InHand(g)
  <2>1. /\ Flying(d) /\ Flying(c) /\ hand'[c] = hand[c] /\ sealed'[c] = sealed[c] /\ pc'[c] = pc[c]
        /\ Reg(c)' = Reg(c)
    BY <1>1, <1>3, ProgressFrame DEF Flying, Reg
  <2>2. Tok(g)' # NoToken /\ Tok(g)'.grant = g
    BY DEF Tok, NoToken, Grants
  <2>3. owner[g] = Reg(c)
    BY <1>1, <2>1, <2>2 DEF Owned, Tok
  <2>4. Reg(c) # Reg(d)
    BY <1>3, <2>1 DEF InCustody, Alone
  <2>5. owner'[g] # Reg(d)
    <3>1. owner'[g] = owner[g]
      <4>1. CASE \E first \in {0, 1} : Issues(Reg(d), first)
        BY <2>1, <4>1, IssuesOwned, JobTypes
      <4>2. CASE owner' = owner
        BY <4>2
      <4> QED
        BY <1>3, <4>1, <4>2
        DEF Progress, Exchange, LoseExchange, Refresh, LoseRefresh, Refuse, Proceed, SpentCode, Open,
            NoGrant, Unreadable, InvalidGrant, Seal, SealFails, Published, PublishFails, Report,
            ReportFails, Revoke, RevokeFails
    <3> QED BY <2>3, <2>4, <3>1
  <2>6. current'[g] = current[g]
    BY <1>3, <2>5, OthersGrants
  <2> QED BY <1>1, <2>1, <2>6 DEF InHand, Flying, Tok, Held
<1>4. CASE Progress(c)
  <2>0. Flying(c) /\ Tok(g)'.grant = g /\ Tok(g)'.n = current'[g] /\ Tok(g)' # NoToken
    BY <1>4, ProgressFrame DEF Tok, NoToken, Grants
  <2>1. CASE Exchange(c)
    <3>1. hand'[c] \in {NoToken, [grant |-> minted + 1, n |-> 1]} /\ minted \in Int /\ g \in Int
      BY <2>1 DEF Exchange, TypeOK, Grants
    <3> QED BY <1>1, <2>0, <3>1
  <2>2. CASE Open(c)
    <3>1. CASE Op(c) = "release"
      <4>1. hand'[c] = job[c].env.token /\ current' = current /\ job[c].env # NoEnv
            /\ job[c].env.aad = Reg(c)
        BY <2>2, <3>1 DEF Open, Opens, TypeOK
      <4>2. row[Reg(c)] = job[c].env /\ Reg(c) \in Regs /\ job[c].env \in Envelope
        BY <2>0, <2>2, <4>1, JobTypes DEF Open, InCustody, Requested, Resolving
      <4>3. row[Reg(c)] = [token |-> [grant |-> g, n |-> current[g]], aad |-> Reg(c)]
        BY <1>1, <4>1, <4>2 DEF Envelope, Tok
      <4> QED BY <4>2, <4>3 DEF InRow
    <3>2. CASE Op(c) # "release"
      BY <1>2, <2>0, <2>2, <3>2 DEF Open, Flying
    <3> QED BY <3>1, <3>2
  <2>3. CASE Refresh(c)
    <3> DEFINE t == job[c].env.token
    <3>1. t \in Token /\ current[t.grant] = t.n /\ job[c].env.aad = Reg(c) /\ job[c].env \in Envelope
          /\ job[c].env # NoEnv
      BY <2>0, <2>3, JobTypes, RegsAssumption DEF Refresh, TypeOK, Known, Reg, NoEnv
    <3>2. hand'[c].grant = t.grant
      BY <2>3, <3>1 DEF Refresh, TypeOK
    <3>3. t.grant = g
      BY <1>1, <2>0, <3>2
    <3>4. row[Reg(c)] = job[c].env /\ Reg(c) \in Regs
      BY <2>0, <2>3, <3>1, JobTypes DEF Refresh, InCustody, Requested, Resolving
    <3>5. row[Reg(c)] = [token |-> [grant |-> g, n |-> current[g]], aad |-> Reg(c)]
      BY <3>1, <3>3, <3>4 DEF Envelope, Token
    <3> QED BY <3>4, <3>5 DEF InRow
  <2>4. CASE Revoke(c) \/ RevokeFails(c)
    BY <1>1, <2>0, <2>4 DEF Revoke, RevokeFails, TypeOK
  <2>5. CASE LoseRefresh(c) \/ LoseExchange(c)
    <3>1. hand'[c] = NoToken
      BY <2>5 DEF LoseRefresh, LoseExchange, InCustody, Requested, Resolving
    <3> QED BY <1>1, <2>0, <3>1
  <2>6. CASE UNCHANGED <<hand, current>> /\ pc[c] # "answer"
    BY <1>2, <2>0, <2>6
  <2> QED
    BY <1>4, <2>1, <2>2, <2>3, <2>4, <2>5, <2>6
    DEF Progress, Refuse, Proceed, SpentCode, NoGrant, Unreadable, InvalidGrant, Seal, SealFails,
        Published, PublishFails, Report, ReportFails
<1>5. ASSUME NEW d \in Calls, Deliver(d) \/ Lost(d) PROVE InHand(g)
  <2>1. pc'[d] = "done" /\ \A e \in Calls \ {d} :
          pc'[e] = pc[e] /\ hand'[e] = hand[e] /\ sealed'[e] = sealed[e]
    BY <1>5, EndsFrame DEF Deliver, Lost
  <2>2. c # d
    BY <1>1, <2>1 DEF Flying, InFlight
  <2> QED BY <1>1, <1>2, <1>5, <2>1, <2>2 DEF Deliver, Lost, Flying
<1>6. ASSUME NEW d \in Calls, NEW op \in Ops, NEW r \in Regs, Start(d, op, r) PROVE InHand(g)
  <2>1. d # c
    BY <1>1, <1>6 DEF Start, Owned, Tok, NoToken, Grants
  <2>2. pc'[c] = pc[c]
    BY <1>6, <2>1 DEF Start, Goto, TypeOK
  <2> QED BY <1>1, <1>2, <1>6, <2>2 DEF Start, Flying
<1>7. ASSUME NEW h \in Grants, CustomerRevokes(h) PROVE InHand(g)
  <2>1. current'[g] = current[g]
    BY <1>7 DEF CustomerRevokes, TypeOK
  <2> QED BY <1>1, <1>2, <1>7, <2>1 DEF CustomerRevokes, Flying
<1>8. CASE UNCHANGED <<calls, current>>
  BY <1>1, <1>2, <1>8 DEF Flying
<1> QED
  BY <1>3, <1>4, <1>5, <1>6, <1>7, <1>8
  DEF Next, Approve, Misfile, ClientReplaced, ClientReloaded, vars

(* Something befalls one grant at a time, and never without a cause.       *)
LEMMA LapsesCaused ==
  ASSUME TypeOK, Owned, InCustody, [Next]_vars
  PROVE  Custody!Lapses
<1> DEFINE Cause(g) == faults' = faults + 1 \/ outdated \/ Custody!Superseded(g)
<1>1. ASSUME NEW g, Befalls(g), g \in Grants => Cause(g)
      PROVE  Custody!Lapses
  BY <1>1 DEF Befalls, Custody!Lapses
<1>2. CASE lapsed' = lapsed
  BY <1>2 DEF Custody!Lapses
<1>3. ASSUME NEW c \in Calls, Deliver(c) PROVE Custody!Lapses
  <2>1. CASE ~Replaces(c)
    BY <1>2, <1>3, <2>1 DEF Deliver
  <2>2. CASE Replaces(c)
    <3> DEFINE g == row[Reg(c)].token.grant
    <3>1. Reg(c) \in Regs /\ pc[c] = "answer"
      BY <1>3, JobTypes DEF Deliver, Flying, InFlight
    <3>2. row[Reg(c)] # NoEnv /\ row[Reg(c)].aad = Reg(c)
      BY <2>2, <3>1, RegsAssumption DEF Replaces, NoEnv
    <3>3. Exchanged(c)
      BY <2>2, <3>1 DEF Replaces, Exchanged, Stores
    <3>4. PICK h \in Grants : h > g /\ owner[h] = Reg(c)
      BY <3>1, <3>2, <3>3 DEF InCustody, Ahead, Newer
    <3>5. owner[g] = Reg(c)
      BY <3>1, <3>2 DEF Owned, OwnEnv
    <3>6. Befalls(g) /\ Custody!Superseded(g)
      BY <1>3, <2>2, <3>4, <3>5 DEF Deliver, Custody!Superseded
    <3> HIDE DEF g
    <3> QED BY <1>1, <3>6
  <2> QED BY <2>1, <2>2
<1>4. ASSUME NEW c \in Calls, InvalidGrant(c) \/ RevokeFails(c) PROVE Custody!Lapses
  <2>1. PICK g : Befalls(g) \/ lapsed' = lapsed
    BY <1>4 DEF InvalidGrant, RevokeFails
  <2>2. lapsed' = lapsed \/ faults' = faults + 1 \/ outdated
    BY <1>4 DEF InvalidGrant, RevokeFails, Fault, Refused
  <2> QED BY <1>1, <1>2, <2>1, <2>2
<1>5. ASSUME NEW c \in Calls,
             Lost(c) \/ LoseExchange(c) \/ Unreadable(c) \/ LoseRefresh(c) \/ ReportFails(c)
      PROVE  Custody!Lapses
  <2>1. PICK g : Befalls(g) \/ lapsed' = lapsed
    BY <1>5 DEF Lost, LoseExchange, Unreadable, LoseRefresh, ReportFails
  <2>2. lapsed' = lapsed \/ faults' = faults + 1
    BY <1>5 DEF Lost, LoseExchange, Unreadable, LoseRefresh, ReportFails, Fault
  <2> QED BY <1>1, <1>2, <2>1, <2>2
<1> QED
  BY ZenonT(60), <1>2, <1>3, <1>4, <1>5
  DEF Next, Progress, Refuse, Proceed, Exchange, SpentCode, Open, NoGrant, Refresh, Seal, SealFails,
      Published, PublishFails, Report, Revoke, Start, Approve, Misfile, CustomerRevokes,
      ClientReplaced, ClientReloaded, vars

(* No live grant drops out of everybody's hands without a cause: a fault,  *)
(* an OAuth client that the provider refuses, or a later authorization of  *)
(* the same registration; no step costs more than one grant; and none      *)
(* comes back into the engine's hands but through the caller.  So does the *)
(* credential half of every call implement GrantCustody, for any number of *)
(* calls, registrations, grants and causes, as long as the caller makes    *)
(* one call at a time for a registration (write, Orphans, Release,         *)
(* isInvalidGrant, revokeToken).                                           *)
THEOREM CustodyHolds ==
  ASSUME OneAtATime
  PROVE  Spec => ImplementsCustody
<1> DEFINE Map == [g \in Grants |-> custodyOf(g)]
<1>1. ASSUME Init PROVE Custody!Init
  <2>1. \A g \in Grants : g > minted
    BY <1>1 DEF Init, Grants
  <2>2. Map = [g \in Grants |-> "none"]
    BY <2>1, PlaceOf DEF Placed
  <2>3. lapsed = {} /\ faults = 0 /\ outdated = FALSE
    BY <1>1 DEF Init
  <2> QED BY <2>2, <2>3 DEF Custody!Init
<1>2. ASSUME TypeOK, Owned, InCustody, LostLapsed, LostLapsed', [Next]_vars
      PROVE  Custody!Next
  <2>1. ASSUME NEW g \in Grants
        PROVE  \/ Custody!Keep(g) \/ Custody!Take(g) \/ Custody!Give(g)
               \/ Custody!End(g) \/ Custody!Lose(g) \/ Custody!Find(g)
    <3>1. Map[g] = custodyOf(g) /\ Map'[g] = custodyOf(g)'
      OBVIOUS
    <3>2. custodyOf(g)' = "lost" => g \in lapsed'
      BY <1>2 DEF LostLapsed
    <3>3. custodyOf(g) = "lost" => g \in lapsed
      BY <1>2 DEF LostLapsed
    <3>4. /\ ~(g > minted') \/ g > minted
          /\ ~(g > minted) /\ current[g] = 0 => current'[g] = 0
          /\ g > minted /\ ~(g > minted') => ~InRow(g)'
      BY <1>2, GrantsStay
    <3>5. custodyOf(g) = "none" => custodyOf(g)' # "caller"
      BY <3>4, PlaceOf DEF Placed
    <3>6. custodyOf(g) = "ended" => custodyOf(g)' = "ended"
      BY <3>4, PlaceOf DEF Placed
    <3>7. custodyOf(g) = "lost" => custodyOf(g)' # "engine"
      BY <1>2, TakenFromRow, PlaceOf DEF Placed
    <3>8. custodyOf(g) # "none" => custodyOf(g)' # "none"
      BY <3>4, PlaceOf DEF Placed
    <3>9. /\ custodyOf(g) \in {"none", "ended", "engine", "caller", "lost"}
          /\ custodyOf(g)' \in {"none", "ended", "engine", "caller", "lost"}
      BY PlaceOf DEF Placed
    <3> QED
      BY <3>1, <3>2, <3>3, <3>5, <3>6, <3>7, <3>8, <3>9
      DEF Custody!Keep, Custody!Take, Custody!Give, Custody!End, Custody!Lose, Custody!Find,
          Custody!Moves, Custody!Live
  <2>2. Map' \in [Grants -> Custody!Places]
    BY PlaceOf DEF Placed, Custody!Places, Custody!Live
  <2>3. ASSUME NEW g \in Grants, Map[g] # "none" PROVE owner'[g] = owner[g]
    BY <1>2, <2>3, PlaceOf, GrantsStay DEF Placed
  <2>4. Custody!Lapses
    BY <1>2, LapsesCaused
  <2> QED BY <2>1, <2>2, <2>3, <2>4 DEF Custody!Next
<1> QED
  BY <1>1, <1>2, LostIsLapsed, TypeCorrect, OwnedHolds, InCustodyHolds, PTL
  DEF Spec, ImplementsCustody, Custody!Spec
=============================================================================
