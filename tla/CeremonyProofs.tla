--------------------------- MODULE CeremonyProofs ---------------------------
(***************************************************************************)
(* Proofs about Ceremony, for every set of instances and keys, every skew  *)
(* between clocks within ClockAssumption, and every bound.                 *)
(***************************************************************************)
EXTENDS Ceremony, TLAPS

(* A registration has been on a screen.                                    *)
Shown == \A r \in Regs : sealedBy[r] # NoKey => screen[r] \in Plans

Typed == TypeOK /\ Shown

Matched(r) == agreed[r].shown # NoPlan /\ agreed[r].shown = agreed[r].derived

(* An acknowledgement in hand was given on a page still current, and so    *)
(* was the one a sealed state was made with.                               *)
AckEarned == \A r \in Regs :
  /\ ack[r] # NoKey => Matched(r)
  /\ attempt[r].ack => Matched(r)

-----------------------------------------------------------------------------
(* What the records of the module are made of.                             *)

LEMMA DerivedIsPlan ==
  ASSUME TypeOK, NEW i \in Instances, Derives(i)
  PROVE  derivedPlan(i) \in Plans /\ derivedPlan(i) # NoPlan
BY DEF TypeOK, Derives, derivedPlan, Plans, NoPlan, Sources, Keyset

LEMMA HeldKeys ==
  ASSUME TypeOK, NEW i \in Instances
  PROVE  held[i].active \in Keys /\ held[i].keys \subseteq Keys /\ NoKey \notin held[i].keys
BY KeysAssumption DEF TypeOK, Keyset

LEMMA AttemptMade ==
  ASSUME TypeOK, NEW r \in Regs, attempt[r].code # "none" \/ attempt[r] # NoAttempt
  PROVE  attempt[r] \in Attempt
BY DEF TypeOK, NoAttempt

LEMMA HeedsType ==
  ASSUME TypeOK, NEW i \in Instances, NEW r \in Regs, NEW key, NEW err, Heeds(i, r, key, err)
  PROVE  /\ attempt' \in [Regs -> Attempt \union {NoAttempt}]
         /\ gaveUp' \in [Regs -> {"no", "lagging", "malformed", "blameless"}]
         /\ \A s \in Regs : attempt'[s] \in {attempt[s], NoAttempt}
BY DEF Heeds, Cause, TypeOK

-----------------------------------------------------------------------------
LEMMA TypeInit == Init => Typed
<1> SUFFICES ASSUME Init PROVE Typed
  OBVIOUS
<1> USE KeysAssumption, BoundsAssumption DEF Init
<1>1. secret \in Keyset /\ held \in [Instances -> Keyset]
  BY DEF Keyset
<1>2. /\ faults \in 0..MaxFaults /\ source \in [Instances -> Sources \union Broken]
      /\ txt \in {"none", "customer", "engine"}
  BY DEF Sources
<1>3. /\ sealedBy \in [Regs -> Keys \union {NoKey}] /\ screen \in [Regs -> Plans \union {NoPlan}]
      /\ page \in [Regs -> Page \union {NoPage}] /\ ack \in [Regs -> Keys \union {NoKey}]
      /\ gaveUp \in [Regs -> {"no", "lagging", "malformed", "blameless"}]
  OBVIOUS
<1>4. /\ agreed \in [Regs -> [shown : Plans \union {NoPlan}, derived : Plans \union {NoPlan}]]
      /\ attempt \in [Regs -> Attempt \union {NoAttempt}]
      /\ first \in [Regs -> (0..MaxAge) \union {NoWrite}]
  OBVIOUS
<1>5. TypeOK
  BY <1>1, <1>2, <1>3, <1>4 DEF TypeOK
<1>6. Shown
  BY DEF Shown
<1> QED BY <1>5, <1>6 DEF Typed

(* A call that is not refused found its key and came within the window.    *)
LEMMA NotRefused ==
  ASSUME TypeOK, NEW i \in Instances, NEW r \in Regs, attempt[r].code = "issued",
         Refusal(i, r) = {}
  PROVE  attempt[r] \in Attempt /\ InWindow(i, r)
<1>1. attempt[r] \in Attempt
  BY AttemptMade
<1>2. UnknownKey # {} /\ Stale # {}
  BY DEF UnknownKey, Stale
<1> QED BY <1>1, <1>2 DEF Refusal

-----------------------------------------------------------------------------
(* Steps of the deployment and of the customer.                            *)

LEMMA TypeDeployment ==
  ASSUME Typed, NEW i \in Instances,
         Load(i) \/ DelegationFails(i) \/ DelegationRead(i) \/ Misconfigured(i)
  PROVE  Typed'
<1> USE BoundsAssumption DEF Typed, TypeOK, Shown, Fault, consentful, caller, outcome
<1>1. CASE Load(i)
  BY <1>1 DEF Load
<1>2. CASE DelegationFails(i) \/ DelegationRead(i) \/ Misconfigured(i)
  <2>1. /\ source' \in [Instances -> Sources \union Broken] /\ faults' \in 0..MaxFaults
        /\ UNCHANGED <<secret, held, consentful, caller, outcome>>
    <3>1. CASE DelegationFails(i)
      BY <3>1 DEF DelegationFails, Sources
    <3>2. CASE DelegationRead(i)
      BY <3>2 DEF DelegationRead, Sources
    <3>3. CASE Misconfigured(i)
      BY <3>3 DEF Misconfigured
    <3> QED BY <1>2, <3>1, <3>2, <3>3
  <2> QED BY <2>1
<1> QED BY <1>1, <1>2

LEMMA TypeCustomer ==
  ASSUME Typed, NEW r \in Regs, Approve(r) \/ Tick(r) \/ Dawdle(r)
  PROVE  Typed'
<1> USE BoundsAssumption DEF Typed, TypeOK, Shown, Fault, deployment, consentful, outcome
<1>1. CASE Approve(r)
  <2>1. [attempt[r] EXCEPT !.code = "issued"] \in Attempt
    BY <1>1, AttemptMade DEF Approve, Attempt
  <2> QED BY <1>1, <2>1 DEF Approve
<1>2. CASE Tick(r)
  <2>1. [attempt[r] EXCEPT !.age = @ + 1] \in Attempt
    BY SMTT(40), <1>2, AttemptMade, AgeAssumption DEF Tick, Attempt
  <2> QED BY <1>2, <2>1 DEF Tick
<1>3. CASE Dawdle(r)
  <2>1. PICK age \in (AuthStateTTL + 1)..MaxAge :
          attempt' = [attempt EXCEPT ![r] = [attempt[r] EXCEPT !.age = age]]
    BY <1>3 DEF Dawdle
  <2>2. [attempt[r] EXCEPT !.age = age] \in Attempt
    <3>1. AuthStateTTL \in Nat /\ age \in 0..MaxAge
      OBVIOUS
    <3>2. attempt[r] \in Attempt
      BY <1>3, AttemptMade DEF Dawdle
    <3> QED BY <3>1, <3>2 DEF Attempt
  <2>3. attempt' \in [Regs -> Attempt \union {NoAttempt}]
    BY <2>1, <2>2
  <2> QED BY <1>3, <2>3 DEF Dawdle
<1> QED BY <1>1, <1>2, <1>3

(* Steps of the engine.                                                    *)
LEMMA TypeEngine ==
  ASSUME Typed, NEW i \in Instances, NEW r \in Regs,
         \/ register(i, r) \/ Describe(i, r) \/ ConsentPage(i, r) \/ AcknowledgeConsent(i, r)
         \/ Authorize(i, r) \/ Complete(i, r) \/ CompleteRefused(i, r)
         \/ ExchangeFails(i, r) \/ Refused(i, r) \/ Advance(i, r)
  PROVE  Typed'
<1> USE BoundsAssumption DEF Typed, TypeOK, deployment, consentful, caller, outcome
<1>1. CASE register(i, r) \/ Describe(i, r)
  <2>1. derivedPlan(i) \in Plans
    BY <1>1, DerivedIsPlan DEF register, Describe
  <2>2. screen' = [screen EXCEPT ![r] = derivedPlan(i)]
    BY <1>1 DEF register, Describe
  <2>3. sealedBy' \in {sealedBy, [sealedBy EXCEPT ![r] = held[i].active]}
    BY <1>1 DEF register, Describe
  <2>4. sealedBy' \in [Regs -> Keys \union {NoKey}]
    BY <2>3, HeldKeys
  <2>5. screen' \in [Regs -> Plans \union {NoPlan}]
    BY <2>1, <2>2
  <2>6. Shown'
    BY <2>1, <2>2, <2>3 DEF Shown
  <2>7. UNCHANGED <<faults, deployment, page, ack, agreed, caller, outcome>>
    BY <1>1 DEF register, Describe
  <2> QED BY <2>4, <2>5, <2>6, <2>7
<1>2. CASE ConsentPage(i, r)
  <2>1. [plan |-> derivedPlan(i), key |-> held[i].active] \in Page
    BY <1>2, DerivedIsPlan, HeldKeys DEF ConsentPage, Page
  <2> QED BY <1>2, <2>1 DEF ConsentPage, Shown
<1>3. CASE AcknowledgeConsent(i, r)
  <2>1. derivedPlan(i) \in Plans /\ page[r].plan = derivedPlan(i)
    BY <1>3, DerivedIsPlan DEF AcknowledgeConsent, Redeems
  <2> QED BY <1>3, <2>1, HeldKeys DEF AcknowledgeConsent, Shown
<1>4. CASE Authorize(i, r)
  <2>1. \A a \in BOOLEAN : Minted(i, r, a) \in Attempt
    BY <1>4, HeldKeys DEF Authorize, Calls, Shown, Minted, Attempt
  <2> QED BY <1>4, <2>1 DEF Authorize, Shown
<1>5. CASE Complete(i, r)
  <2>1. attempt[r].age \in 0..MaxAge
    BY <1>5, NotRefused DEF Complete, Attempt
  <2> QED BY <1>5, <2>1 DEF Complete, Writes, Shown
<1>6. CASE CompleteRefused(i, r) \/ Refused(i, r)
  BY <1>6, HeedsType DEF CompleteRefused, Refused, Shown
<1>7. CASE ExchangeFails(i, r)
  <2>1. [attempt[r] EXCEPT !.code = "spent"] \in Attempt
    BY <1>7, AttemptMade DEF ExchangeFails, Attempt
  <2> QED BY <1>7, <2>1 DEF ExchangeFails, Fault, Shown
<1>8. CASE Advance(i, r)
  BY <1>8 DEF Advance, Writes, Shown
<1> QED BY <1>1, <1>2, <1>3, <1>4, <1>5, <1>6, <1>7, <1>8

LEMMA TypeStep == Typed /\ [Next]_vars => Typed'
<1> SUFFICES ASSUME Typed, [Next]_vars PROVE Typed'
  OBVIOUS
<1>1. CASE UNCHANGED vars
  BY <1>1 DEF vars, deployment, consentful, caller, outcome, Typed, TypeOK, Shown
<1>2. CASE CustomerEdits
  BY <1>2 DEF CustomerEdits, deployment, consentful, caller, Typed, TypeOK, Shown
<1>3. CASE \E k \in Keys : Rotate(k)
  BY <1>3 DEF Rotate, consentful, caller, outcome, Typed, TypeOK, Shown, Keyset
<1> QED
  BY <1>1, <1>2, <1>3, TypeDeployment, TypeCustomer, TypeEngine DEF Next

LEMMA TypedHolds == Spec => []Typed
BY TypeInit, TypeStep, PTL DEF Spec

(* Every variable keeps its type, so that no digest, page or sealed state  *)
(* is ever of anything but a plan derived from a whole configuration.      *)
THEOREM TypeCorrect == Spec => []TypeOK
<1>1. Typed => TypeOK
  BY DEF Typed
<1> QED BY <1>1, TypedHolds, PTL

-----------------------------------------------------------------------------
(* The acknowledgement.                                                    *)

LEMMA EarnedInit == Init => AckEarned
BY DEF Init, AckEarned, NoAttempt

LEMMA EarnedStep == Typed /\ AckEarned /\ [Next]_vars => AckEarned'
<1> SUFFICES ASSUME Typed, AckEarned, [Next]_vars PROVE AckEarned'
  OBVIOUS
<1> USE DEF AckEarned, Matched, Typed
<1>1. CASE UNCHANGED <<ack, agreed, attempt>>
  BY <1>1
<1>2. ASSUME NEW r \in Regs, Approve(r) \/ Tick(r) \/ Dawdle(r)
      PROVE  AckEarned'
  <2>1. \A s \in Regs : attempt'[s].ack = attempt[s].ack
    <3>1. attempt[r] \in Attempt
      BY <1>2, AttemptMade DEF Approve, Tick, Dawdle
    <3>2. CASE Approve(r)
      BY <3>1, <3>2 DEF Approve, TypeOK, Attempt
    <3>3. CASE Tick(r)
      BY <3>1, <3>3 DEF Tick, TypeOK, Attempt
    <3>4. CASE Dawdle(r)
      BY <3>1, <3>4 DEF Dawdle, TypeOK, Attempt
    <3> QED BY <1>2, <3>2, <3>3, <3>4
  <2> QED BY <1>2, <2>1 DEF Approve, Tick, Dawdle, consentful
<1>3. ASSUME NEW i \in Instances, NEW r \in Regs, AcknowledgeConsent(i, r)
      PROVE  AckEarned'
  <2>1. agreed'[r].shown = derivedPlan(i) /\ agreed'[r].derived = derivedPlan(i)
    BY <1>3 DEF AcknowledgeConsent, Redeems, TypeOK
  <2>2. \A s \in Regs \ {r} : agreed'[s] = agreed[s] /\ ack'[s] = ack[s]
    BY <1>3 DEF AcknowledgeConsent, TypeOK
  <2>3. attempt' = attempt
    BY <1>3 DEF AcknowledgeConsent, caller
  <2> QED BY <1>3, <2>1, <2>2, <2>3, DerivedIsPlan DEF AcknowledgeConsent
<1>4. ASSUME NEW i \in Instances, NEW r \in Regs, Authorize(i, r)
      PROVE  AckEarned'
  <2>1. PICK a \in BOOLEAN : /\ a => \E t \in Regs \union {0} : Verifies(i, r, t)
                             /\ attempt' = [attempt EXCEPT ![r] = Minted(i, r, a)]
    BY <1>4 DEF Authorize
  <2>2. a => ack[r] # NoKey
    <3>1. r # 0
      BY DEF Regs
    <3> QED BY <2>1, <3>1, HeldKeys DEF Verifies, TokenKey
  <2>3. Minted(i, r, a).ack = a
    BY DEF Minted
  <2> QED BY <1>4, <2>1, <2>2, <2>3 DEF Authorize, consentful, TypeOK
<1>5. ASSUME NEW i \in Instances, NEW r \in Regs, CompleteRefused(i, r) \/ Refused(i, r)
      PROVE  AckEarned'
  BY <1>5, HeedsType DEF CompleteRefused, Refused, consentful, NoAttempt
<1>6. ASSUME NEW i \in Instances, NEW r \in Regs, Complete(i, r) \/ ExchangeFails(i, r)
      PROVE  AckEarned'
  <2>1. \A s \in Regs : attempt'[s].ack => attempt[s].ack
    <3>1. attempt[r] \in Attempt /\ NoAttempt.ack = FALSE
      BY <1>6, NotRefused DEF Complete, ExchangeFails, NoAttempt
    <3>2. CASE Complete(i, r)
      BY <3>1, <3>2 DEF Complete, TypeOK
    <3>3. CASE ExchangeFails(i, r)
      BY <3>1, <3>3 DEF ExchangeFails, TypeOK, Attempt
    <3> QED BY <1>6, <3>2, <3>3
  <2> QED BY <1>6, <2>1 DEF Complete, ExchangeFails, consentful
<1> QED
  BY <1>1, <1>2, <1>3, <1>4, <1>5, <1>6
  DEF Next, vars, caller, consentful, CustomerEdits, Rotate, Load, DelegationFails, DelegationRead,
      Misconfigured, register, Describe, ConsentPage, Advance

(* An acknowledgement inside a sealed state was given for that very        *)
(* registration, on a page that was still what the engine would print,     *)
(* however keys rotate and whichever instances take the calls              *)
(* (consent.Challenge, Redeem, Verify).                                    *)
THEOREM AckWasServedHolds == Spec => []AckWasServed
<1>1. AckEarned => AckWasServed
  BY DEF AckEarned, Matched, AckWasServed
<1> QED BY <1>1, EarnedInit, EarnedStep, TypedHolds, PTL DEF Spec

-----------------------------------------------------------------------------
(* The first write.                                                        *)

LEMMA AgeInit == Init => StateAgeBounded
BY BoundsAssumption DEF Init, StateAgeBounded, NoWrite

LEMMA AgeStep == Typed /\ StateAgeBounded /\ [Next]_vars => StateAgeBounded'
<1> SUFFICES ASSUME Typed, StateAgeBounded, [Next]_vars PROVE StateAgeBounded'
  OBVIOUS
<1> USE DEF StateAgeBounded, Typed
<1>1. CASE UNCHANGED first
  BY <1>1
<1>2. ASSUME NEW i \in Instances, NEW r \in Regs, Complete(i, r)
      PROVE  StateAgeBounded'
  <2>1. attempt[r] \in Attempt /\ InWindow(i, r)
    BY <1>2, NotRefused DEF Complete
  <2>2. attempt[r].age <= 2 * AuthStateTTL
    <3>1. attempt[r].age \in Int /\ attempt[r].by \in Instances /\ AuthStateTTL \in Int
      BY <2>1, BoundsAssumption DEF Attempt
    <3>2. PICK a \in Int, b \in Int : a = Skew[i] /\ b = Skew[attempt[r].by]
      BY <3>1, ClockAssumption
    <3>3. b - a <= AuthStateTTL /\ attempt[r].age + a - b <= AuthStateTTL
      BY <2>1, <3>1, <3>2, ClockAssumption DEF InWindow, Age
    <3> QED BY <3>1, <3>2, <3>3
  <2>3. first'[r] = attempt[r].age
    BY <1>2, <2>1 DEF Complete, TypeOK
  <2>4. \A s \in Regs \ {r} : first'[s] = first[s]
    BY <1>2 DEF Complete, TypeOK
  <2> QED BY <2>2, <2>3, <2>4
<1> QED
  BY <1>1, <1>2
  DEF Next, vars, outcome, CustomerEdits, Rotate, Load, DelegationFails, DelegationRead,
      Misconfigured, Approve, Tick, Dawdle, register, Describe, ConsentPage, AcknowledgeConsent,
      Authorize, CompleteRefused, ExchangeFails, Refused, Advance

(* No write rests on an authorization older than two windows, as long as   *)
(* no two clocks are a window apart (sealed.OpenAuthState).                *)
THEOREM StateAgeBoundedHolds == Spec => []StateAgeBounded
BY AgeInit, AgeStep, TypedHolds, PTL DEF Spec

-----------------------------------------------------------------------------
(* What makes the caller give up.                                          *)

LEMMA FirstDecides ==
  ASSUME NEW err, NEW n \in DOMAIN Arms, Finds(n, err), \A k \in 1..(n - 1) : ~Finds(k, err)
  PROVE  errorCode(err) = Arms[n].code
<1>1. DOMAIN Arms = 1..12
  BY DEF Arms
<1>2. \A m \in DOMAIN Arms : Finds(m, err) /\ (\A k \in 1..(m - 1) : ~Finds(k, err)) => m = n
  <2> SUFFICES ASSUME NEW m \in DOMAIN Arms, Finds(m, err), \A k \in 1..(m - 1) : ~Finds(k, err)
               PROVE  m = n
    OBVIOUS
  <2>1. m \in 1..12 /\ n \in 1..12
    BY <1>1
  <2>2. ~(m < n) /\ ~(n < m)
    BY <2>1
  <2> QED BY <2>1, <2>2
<1>3. FirstArm(err) = n
  BY <1>2 DEF FirstArm
<1> QED BY <1>3 DEF errorCode

(* An expired state, a plan that moved and a deployment that lacks a       *)
(* variable have a code of their own, though each chain holds a general    *)
(* refusal.                                                                *)
LEMMA Forgiven ==
  /\ ~GivesUp(errorCode(Stale)) /\ ~GivesUp(errorCode(PlanChanged))
  /\ ~GivesUp(errorCode(deriveError(ConfigError)))
<1>1. errorCode(Stale) = "state_expired"
  <2>1. Finds(2, Stale) /\ ~Finds(1, Stale) /\ 2 \in DOMAIN Arms /\ Arms[2].code = "state_expired"
    BY DEF Finds, Arms, Arm, Stale
  <2> QED BY <2>1, FirstDecides
<1>2. errorCode(PlanChanged) = "plan_changed"
  <2>1. /\ Finds(8, PlanChanged) /\ 8 \in DOMAIN Arms /\ Arms[8].code = "plan_changed"
        /\ \A k \in 1..7 : ~Finds(k, PlanChanged)
    BY DEF Finds, Arms, Arm, PlanChanged
  <2> QED BY <2>1, FirstDecides
<1>3. errorCode(deriveError(ConfigError)) = "unavailable"
  <2>1. deriveError(ConfigError) = {"ErrConfig", "ErrDerive", "ErrUnavailable"}
    BY DEF deriveError, ConfigError
  <2>2. /\ Finds(5, deriveError(ConfigError)) /\ 5 \in DOMAIN Arms /\ Arms[5].code = "unavailable"
        /\ \A k \in 1..4 : ~Finds(k, deriveError(ConfigError))
    BY <2>1 DEF Finds, Arms, Arm
  <2> QED BY <2>2, FirstDecides
<1> QED BY <1>1, <1>2, <1>3 DEF GivesUp

(* Every key in use was written by the operator, and none was ever         *)
(* dropped.                                                                *)
Keyring ==
  /\ FirstKey \in secret.keys
  /\ \A i \in Instances : FirstKey \in held[i].keys /\ held[i].keys \subseteq secret.keys
  /\ \A r \in Regs : /\ sealedBy[r] # NoKey => sealedBy[r] \in secret.keys
                     /\ attempt[r] # NoAttempt => attempt[r].key \in secret.keys

(* A list is mistyped by a fault only.                                     *)
Mistyped == \A i \in Instances : source[i] = "malformed" => faults > 0

Lossless == Keyring /\ LostToTheDeployment

LEMMA LosslessInit == Init => Lossless
BY KeysAssumption DEF Init, Lossless, Keyring, LostToTheDeployment

(* Faults are only counted up.                                             *)
LEMMA FaultsGrow == Typed /\ [Next]_vars => faults \in Nat /\ faults' \in Nat /\ faults <= faults'
<1> SUFFICES ASSUME Typed, [Next]_vars PROVE faults \in Nat /\ faults' \in Nat /\ faults <= faults'
  OBVIOUS
<1>1. faults \in Nat
  BY BoundsAssumption DEF Typed, TypeOK
<1>2. faults' = faults \/ faults' = faults + 1
  BY DEF Next, vars, CustomerEdits, Rotate, Load, DelegationFails, DelegationRead, Misconfigured, Fault,
         Approve, Tick, Dawdle, register, Describe, ConsentPage, AcknowledgeConsent, Authorize,
         Complete, CompleteRefused, ExchangeFails, Refused, Advance
<1> QED BY <1>1, <1>2

LEMMA MistypedInit == Init => Mistyped
BY DEF Init, Mistyped

LEMMA MistypedStep == Typed /\ Mistyped /\ [Next]_vars => Mistyped'
<1> SUFFICES ASSUME Typed, Mistyped, [Next]_vars PROVE Mistyped'
  OBVIOUS
<1>1. CASE UNCHANGED source
  BY <1>1, FaultsGrow DEF Mistyped
<1>2. ASSUME NEW i \in Instances, Misconfigured(i)
      PROVE  Mistyped'
  BY <1>2, FaultsGrow DEF Misconfigured, Fault, Mistyped
<1>3. ASSUME NEW i \in Instances, DelegationFails(i) \/ DelegationRead(i)
      PROVE  Mistyped'
  <2>1. \A j \in Instances : source'[j] \in {source[j], "cloudflare", "config"}
    BY <1>3 DEF DelegationFails, DelegationRead, Typed, TypeOK
  <2> QED BY <2>1, FaultsGrow DEF Mistyped
<1> QED
  BY <1>1, <1>2, <1>3
  DEF Next, vars, deployment, CustomerEdits, Rotate, Load, Approve, Tick, Dawdle, register, Describe,
      ConsentPage, AcknowledgeConsent, Authorize, Complete, CompleteRefused, ExchangeFails,
      Refused, Advance

(* The refusal whose word is to give up is that of a key the instance has  *)
(* not loaded, and then the secret holds more than the first key, or of a  *)
(* mistyped list.                                                          *)
LEMMA HeedsLossless ==
  ASSUME TypeOK, Lossless, NEW i \in Instances, NEW r \in Regs, NEW key \in secret.keys, NEW err,
         Heeds(i, r, key, err),
         \/ key \notin held[i].keys
         \/ "lane.ErrInvalid" \in err /\ faults > 0
         \/ ~GivesUp(errorCode(err)),
         UNCHANGED <<faults, deployment, sealedBy>>
  PROVE  Lossless'
<1>1. \A s \in Regs : attempt'[s] \in {attempt[s], NoAttempt}
  BY HeedsType
<1>2. Keyring'
  BY <1>1 DEF deployment, Lossless, Keyring
<1>3. \/ gaveUp' = gaveUp
      \/ key \notin held[i].keys /\ gaveUp' = [gaveUp EXCEPT ![r] = "lagging"]
      \/ faults > 0 /\ gaveUp' = [gaveUp EXCEPT ![r] = "malformed"]
  BY DEF Heeds, Cause
<1>4. key \notin held[i].keys => secret.keys # {FirstKey}
  BY DEF Lossless, Keyring
<1>5. LostToTheDeployment'
  BY <1>3, <1>4 DEF deployment, Lossless, LostToTheDeployment, TypeOK
<1> QED BY <1>2, <1>5 DEF Lossless

(* What an instance that does not derive answers loses a domain only over  *)
(* a mistyped list.                                                        *)
LEMMA NotDerivedCause ==
  ASSUME TypeOK, Mistyped, NEW i \in Instances, ~Derives(i)
  PROVE  \/ "lane.ErrInvalid" \in NotDerived(i) /\ faults > 0
         \/ ~GivesUp(errorCode(NotDerived(i)))
<1>1. source[i] \in Broken
  BY DEF TypeOK, Derives
<1>2. CASE source[i] = "incomplete"
  BY <1>2, Forgiven DEF NotDerived
<1>3. CASE source[i] = "malformed"
  BY <1>3 DEF NotDerived, MalformedList, deriveError, Mistyped
<1> QED BY <1>1, <1>2, <1>3 DEF Broken

LEMMA LosslessStep == Typed /\ Mistyped /\ Lossless /\ [Next]_vars => Lossless'
<1> SUFFICES ASSUME Typed, Mistyped, Lossless, [Next]_vars PROVE Lossless'
  OBVIOUS
<1>0. TypeOK
  BY DEF Typed
<1>a. faults > 0 => faults' > 0
  BY FaultsGrow
<1>1. CASE UNCHANGED <<secret, held, sealedBy, attempt, gaveUp>>
  BY <1>1, <1>a DEF Lossless, Keyring, LostToTheDeployment
<1>2. ASSUME NEW k \in Keys, Rotate(k)
      PROVE  Lossless'
  <2>1. secret'.keys = secret.keys \union {k} /\ k \notin secret.keys
    BY <1>2 DEF Rotate
  <2> QED BY <1>2, <2>1 DEF Rotate, caller, consentful, Lossless, Keyring, LostToTheDeployment
<1>3. ASSUME NEW i \in Instances, Load(i)
      PROVE  Lossless'
  BY <1>0, <1>3 DEF Load, caller, consentful, TypeOK, Lossless, Keyring, LostToTheDeployment
<1>4. ASSUME NEW r \in Regs, Approve(r) \/ Tick(r) \/ Dawdle(r)
      PROVE  Lossless'
  <2>1. attempt[r] \in Attempt
    BY <1>0, <1>4, AttemptMade DEF Approve, Tick, Dawdle
  <2>2. \A s \in Regs : attempt'[s].key = attempt[s].key /\ (s # r => attempt'[s] = attempt[s])
    <3>1. CASE Approve(r)
      BY <1>0, <2>1, <3>1 DEF Approve, TypeOK, Attempt
    <3>2. CASE Tick(r)
      BY <1>0, <2>1, <3>2 DEF Tick, TypeOK, Attempt
    <3>3. CASE Dawdle(r)
      BY <1>0, <2>1, <3>3 DEF Dawdle, TypeOK, Attempt
    <3> QED BY <1>4, <3>1, <3>2, <3>3
  <2>3. attempt[r] # NoAttempt
    BY <1>4 DEF Approve, Tick, Dawdle
  <2> QED BY <1>4, <1>a, <2>2, <2>3 DEF Approve, Tick, Dawdle, deployment, consentful, Lossless, Keyring,
                                       LostToTheDeployment
<1>5. ASSUME NEW i \in Instances, NEW r \in Regs, register(i, r) \/ Authorize(i, r)
      PROVE  Lossless'
  <2>1. held[i].active \in secret.keys
    BY <1>0 DEF TypeOK, Keyset, Lossless, Keyring
  <2>2. CASE register(i, r)
    BY <1>0, <2>1, <2>2 DEF register, deployment, caller, TypeOK, Lossless, Keyring, LostToTheDeployment
  <2>3. CASE Authorize(i, r)
    BY <1>0, <2>1, <2>3 DEF Authorize, Minted, deployment, consentful, TypeOK, Lossless, Keyring,
                            LostToTheDeployment
  <2> QED BY <1>5, <2>2, <2>3
<1>6. ASSUME NEW i \in Instances, NEW r \in Regs, Refused(i, r)
      PROVE  Lossless'
  <2>1. sealedBy[r] \in secret.keys
    BY <1>6 DEF Refused, Calls, Lossless, Keyring
  <2>2. CASE openRegistration(i, r)
    BY <1>0, <1>6, <2>1, <2>2, NotDerivedCause, HeedsLossless DEF Refused, consentful
  <2>3. CASE ~openRegistration(i, r)
    BY <1>0, <1>6, <2>1, <2>3, HeedsLossless DEF Refused, openRegistration, consentful
  <2> QED BY <2>2, <2>3
<1>7. ASSUME NEW i \in Instances, NEW r \in Regs, CompleteRefused(i, r)
      PROVE  Lossless'
  <2>1. attempt[r].key \in secret.keys
    BY <1>7 DEF CompleteRefused, NoAttempt, Lossless, Keyring
  <2>2. \/ attempt[r].key \notin held[i].keys
        \/ "lane.ErrInvalid" \in Refusal(i, r) /\ faults > 0
        \/ ~GivesUp(errorCode(Refusal(i, r)))
    BY <1>0, <1>7, Forgiven, NotDerivedCause DEF CompleteRefused, Refusal
  <2> QED BY <1>0, <1>7, <2>1, <2>2, HeedsLossless DEF CompleteRefused, consentful
<1>8. ASSUME NEW i \in Instances, NEW r \in Regs, Complete(i, r) \/ ExchangeFails(i, r)
      PROVE  Lossless'
  <2>1. attempt[r] \in Attempt
    BY <1>0, <1>8, NotRefused DEF Complete, ExchangeFails
  <2>2. attempt[r] # NoAttempt
    BY <1>8 DEF Complete, ExchangeFails, NoAttempt
  <2>3. \/ attempt' = [attempt EXCEPT ![r] = NoAttempt]
        \/ attempt' = [attempt EXCEPT ![r].code = "spent"]
    BY <1>8 DEF Complete, ExchangeFails
  <2>4. \A s \in Regs : attempt'[s] # NoAttempt =>
                          attempt[s] # NoAttempt /\ attempt'[s].key = attempt[s].key
    BY <1>0, <2>1, <2>2, <2>3 DEF TypeOK, Attempt
  <2> QED BY <1>8, <1>a, <2>4 DEF Complete, ExchangeFails, deployment, consentful, Lossless, Keyring,
                            LostToTheDeployment
<1> QED
  BY <1>1, <1>2, <1>3, <1>4, <1>5, <1>6, <1>7, <1>8
  DEF Next, vars, deployment, caller, consentful, CustomerEdits, DelegationFails, DelegationRead,
      Misconfigured, Describe, ConsentPage, AcknowledgeConsent, Advance

(* A domain is given up only over the deployment: a key that the instance  *)
(* which answered had not loaded yet, after a rotation, or a list that the *)
(* operator mistyped; no clock, no moved plan, no missing variable and no  *)
(* failed exchange loses one (errorCode, deriveError, OpenAuthState,       *)
(* lane.ValidateDomainExempt).                                             *)
THEOREM LostToTheDeploymentHolds == Spec => []LostToTheDeployment
<1>1. Lossless => LostToTheDeployment
  BY DEF Lossless
<1> QED
  BY <1>1, LosslessInit, LosslessStep, MistypedInit, MistypedStep, TypedHolds, PTL DEF Spec
=============================================================================
