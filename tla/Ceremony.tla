------------------------------ MODULE Ceremony ------------------------------
(***************************************************************************)
(* From a registration to the first write: internal/intent's register,     *)
(* Describe, ConsentPage, AcknowledgeConsent, Authorize, Complete and      *)
(* Advance, with the envelopes of internal/sealed and the MACs of          *)
(* internal/consent and internal/proof, on the lane that has a page.       *)
(*                                                                         *)
(* Nothing is stored by the engine: what a step knows of an earlier one    *)
(* came back in an envelope or a MAC.  What varies under it is what the    *)
(* instances derive from - the keyset each has loaded, which decides the   *)
(* proof record's value, where each took the DCV identifier from, and      *)
(* whether its environment is in order - so two instances, or one at two   *)
(* moments, may derive two plans, or none.  A refusal reaches the caller   *)
(* as one of Dispatch's codes, and the caller acts on the code alone.      *)
(*                                                                         *)
(* Every registration here is of one domain: registering again mints a new *)
(* reference.  Credentials are GrantLifecycle's, the zone is Reconcile's.  *)
(***************************************************************************)
EXTENDS Dispatch, FiniteSets

CONSTANTS Instances, Keys,
          FirstKey,      \* the key active at the start
          Skew,          \* what an instance's clock shows beyond true time
          AuthStateTTL,  \* sealed.AuthStateTTL, in ticks
          MaxRegs,       \* bound: registrations ever made
          MaxAge,        \* bound: the age of the oldest attempt
          MaxFaults      \* bound: unreadable DCV identifiers, failed exchanges,
                         \* misconfigured instances, late customers

Regs    == 1..MaxRegs
Sources == {"cloudflare", "config"}  \* deriveFor: which identifier won

(* The environment is wrong: a variable derivation needs is missing, or an *)
(* entry of the reserved or the exempt list is mistyped.                   *)
Broken  == {"incomplete", "malformed"}

(* A keyset, and a derived plan: all that tells two plans of one           *)
(* registration apart is the DCV identifier and the proof value's key.     *)
Keyset  == {k \in [active : Keys, keys : SUBSET Keys] : k.active \in k.keys}
Plans   == [dcv : Sources, proof : Keys]
NoPlan  == [dcv |-> "none", proof |-> "none"]
NoKey   == "none"

(* The disclosure served last, and what its challenge was minted under.    *)
Page    == [plan : Plans, key : Keys]
NoPage  == [plan |-> NoPlan, key |-> NoKey]

(* A sealed auth state, with the digest its caller goes on to send.  Time  *)
(* is the attempt's true age; the instance that stamped it tells by whose  *)
(* clock.                                                                  *)
Attempt == [key : Keys, by : Instances, ack : BOOLEAN, digest : Plans,
            code : {"none", "issued", "spent"}, age : 0..MaxAge]
NoAttempt == [key |-> NoKey, by |-> "none", ack |-> FALSE, digest |-> NoPlan,
              code |-> "none", age |-> 0]

(* Nothing was written for a registration yet.                             *)
NoWrite == -1

ASSUME KeysAssumption   == FirstKey \in Keys /\ NoKey \notin Keys
ASSUME BoundsAssumption == {MaxRegs, MaxAge, MaxFaults, AuthStateTTL} \subseteq Nat
ASSUME AgeAssumption    == MaxAge > 2 * AuthStateTTL
ASSUME ClockAssumption  == /\ Skew \in [Instances -> Int]
                           /\ \A i, j \in Instances : Skew[i] - Skew[j] <= AuthStateTTL

VARIABLES
  faults,
  secret,    \* the keyset as the operator last wrote it
  held,      \* instance -> the keyset it last loaded
  source,    \* instance -> where it last took the DCV identifier from, or
             \* what is wrong with its environment
  sealedBy,  \* registration -> the key its envelope is sealed under
  screen,    \* registration -> the plan the caller last rendered
  page,      \* registration -> the consent page served last
  ack,       \* registration -> the key of the acknowledgement in hand
  agreed,    \* history: registration -> the plan on the page redeemed, and
             \* the one derived when it was
  attempt,   \* registration -> the authorization in progress
  gaveUp,    \* registration -> whether the caller gave up on the domain, and
             \* (history) what the refusal was for
  first,     \* registration -> the true age of the authorization its first
             \* write rested on; NoWrite before
  txt        \* who published the proof record that stands at the anchor

deployment == <<secret, held, source>>
consentful == <<sealedBy, screen, page, ack, agreed>>
outcome    == <<first, txt>>
caller     == <<attempt, gaveUp>>
vars == <<faults, deployment, consentful, caller, outcome>>

TypeOK ==
  /\ faults \in 0..MaxFaults
  /\ secret \in Keyset /\ held \in [Instances -> Keyset]
  /\ source \in [Instances -> Sources \union Broken]
  /\ sealedBy \in [Regs -> Keys \union {NoKey}]
  /\ screen \in [Regs -> Plans \union {NoPlan}]
  /\ page \in [Regs -> Page \union {NoPage}]
  /\ ack \in [Regs -> Keys \union {NoKey}]
  /\ agreed \in [Regs -> [shown : Plans \union {NoPlan}, derived : Plans \union {NoPlan}]]
  /\ attempt \in [Regs -> Attempt \union {NoAttempt}]
  /\ gaveUp \in [Regs -> {"no", "lagging", "malformed", "blameless"}]
  /\ first \in [Regs -> (0..MaxAge) \union {NoWrite}] /\ txt \in {"none", "customer", "engine"}

Init ==
  /\ faults = 0
  /\ secret = [active |-> FirstKey, keys |-> {FirstKey}]
  /\ held = [i \in Instances |-> secret] /\ source = [i \in Instances |-> "cloudflare"]
  /\ sealedBy = [r \in Regs |-> NoKey]   /\ screen = [r \in Regs |-> NoPlan]
  /\ page = [r \in Regs |-> NoPage]      /\ ack = [r \in Regs |-> NoKey]
  /\ agreed = [r \in Regs |-> [shown |-> NoPlan, derived |-> NoPlan]]
  /\ attempt = [r \in Regs |-> NoAttempt]
  /\ gaveUp = [r \in Regs |-> "no"]
  /\ first = [r \in Regs |-> NoWrite] /\ txt = "none"

Fault == faults < MaxFaults /\ faults' = faults + 1

-----------------------------------------------------------------------------
(* The deployment.                                                         *)

(* Time passes for an attempt: within the window, or - the customer comes  *)
(* back hours later, the caller tries a spent code over and over - beyond. *)
Tick(r) ==
  /\ attempt[r] # NoAttempt
  /\ attempt[r].age < IF attempt[r].code = "spent" THEN MaxAge ELSE AuthStateTTL
  /\ attempt' = [attempt EXCEPT ![r].age = @ + 1]
  /\ UNCHANGED <<faults, deployment, consentful, gaveUp, outcome>>

Dawdle(r) ==
  /\ attempt[r] # NoAttempt /\ attempt[r].age <= AuthStateTTL /\ Fault
  /\ \E age \in (AuthStateTTL + 1)..MaxAge : attempt' = [attempt EXCEPT ![r].age = age]
  /\ UNCHANGED <<deployment, consentful, gaveUp, outcome>>

(* A code was exchanged for it.                                            *)
granted(r) == first[r] # NoWrite

(* The operator adds a key and makes it active; no key is ever dropped.    *)
Rotate(k) ==
  /\ k \notin secret.keys
  /\ secret' = [active |-> k, keys |-> secret.keys \union {k}]
  /\ UNCHANGED <<faults, held, source, consentful, caller, outcome>>

(* The loader's TTL runs out and the secret is read again.                 *)
Load(i) ==
  /\ held[i] # secret /\ held' = [held EXCEPT ![i] = secret]
  /\ UNCHANGED <<faults, secret, source, consentful, caller, outcome>>

(* deriveFor: a failed read leaves the configured identifier standing,     *)
(* which is taken to differ from the one Cloudflare reports.               *)
DelegationFails(i) ==
  /\ source[i] = "cloudflare" /\ Fault /\ source' = [source EXCEPT ![i] = "config"]
  /\ UNCHANGED <<secret, held, consentful, caller, outcome>>

(* An instance comes up without a variable derivation needs, or with a     *)
(* mistyped list, until the operator restores it.                          *)
Misconfigured(i) ==
  /\ source[i] \in Sources /\ Fault
  /\ \E broken \in Broken : source' = [source EXCEPT ![i] = broken]
  /\ UNCHANGED <<secret, held, consentful, caller, outcome>>

DelegationRead(i) ==
  /\ source[i] # "cloudflare" /\ source' = [source EXCEPT ![i] = "cloudflare"]
  /\ UNCHANGED <<faults, secret, held, consentful, caller, outcome>>

(* Mutant: the proof value is computed before the keyset is read.          *)
derivedUnkeyed(i) == [dcv |-> source[i], proof |-> NoKey]

derivedPlan(i) == [dcv |-> source[i], proof |-> held[i].active]

Derives(i) == source[i] \in Sources

(* What the one that does not derive answers.  A variable that is missing  *)
(* is the deployment's fault; a list that is mistyped is answered as the   *)
(* request's.                                                              *)
NotDerived(i) == deriveError(IF source[i] = "incomplete" THEN ConfigError ELSE MalformedList)

(* Envelopes open, and MACs verify, under any key of the keyset.           *)
openRegistration(i, r) == sealedBy[r] \in held[i].keys

(* What was really wrong where a call was refused: the key was not loaded  *)
(* yet, the operator mistyped a list, or nothing that loses a domain.      *)
Cause(i, key, err) ==
  IF key \notin held[i].keys THEN "lagging"
  ELSE IF "lane.ErrInvalid" \in err THEN "malformed" ELSE "blameless"

(* What the caller makes of a refusal.  The word is all it has: the cause  *)
(* it cannot know.                                                         *)
Heeds(i, r, key, err) ==
  LET code == errorCode(err) IN
  /\ attempt' = IF Retries(code) THEN attempt ELSE [attempt EXCEPT ![r] = NoAttempt]
  /\ gaveUp' = IF GivesUp(code) THEN [gaveUp EXCEPT ![r] = Cause(i, key, err)] ELSE gaveUp

(* The caller has a registration to show, and has not given up on it.      *)
Calls(r) == sealedBy[r] # NoKey /\ gaveUp[r] = "no"

(* Any call on it that lands where its envelope does not open, or where    *)
(* nothing can be derived.                                                 *)
Refused(i, r) ==
  /\ Calls(r) /\ ~(openRegistration(i, r) /\ Derives(i))
  /\ Heeds(i, r, sealedBy[r], IF openRegistration(i, r) THEN NotDerived(i) ELSE UnknownKey)
  /\ UNCHANGED <<faults, deployment, consentful, outcome>>

-----------------------------------------------------------------------------
(* register, Describe, and the consent page.                               *)

register(i, r) ==
  /\ Derives(i) /\ sealedBy[r] = NoKey /\ \A s \in 1..(r - 1) : sealedBy[s] # NoKey
  /\ sealedBy' = [sealedBy EXCEPT ![r] = held[i].active]
  /\ screen' = [screen EXCEPT ![r] = derivedPlan(i)]
  /\ UNCHANGED <<faults, deployment, page, ack, agreed, caller, outcome>>

(* Describe returns the digest too: the caller renders the plan again.     *)
Describe(i, r) ==
  /\ Calls(r) /\ openRegistration(i, r) /\ Derives(i) /\ screen[r] # derivedPlan(i)
  /\ screen' = [screen EXCEPT ![r] = derivedPlan(i)]
  /\ UNCHANGED <<faults, deployment, sealedBy, page, ack, agreed, caller, outcome>>

ConsentPage(i, r) ==
  /\ Calls(r) /\ openRegistration(i, r) /\ Derives(i)
  /\ page' = [page EXCEPT ![r] = [plan |-> derivedPlan(i), key |-> held[i].active]]
  /\ UNCHANGED <<faults, deployment, sealedBy, screen, ack, agreed, caller, outcome>>

(* Mutant: the challenge's MAC is checked, the bytes it binds are not.     *)
RedeemsAnyPage(i, r) == page[r].key \in held[i].keys

(* The challenge binds the disclosure's bytes, so it redeems only while    *)
(* the redeeming instance derives the plan that was printed.               *)
Redeems(i, r) == page[r].key \in held[i].keys /\ page[r].plan = derivedPlan(i)

AcknowledgeConsent(i, r) ==
  /\ Calls(r) /\ openRegistration(i, r) /\ Derives(i) /\ Redeems(i, r)
  /\ ack' = [ack EXCEPT ![r] = held[i].active]
  /\ agreed' = [agreed EXCEPT ![r] = [shown |-> page[r].plan, derived |-> derivedPlan(i)]]
  /\ UNCHANGED <<faults, deployment, sealedBy, screen, page, caller, outcome>>

-----------------------------------------------------------------------------
(* Authorize.  The proof is looked up: a lookup that fails refuses the     *)
(* call, an absent proof no longer does.  An acknowledgement is not        *)
(* required on any lane, but one that is supplied must verify.             *)

(* An acknowledgement is a MAC over the reference sealed into ONE          *)
(* registration; the caller may offer the one it holds for this, for       *)
(* another, or - 0 - for a registration made before all of these.          *)
TokenKey(t) == IF t = 0 THEN FirstKey ELSE ack[t]

(* Mutant: the reference is taken from beside the token, not the seal.     *)
VerifiesAnyReference(i, r, t) == TokenKey(t) \in held[i].keys

Verifies(i, r, t) == t = r /\ TokenKey(t) \in held[i].keys

Minted(i, r, acknowledged) ==
  [key |-> held[i].active, by |-> i, ack |-> acknowledged,
   digest |-> screen[r], code |-> "none", age |-> 0]

Authorize(i, r) ==
  /\ Calls(r) /\ openRegistration(i, r) /\ attempt[r] = NoAttempt /\ ~granted(r)
  /\ \E acknowledged \in BOOLEAN :
       /\ acknowledged => \E t \in Regs \union {0} : Verifies(i, r, t)
       /\ attempt' = [attempt EXCEPT ![r] = Minted(i, r, acknowledged)]
  /\ UNCHANGED <<faults, deployment, consentful, gaveUp, outcome>>

(* The customer authorizes on the provider's screen.                       *)
Approve(r) ==
  /\ attempt[r] # NoAttempt /\ attempt[r].code = "none"
  /\ attempt' = [attempt EXCEPT ![r].code = "issued"]
  /\ UNCHANGED <<faults, deployment, consentful, gaveUp, outcome>>

-----------------------------------------------------------------------------
(* Complete, on whichever instance the call lands.                         *)

(* What the opening instance makes of it: its clock less the stamp.        *)
Age(i, r) == attempt[r].age + Skew[i] - Skew[attempt[r].by]

(* Mutant: bounded behind, not ahead, with the tolerance on the wrong side.*)
InWindowLate(i, r) == Age(i, r) <= 2 * AuthStateTTL

InWindow(i, r) == Age(i, r) <= AuthStateTTL /\ Age(i, r) >= -AuthStateTTL

Reproduces(i, r) == derivedPlan(i) = attempt[r].digest

(* The write set holds the proof record.                                   *)
Writes == txt' = "engine"

(* Why Complete refuses before the exchange, if it does (OpenAuthState,    *)
(* derivedPlan, the digest).  An absent proof, and a lookup that failed,   *)
(* are warnings.                                                           *)
Refusal(i, r) ==
  IF attempt[r].key \notin held[i].keys THEN UnknownKey
  ELSE IF ~InWindow(i, r) THEN Stale
  ELSE IF ~Derives(i) THEN NotDerived(i)
  ELSE IF ~Reproduces(i, r) THEN PlanChanged ELSE {}

Complete(i, r) ==
  /\ attempt[r].code = "issued" /\ Refusal(i, r) = {}
  /\ Writes
  /\ first' = [first EXCEPT ![r] = attempt[r].age]
  /\ attempt' = [attempt EXCEPT ![r] = NoAttempt]
  /\ UNCHANGED <<faults, deployment, consentful, gaveUp>>

CompleteRefused(i, r) ==
  /\ attempt[r].code \in {"issued", "spent"} /\ Refusal(i, r) # {}
  /\ Heeds(i, r, attempt[r].key, Refusal(i, r))
  /\ UNCHANGED <<faults, deployment, consentful, outcome>>

(* The exchange fails.  The code is spent where the provider was reached,  *)
(* and the word is one that means nothing was consumed: the same call is   *)
(* made again, and fails again, until the state expires.                   *)
ExchangeFails(i, r) ==
  /\ attempt[r].code = "issued" /\ Refusal(i, r) = {} /\ Fault
  /\ attempt' = IF Retries(errorCode(ExchangeFailed)) THEN [attempt EXCEPT ![r].code = "spent"]
                ELSE [attempt EXCEPT ![r] = NoAttempt]
  /\ UNCHANGED <<deployment, consentful, gaveUp, outcome>>

(* One pass of Advance.  It takes no digest, and warns of an absent proof  *)
(* as Complete does.                                                       *)
Advance(i, r) ==
  /\ granted(r) /\ Calls(r) /\ openRegistration(i, r) /\ Derives(i) /\ Writes
  /\ UNCHANGED <<faults, deployment, consentful, caller, first>>

(* The customer removes the proof record, or publishes the value on screen.*)
CustomerEdits ==
  /\ \E w \in {"none", "customer"} : w # txt /\ txt' = w
  /\ \E r \in Regs : screen[r] # NoPlan
  /\ UNCHANGED <<faults, deployment, consentful, caller, first>>

-----------------------------------------------------------------------------
Next ==
  \/ CustomerEdits
  \/ \E k \in Keys : Rotate(k)
  \/ \E i \in Instances : Load(i) \/ DelegationFails(i) \/ DelegationRead(i) \/ Misconfigured(i)
  \/ \E r \in Regs : Approve(r) \/ Tick(r) \/ Dawdle(r)
  \/ \E i \in Instances, r \in Regs :
       \/ register(i, r) \/ Describe(i, r) \/ ConsentPage(i, r) \/ AcknowledgeConsent(i, r)
       \/ Authorize(i, r) \/ Complete(i, r) \/ CompleteRefused(i, r)
       \/ ExchangeFails(i, r) \/ Refused(i, r) \/ Advance(i, r)

Spec == Init /\ [][Next]_vars

(* A caller who starts again whenever it is told to, a customer who keeps  *)
(* approving, loaders whose TTL runs out, a Cloudflare that answers in the *)
(* end, and calls that are not routed for ever to the one instance whose   *)
(* clock refuses them.  Time passes for a caller that retries.  Nothing    *)
(* else is owed - no rotation, no page, no call that would be refused.     *)
FairSpec ==
  /\ Spec
  /\ \A i \in Instances : WF_vars(Load(i)) /\ WF_vars(DelegationRead(i))
  /\ \A r \in Regs :
       /\ WF_vars(\E i \in Instances : Describe(i, r))
       /\ WF_vars(\E i \in Instances : Authorize(i, r))
       /\ WF_vars(Approve(r))
       /\ WF_vars(attempt[r].code = "spent" /\ Tick(r))
       /\ WF_vars(\E i \in Instances : Complete(i, r) \/ CompleteRefused(i, r))
       /\ SF_vars(\E i \in Instances : Complete(i, r))

-----------------------------------------------------------------------------
(* An acknowledgement inside a sealed state was given for THIS             *)
(* registration, on a page whose bytes were still what the engine would    *)
(* write when it was given - through rotations, and across instances that  *)
(* derive differently (consent.Challenge, Redeem, Verify; register).       *)
AckWasServed ==
  \A r \in Regs : attempt[r].ack =>
    /\ agreed[r].shown # NoPlan
    /\ agreed[r].shown = agreed[r].derived

(* No write rests on an authorization older than two windows, whichever    *)
(* two clocks were compared (sealed.OpenAuthState).                        *)
StateAgeBounded == \A r \in Regs : first[r] <= 2 * AuthStateTTL

(* Nobody gives up on a domain but over the deployment: a key that the     *)
(* answering instance had not loaded yet, hence only after a rotation, or  *)
(* a mistyped list, hence only after a fault.  Whatever else is wrong -    *)
(* the clock, the plan, a variable that is missing, the exchange - the     *)
(* code says to try again or to start over (OpenAuthState, deriveError,    *)
(* errorCode).                                                             *)
LostToTheDeployment ==
  \A r \in Regs : gaveUp[r] # "no" =>
    \/ gaveUp[r] = "lagging" /\ secret.keys # {FirstKey}
    \/ gaveUp[r] = "malformed" /\ faults > 0

(* A stale screen, a moved plan, a missing variable, an exchange that      *)
(* failed or a clock that disagrees may turn a customer away, never for    *)
(* good: a caller that does what the answered code says gets through once  *)
(* the deployment is quiet.  Two things lose a domain: an instance that    *)
(* has not read the new key yet, and one whose lists are mistyped - both   *)
(* blame the request (Complete, lane.ValidateDomainExempt, errorCode).     *)
Connects ==
  \A r \in Regs : sealedBy[r] # NoKey ~> (granted(r) \/ gaveUp[r] \in {"lagging", "malformed"})

-----------------------------------------------------------------------------
(* What the source says of itself, to be compared with what it does.       *)

(* Advance: "IF THE PROOF IS GONE IT WRITES NOTHING AND SAYS SO."          *)
NothingWithoutProof ==
  [][txt = "none" /\ first' = first => txt' # "engine"]_vars
=============================================================================
