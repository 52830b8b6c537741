------------------------------- MODULE Caches -------------------------------
(***************************************************************************)
(* What an instance remembers of values it does not own: the grant keyset  *)
(* (shared/grantcrypto Loader.Sealer), the OAuth client (shared/cfoauth    *)
(* Loader.Config), MirrorStack's Cloudflare token (shared/cfedge           *)
(* Loader.Token), the DCV identifier (relay DCV.DelegationUUID) and        *)
(* whether enough vantage points answer (observe Probe.Reach).             *)
(*                                                                         *)
(* The first four keep a value for SuccessTTL and a refusal for            *)
(* FailureTTL, each with its own answer to a failed re-read; the probe's   *)
(* sweep always yields a verdict, kept for SuccessTTL.  Each holds its     *)
(* lock across the read, so a call is one action; `which' says whose code  *)
(* runs.                                                                   *)
(***************************************************************************)
EXTENDS Integers

CONSTANTS Kinds,         \* a subset of AllKinds
          Values,        \* usable contents of the source
          SuccessTTL, FailureTTL,
          MaxTime,       \* bound: the last tick
          MaxChanges     \* bound: writes to the source and outages

AllKinds == {"keyset", "oauth", "edge", "dcv", "reach"}

(* The source holds a usable value, the placeholder a deployment creates   *)
(* (or one whose parts are refused), or what does not parse.               *)
Contents == Values \union {"unfilled", "malformed"}
None     == "none"
Never    == -1

(* What a sweep that meets the threshold reads; one that does not reads    *)
(* None, the probe's verdict "degraded".                                   *)
Answered == CHOOSE v \in Values : TRUE

ASSUME KindsAssumption  == Kinds \subseteq AllKinds
ASSUME ValuesAssumption == /\ Values # {}
                           /\ Values \intersect {"unfilled", "malformed", None} = {}
ASSUME TTLAssumption    == /\ SuccessTTL \in Nat \ {0} /\ FailureTTL \in Nat
                           /\ FailureTTL <= SuccessTTL
ASSUME BoundAssumption  == MaxTime \in Nat /\ MaxChanges \in Nat

VARIABLES
  which,      \* whose code this is
  now,
  secret, reachable,      \* the source
  changes, changedAt,     \* how often, and when, it last changed (history)
  value, loadedAt, failedAt,   \* the loader
  answer,     \* history: the last answer, and when it was given
  reads,      \* history: flips with every read of the source
  lastFail    \* history: when a read last failed to yield a value

source  == <<secret, reachable, changes, changedAt>>
loader  == <<value, loadedAt, failedAt>>
history == <<answer, reads, lastFail>>
vars    == <<which, now, source, loader, history>>

Times == {Never} \union 0..MaxTime

TypeOK ==
  /\ which \in Kinds /\ now \in 0..MaxTime
  /\ secret \in Contents /\ reachable \in BOOLEAN
  /\ changes \in 0..MaxChanges /\ changedAt \in 0..MaxTime
  /\ value \in Values \union {None} /\ loadedAt \in Times /\ failedAt \in Times
  /\ answer \in [value : Values \union {None}, at : Times]
  /\ reads \in BOOLEAN /\ lastFail \in Times

Init ==
  /\ which \in Kinds /\ now = 0
  /\ secret \in Contents /\ (which = "reach" => secret = Answered)
  /\ reachable = TRUE /\ changes = 0 /\ changedAt = 0
  /\ value = None /\ loadedAt = Never /\ failedAt = Never
  /\ answer = [value |-> None, at |-> Never] /\ reads = FALSE /\ lastFail = Never

-----------------------------------------------------------------------------
(* The source.                                                             *)

Tick == now < MaxTime /\ now' = now + 1 /\ UNCHANGED <<which, source, loader, history>>

Change  == changes < MaxChanges /\ changes' = changes + 1 /\ changedAt' = now
Changes == Change /\ UNCHANGED <<which, now, loader, history>>

Rewrite == /\ which # "reach"
           /\ Changes /\ \E c \in Contents \ {secret} : secret' = c /\ UNCHANGED reachable
Outage  == Changes /\ reachable' = ~reachable /\ UNCHANGED secret

-----------------------------------------------------------------------------
(* A call.                                                                 *)

Within(at, ttl) == at # Never /\ now - at < ttl

(* Mutant: a value once loaded is never re-read.                           *)
FreshForever == value # None

Fresh == (which = "reach" \/ value # None) /\ Within(loadedAt, SuccessTTL)

(* Mutant: the negative half forgotten.                                    *)
NeverBacksOff == which \in {}

(* A remembered refusal counts only while there is no value to serve -     *)
(* except that the keyset's loader puts off the re-read, value or none.    *)
BackingOff == Within(failedAt, FailureTTL) /\ (which = "keyset" \/ value = None)

Answers(v) == answer' = [value |-> v, at |-> now]

Serve ==
  /\ Fresh \/ BackingOff
  /\ Answers(value)
  /\ UNCHANGED <<which, now, source, loader, reads, lastFail>>

Reads == /\ which # "reach" /\ ~Fresh /\ ~BackingOff /\ reads' = ~reads
         /\ UNCHANGED <<which, now, source>>

(* Mutant: what was read is not validated.                                 *)
UsableIfRead == reachable

Usable == reachable /\ secret \in Values

Load ==
  /\ Reads /\ Usable /\ Answers(secret)
  /\ value' = secret /\ loadedAt' = now /\ failedAt' = Never /\ UNCHANGED lastFail

(* The two credentials of a value still held survive a read that failed:   *)
(* as good as re-read.                                                     *)

(* Mutant: a withdrawn credential is taken for an outage.                  *)
BlipOrWithdrawn == ~Usable /\ value # None /\ which \in {"oauth", "edge"}

(* Mutant: an outage takes the edge token away.                            *)
BlipOAuthOnly == ~reachable /\ value # None /\ which = "oauth"

Blip == ~reachable /\ value # None /\ which \in {"oauth", "edge"}

Ride ==
  /\ Reads /\ Blip /\ Answers(value)
  /\ loadedAt' = now /\ lastFail' = now /\ UNCHANGED <<value, failedAt>>

(* What a refusal leaves behind.  The keyset's keeps the stale sealer and  *)
(* goes on answering with it; a client secret that does not parse answers  *)
(* nothing, and forgets nothing.                                           *)
Remaining ==
  IF which = "keyset" \/ (which = "oauth" /\ secret = "malformed") THEN value ELSE None

Refuse ==
  /\ Reads /\ ~Usable /\ ~Blip
  /\ Answers(IF which = "keyset" THEN value ELSE None)
  /\ value' = Remaining /\ failedAt' = now /\ lastFail' = now /\ UNCHANGED loadedAt

(* The probe.  A sweep runs under its caller's context: one its caller     *)
(* gives up on in the middle - `cut' - reaches no vantage point, and what  *)
(* it read is remembered like any other.  A cut counts as a change of the  *)
(* source.                                                                 *)

Degraded(cut) == ~reachable \/ cut

Sweep(cut) ==
  LET v == IF Degraded(cut) THEN None ELSE Answered
  IN  /\ which = "reach" /\ ~Fresh /\ reads' = ~reads
      /\ Answers(v) /\ value' = v /\ loadedAt' = now /\ UNCHANGED failedAt
      /\ lastFail' = IF v = None THEN now ELSE lastFail
      /\ IF cut THEN Change ELSE UNCHANGED <<changes, changedAt>>
      /\ UNCHANGED <<which, now, secret, reachable>>

Next == \/ Tick \/ Rewrite \/ Outage \/ Serve \/ Load \/ Ride \/ Refuse
        \/ \E cut \in BOOLEAN : Sweep(cut)

Spec == Init /\ [][Next]_vars

-----------------------------------------------------------------------------
(* A rotated value reaches every caller within one success window of the   *)
(* source last changing, whatever failures, placeholders or outages came   *)
(* before and however the refusals and the re-reads fell.  A probe's false verdict *)
(* - a sweep its caller cut short - is outlived likewise (all five).        *)
CurrentServed ==
  (answer.at # Never /\ answer.at - changedAt >= SuccessTTL /\ Usable)
    => answer.value = secret

Withdrawn ==
  IF which = "reach" THEN ~reachable
  ELSE which # "keyset" /\ reachable /\ secret \notin Values

(* A withdrawn credential is out of use within the same window, although   *)
(* an outage would not have taken it (cfoauth, cfedge, relay.DCV; the      *)
(* keyset's loader keeps the sealer it has); and vantage points that       *)
(* cannot be reached are no longer reported healthy (observe.Probe).       *)
WithdrawnNotServed ==
  (Withdrawn /\ answer.at # Never /\ answer.at - changedAt >= SuccessTTL)
    => answer.value = None

(* Once the current value has been served, failed re-reads do not take it  *)
(* away: a Secrets Manager blip does not take a working feature dark (the  *)
(* three Secrets Manager loaders; relay.DCV has a fallback instead, and    *)
(* the probe reports an outage, which is what it is for).                  *)
BlipKeepsServing ==
  [][(which \notin {"dcv", "reach"} /\ secret \in Values /\ answer.value = secret /\ secret' = secret)
       => answer'.value = secret]_vars

Spaced == reads' # reads => ~Within(lastFail, FailureTTL)

(* After a read that failed nobody pays for another within the failure     *)
(* window, value held or not (grantcrypto, cfedge, relay.DCV, the probe).  *)
(* Not so for cfoauth, which dates a secret that does not parse and, with a client in *)
(* hand, never looks at the date.                                          *)
FailuresSpaced == [][which # "oauth" => Spaced]_vars
=============================================================================
