# dns-delegate-engine: a TLA+ development

This directory specifies the DNS delegation engine in `internal/` and
`cmd/dns-delegate-api`: what it does to a customer's zone, what becomes of the
credential a customer delegates to it, and what it demands of a caller between
a registration and the first write. TLC checks the modules on small instances;
TLAPS proves every safety and action property of those runs for every instance:
of the reconciler, the grants, the consent ceremony, what passes publish, the
caches, an observation, and a registration under the published clock.

## The system

The engine stores nothing. A private caller keeps, per registration, two
opaque envelopes - the sealed registration and the sealed grant - and presents
them with every call. Everything else is derived again, read from public DNS,
from the provider, or from a secret the instance has cached.

| part | state | operations | talks to |
|---|---|---|---|
| `reconcile.Publisher` | none across calls; within one, the rows read, the record reached, the window | `Publish` | the provider seam |
| `dnsprovider`, `provider/cloudflare` | none | list, create, patch | the customer's zone |
| `intent.Service`, credential half | none; token and envelope within a call | `Complete`, `Advance`, `BindAppToOrgAppDomain`, `Orphans`, `Release` | the OAuth server, the sealer, `Publisher` |
| `intent.Service`, consent half | none; all in envelopes and MACs | `register` (three lanes), `Describe`, `ConsentPage`, `AcknowledgeConsent`, `Authorize`, `Complete`, `Verify` | `derive`, `sealed`, `consent`, `proof` |
| `sealed` | none | seal and open a registration, an auth state | `grantcrypto` |
| `consent`, `proof` | none | MACs over a reference, a page, an anchor | `grantcrypto` |
| `grantcrypto`, `cfoauth`, `cfedge` loaders | a cached secret, when it was read, when a read failed | `Sealer`, `Config`, `Token` | Secrets Manager |
| `relay` | `DCV`: an identifier per zone | ACM, SES and edge records, DCV identifier | AWS, Cloudflare |
| `observe` | `Probe`: the last sweep | `Plan`, `Proof`, `Quorum` | vantage points |
| `derive`, `lane`, `dnsplan` | none | the record set of a lane, its digest | - |
| `schedule` | none | the declared cadence: `Due`, `Spread`, `Delay` | asked by the caller |
| `cmd/dns-delegate-api` | none | dispatch, error codes | the caller |

What is hard about it:

- **Concurrency.** Nothing serialises two passes over one zone; the customer
  edits it in the provider's dashboard all the while; and the provider has no
  conditional write. Rows are read once and acted on later.
- **Lost answers.** A create may have landed, not landed, or land later. A
  refresh may have replaced the token and its answer be gone. A revocation may
  not have been taken.
- **No memory.** An acknowledgement, an auth state, a grant are right only if
  what is bound into them is; they come back in any order, late, to another
  instance, whose keyset or DCV identifier may differ.
- **Caches that answer differently when a re-read fails.**
- **One word for a refusal.** The caller sees a code, made of the first sentinel
  that a chain of wrapped errors is found to hold, and gives up on a domain, goes
  back to the customer or tries again because of it.
- **Two gates, one normal form.** Names and records are normalized by whoever
  meets them; a form that is not stable is accepted here and refused there.

## Modules

| module | what it is |
|---|---|
| `Zone` | the provider's view of a zone, and the customer's edits |
| `ZoneContract` | abstract: the only steps the engine may take on a zone |
| `Reconcile` | `Publisher.Publish`, in full, by any number of calls |
| `ReconcileProofs`, `RowsProofs` | its theorems; the second proves that one call never leaves two rows for a record |
| `GrantCustody` | abstract: where a grant may be - engine, caller, ended, lost |
| `GrantLifecycle` | the credential half of the five calls that touch one |
| `GrantProofs` | its theorems: no borrowed grants, what is stored is current, custody |
| `Ceremony` | register to first write, over instances that derive differently |
| `CeremonyProofs` | its theorems: the page, the digest, the age, who is turned away for good |
| `Passes` | what a registration's passes publish: derivation, relay, bounds, order |
| `PassesProofs` | its theorems, for any deployment, labels and upstreams |
| `Caches` | the four caches of values the engine does not own, and the probe's |
| `CachesProofs` | its theorems, for any two windows |
| `Dispatch` | `errorCode`: what a refusal becomes at the boundary |
| `DnsPlan` | the canonical form of names and records, snapshots, their digest |
| `Cadence` | the published clock, on integers that wrap past a longest duration |
| `Advancing` | a registration from the typed domain through its passes, under that clock |
| `AdvancingProofs` | its theorems and those of its three parts, for any names, rows, plans and clocks |
| `Observe` | a report over a quorum of vantage points |
| `ObserveProofs` | its theorems, for any quorum and fewer liars than its threshold |
| `MCReconcile`, `MCGrantLifecycle`, `MCCeremony`, `MCPasses`, `MCCaches`, `MCObserve`, `MCAdvancing` | instances for TLC |

### Reconcile

A call is at `find`, `list`, `write`, `sent` or `observe`, which are the places
at which it waits for the provider or decides on a record. `seen` is the code's
`existing`: filled name by name and never read again. `open` is the window's
context. `Begin` and `Decline` are the checks before any provider call;
`Skip`, `RefuseNameInUse` and `Send` the body of the record loop; `Accept`,
`Reject`, `Duplicate` and `LoseAnswer` the answers as the Cloudflare adapter
classifies them; `ObserveFinds` and `ObserveGivesUp` `createObserved` and
`observe`. `late` holds requests whose answer was lost, which `ApplyLate` may
apply at any time, after the call has returned too.

A value stands for its class under the provider's `SameValue`, and names are in
`dnsplan.NormalizeName`'s form, so equality is the comparison the code makes.
`origin`, `met` and `disturbed` are history: who wrote a row, which records a
call has at some moment seen satisfied, and at which names the customer edited
or deleted.

`ZoneContract` says what is left when the procedure is forgotten: the engine
adds promised rows, repairs the proxy flag of a row that already is a promised
one, or - since there is no conditional write - overwrites a row at a name the
customer edited behind its back. It never removes a row. The customer's steps are counted
(`edits`), so that a stray row of the engine's cannot pass for one of theirs.

### GrantLifecycle

A call is `plan` (all checks before the credential, one refusing step),
`exchange` or `open` and `refresh`, `seal`, `publish` or `read`, `revoke`,
`answer`. `current` is the one refresh token per grant which the provider
accepts; a refresh replaces it or lets it stand. `row` is what the caller
stores. `Deliver` is the contract of `types.go` (`Stores`): persist a
`SealedToken`, discard on `Revoked` or on a failure code that says the grant is
dead. A customer may authorize a registration again while a grant is stored; a
call that is over (`Ends`) leaves nothing in memory.

`isInvalidGrant` takes any 400 or 401 of the token endpoint for a dead grant, so
a refused *client* discards a live grant too. `outdated` is the time during which
the provider may refuse it: from the moment the operator replaces the client's
secret until every instance has read the new one, which `Caches` bounds by a
window. While it is true an exchange, a refresh and a revocation may each be
refused, again and again. `lapsed` is history: the grants something befell.

`GrantCustody` is the promise, made to each grant by itself: a live grant is in
the engine's hands or named by the caller's row, or something befell it - and
nothing does without a cause (`Lapses`): a fault, a client that the provider
refuses, or a later authorization of the same registration, whose answer takes the
place of the stored envelope or has it discarded (`Superseded`; nothing revokes
the earlier grant). One step costs one grant at most. Two grants may move in one
step, since the answer that hands one to the caller may overwrite the row in which
another was misfiled. A lost grant is found again (`Find`) when the caller comes
upon a misfiled copy of what it was told to discard. The promise holds when the
caller makes one call at a time per registration (`OneAtATime`); the run
`invalid_grant` shows why that matters.

### Ceremony

The two inputs of a plan that change under a registration are the key its
proof value is computed under and the source its DCV identifier came from. An
instance holds a keyset (`held`) and an identifier (`source`); two derivations
are the same plan when both agree, which is what the digest compares. Per
registration: the key of the sealed registration, the plan the caller has on
screen (`Describe` and `register` return it with its digest), the page served
last, the key of the acknowledgement in hand, the authorization in progress.

MACs and envelopes are the keys under which they were made together with what
they bind: a challenge binds the page's bytes, an acknowledgement the
registration's reference, an auth state the acknowledgement and when it was
stamped. Time is the attempt's true age and the skew of the stamping and the
opening instance; `ClockAssumption` says no two clocks differ by more than one
TTL, which is what the code's "worst case at two TTLs" needs.

Every refusal is a set of sentinels (`Refusal`, `Refused`) that `Dispatch` turns
into a code, and the caller (`Heeds`) does what the code tells it: tries again,
starts again, or gives up on the domain. An exchange that fails after the code
was spent is answered with `unavailable`, so the caller presents the spent code
until the auth state is too old (`ExchangeFails`, `Tick`).

An environment is wrong in one of two ways (`Broken`). A variable that derivation
needs and does not find is `derive.ErrConfig`, which `deriveError` passes on and
`errorCode` answers with `unavailable`. An entry of the reserved or of an exempt
list that is not a name makes `lane.ValidateDomain` refuse *every* domain with
`lane.ErrInvalid`, which `derive` wraps as it wraps a bad domain: the answer is
`invalid_request`, and the caller gives up on a domain with which nothing is wrong.
`gaveUp` remembers (`Cause`) whether the key of the refused envelope was merely
not loaded yet, the operator had mistyped a list, or neither.

### Passes

One sealed registration in one deployment, and what its passes put into the
customer's zone. A name is its sequence of labels (`Labels`); so is a CNAME's value.
`config` is `derive.Config`, with two SaaS zones where the code has two fields
of each kind, and one exemption list per lane. The upper half of the module is
the code's pure part, operator by function: `Hosts`, `CertificateHosts`,
`SendsMail`, `Admits` are `internal/lane`; `Valid`, `HasIdentifier`, `Proxied`,
`Registration`, `BindApp` are `internal/derive`; `CheckedValidation`,
`CheckedDkim`, `CheckedServing` and the three readers are `internal/relay`;
`Bounds` is `dnsplan.NewSnapshot` with the check for conflicting CNAMEs.

`acm`, `ses`, `edge` and `dcv` are what the upstreams would answer now - rightly,
wrongly, or not at all - and they change between passes. What they may answer is
a parameter: `Challenges` pairs the labels in front of a host with the target
(any labels, any target), `HostedZones` are the zones SES may name, `Proofs` the
labels in front of a host in an edge proof. The instances hold an answer in
order, one in another region or deeper down, and one that points elsewhere; the
theorems hold for every set of each. Only a lane that has certificate hosts asks
ACM, and only one that sends mail SES. A `Pass` reads each
once and is one action: `Refusal` is the derivation's, a plan is a sequence of
record sets in publishing order, and publication runs until a CNAME's name is
in use for another target (`Stop`). `CutShort` is a pass that ends anywhere
before that. The engine's own rows are `zone`; the customer deletes them at
will. The customer's own rows, the steps of `Publish` and its races are
`Reconcile`'s, the credential is `GrantLifecycle`'s.

### Dispatch, DnsPlan, Cadence

Three pure parts. In `Dispatch` an error is the set of sentinels `errors.Is`
finds in it and `Arms` is the switch of `errorCode` in its order; `Retries` and
`GivesUp` are the caller. In `DnsPlan` a name is a canonical core, the case it is
written in and its trailing dots and spaces; a value is a text that may be padded,
not UTF-8, or too long. `TrimDots` is `NormalizeName`'s loop, `RecordsError` and
`Distinct` are the two results of `NormalizeRecords`, and `Digest` is the snapshot
with every text that is not UTF-8 replaced by one and the same text, which is what
`encoding/json` does. A loop over rows that returns an error returns that of the
first row which has one (`FirstOf`). In `Cadence`, `Gap` is what `Due` compares
with, `Longer` is one turn of `Delay`'s loop, `Turns` the loop, and `Wrap` what the
multiplication would do past `maxDuration`. Loops are recursive functions, so that
they can be proved about.

### Advancing

A domain is typed, registered, reviewed, completed, and advanced pass after pass.
Each call derives and relays anew, in any spelling, and refuses with `DnsPlan`'s
reasons; the caller heeds `Dispatch`'s codes and keeps `Cadence`'s time: after a
failure it waits `Delay`, else until `Due` counted from `Spread` on. `Miscount`
puts any number into its count of failures - `Delay`'s own comment calls the count
untrusted. `Describe` also looks at the rows it shows as the resolver will read them
(`ObserveError`): a name that is empty once it is normalized, or a record that is
neither CNAME nor TXT, is `ErrObserve`, and the first row at fault decides. `defect` is
history: an offer has held a row that escapes the anchor or that no plan may hold.
`Meaning` is what a plan says, with its flags and the order in which it first says
it, whatever the spelling. Proofs, credentials and the zone are other modules'.

### Caches

`which` is chosen at the start and says whose code runs: one call of it is one
action, because each loader holds its lock across the read. Contents are a
usable value, an unfilled placeholder, or something that does not parse. The
four differ in what a failed re-read leaves behind (`BackingOff`, `Blip`,
`Remaining`), and those differences are the module. The fifth is `observe.Probe`,
whose source is the network: a sweep runs under the context of the caller that
started it, and one that is `cut` finds no vantage point and is remembered for
everybody. `health` fails meanwhile; a lookup does not, since none reads the probe.

### Observe

A lookup is `waiting` for a slot, `asking` its vantage points, `read`, or
`abandoned` because the context ended first. What a vantage point said is a set
of published values, the empty one for a name that does not resolve; an honest
one says what the zone holds or has held since the report began, which is what a
cache does; a liar says anything that can be published. `Agreed`, `NoQuorum`
and `Weakest` are `Quorum.agree`, `State` is `classify` - and `Proof`, with the
accept set for `Wanted`. `was` is history.

## Runs

| run | question |
|---|---|
| `reconcile_safety` | Two calls of six plans (a routing CNAME with a proof TXT; the same route moved; one that only differs in its proxy flag; an empty, a straying and a conflicting one), a customer step, a fault, three rows: does the zone change only as `ZoneContract` allows, is `published` earned (`PublishedWasTrue`) and lasting (`PublishedStands`), is there one row per record of a call (`OneRowPerRecord`)? |
| `reconcile_live` | One plan published over and over: does every call end, do passes converge? |
| `grants_safety` | Three calls, two registrations, two authorizations of one of them or of both, three faults, and twice a revocation in the dashboard or a new client secret: does no live grant drop out of everybody's hands without a cause (`ImplementsCustody`), is what is stored current (`StoredIsCurrent`), is no grant used for another registration (`OwnGrantOnly`)? |
| `invalid_grant` | Counterexample: of two overlapping passes the second answers that a live grant is dead. |
| `orphans_report` | Counterexample: a replacement envelope dropped with an error. |
| `ceremony` | One registration, two instances, skew of a window, a rotation, a fault (an identifier that cannot be read, a failed exchange, a missing variable, a mistyped list, a late customer): are acknowledgements given on a page still true (`AckWasServed`), is the age of what a write rests on bounded (`StateAgeBounded`), and does a caller that does what the code says get through (`Connects`), unless it gave up, which only an instance that has not read a new key, or has a mistyped list, can make it do (`LostToTheDeployment`)? |
| `stop_control` | Counterexample: a pass writes though the proof is gone. |
| `passes` | Three lanes, in deployments that differ in identifiers and exemptions, for a customer's anchor and for MirrorStack's staging hosts; two changes of what the upstreams say or of the zone; passes cut short anywhere. Is every row one the customer was told of (`OnlyAsDisclosed`), out of MirrorStack's own names unless exempted (`PlatformKeptOut`), proxied just where the edge can serve it (`ProxiedAtHome`), with the right zone's identifier (`PointerFollowsZone`)? Do proof and route arrive whatever the upstreams say, unless Amazon's own records contradict the plan (`RoutedAtLast`), and what the upstreams owe (`OwedArrives`)? |
| `pointer_moved` | Counterexample: an unreadable identifier makes a pass stop at its own earlier pointer. |
| `caches` | Four loaders and the probe, eight ticks, three changes of the source: what is new is served and what is withdrawn is not, within a window of the source settling; an outage takes nothing away; failures are spaced. |
| `advancing` | One domain typed four ways, nine derivations, four relayed answers, six clocks: is an accepted domain ever given up for a spelling (`AcceptedIsKept`), is the customer sent back for a reason (`SentBackForAReason`), is what was seen written (`SeenIsWritten`), are passes spaced (`Spaced`), waits growing (`WaitsGrow`) and bounded (`LookedAtAgain`)? |
| `observe` | Three vantage points, one a liar, two to agree, one slot for two names, an edit, a failure, a context that ends: was every reading true, do enough honest answers settle it, does the report end? |

### Bounds, and why they suffice

- *Reconcile.* Two calls are what a race needs; a second plan with another
  target and one with another proxy flag give every relation two plans can be
  in at one name. Three rows hold the plan's two and one more: a duplicate, or
  the customer's. One fault loses one answer, or closes a window, or crashes a
  call; a closed window needs no further fault to cut off what follows. The
  proofs carry the four safety results the theorems name to all bounds.
- *GrantLifecycle.* Three calls let two run on after a third has changed the
  row; two faults allow a misfiled row and a lost message, or a keyset that
  disappears after a rotation, and the third lets a misfiled row find its way back
  after the caller discarded what it stored. `MaxOutside` 2 is a revocation and a
  new client secret, in either order, or two of one kind. The two counterexamples
  have neither (`MaxOutside` 0).
- *Ceremony.* Two keys are one rotation that reaches two instances at two
  times. `MaxAge` is one tick past the two windows that skew may add up to.
- *Passes.* Five vocabularies and four anchors: a customer's, two of MirrorStack's
  staging hosts and a host beneath one. Each answer in order has a neighbour that
  differs from it in one respect, and passes the relay's checks or does not.
  `MaxChanges` 2 lets an upstream owe something while another is out
  of order, two records contradict one another, or a row be deleted after an
  upstream moved; `pointer_moved` needs
  3: told, owed, and told no more. Two platform labels stand for four, one with
  an Amazon certificate and `cdn`; two DKIM selectors for three. `MaxRelayed`
  and `MaxRecords` have the code's values and are never reached, so `preparing`
  never occurs.
- *Caches.* `FailureTTL` 2 and `SuccessTTL` 3 make the windows overlap and
  expire apart; eight ticks are two success windows and what lies between.
- *Advancing.* Two trailing marks tell a trim that is repeated from one that is
  not. `MaxRecords` 2 is met by a plan of three rows of which two are one; two
  rows in both orders tell a set of rows from a list. `maxDuration` 15 lets a wait
  of 12 wrap; five failures pass that from a first wait of 1. One cadence is the
  declared one scaled down, the others have no ceiling, an interval below the
  floor, no growth and a negative jitter, a first wait past the ceiling, and no
  interval with a negative floor, where `Due` never holds. `MaxSince` is past the
  longest wait of any. `Spaced` asks of a clock that its first wait and its ceiling
  are no shorter than its floor (`Floored`), as in the declared one: `Delay` does
  not look at the floor. One of the six is not such a clock.
- *Observe.* Three vantage points with a threshold of two is the least quorum that
  can lose one and outvote one. One slot for two names makes one wait; four
  initial zones and one edit reach every zone of the two names.

Deadlock is not checked: calls are finite in number, the budgets run out, and a
system in which nobody asks for anything is at rest.

### Fairness

`RepeatSpec` of `Reconcile`: the caller's schedule repeats passes, and a call's
own steps happen, because every wait ends in an answer, a client timeout or the
window. No customer step, fault, crash or late write is owed. `FairSpec` of
`Ceremony`: the caller begins again after a refusal, time passes for one that
repeats a spent code and renders the plan again when it has moved, the
customer approves, loaders read again when their TTL is over, Cloudflare
answers at last; and - strong fairness of `Complete` - a call which some
instance would serve, again and again, is some day routed to one. Without the
last, an instance whose clock is a window off may get every call. `FairSpec` of
`Observe`: a lookup that has its slot hears from each vantage point, an answer or
a timeout, and the loop takes a slot that is free; that the context ends is not
owed. `FairSpec` of `Passes`: the caller repeats the pass of every plan the
registration has, which is what `schedule` declares; a pass may be cut short
again and again before one is not, and no upstream is owed an answer.

## Proofs

Every theorem holds for all values of the constants within the named assumptions
of the modules: any number of calls, registrations, instances, keys, vantage
points, names and plans, and any bound.

**The reconciler** (`ReconcileProofs`, `RowsProofs`). Assumed: plans are sequences
of records without repetition (`dnsplan.NewSnapshot`), bounds are naturals, the
customer is not a call.

| theorem | says |
|---|---|
| `TypeCorrect` | `TypeOK`, and `Control`: a call's control point agrees with its plan and request |
| `ContractHolds` | `Spec` implements `ZoneContract` |
| `PublishedStandsHolds` | a published record stands where the customer left rows alone |
| `PublishedWasTrueHolds` | every record of a published plan was satisfied during the call |
| `OneRowHolds` | one call never leaves two rows for one record |

`TypeOK` is not inductive alone: the request in flight must be the record at hand
(`Control`). For the contract one must know that a row which a call still has in
`seen`, or a request names by id, still *is* that record up to the proxy flag, or
else its name is disturbed: `Tracking` (`Fresh`, `SeenTracks`, `ReqsGrounded`). It
is preserved by every step of every call, since all of them are steps of the
contract (`NextIsZoneStep`, `StaysTracked`). With it, `EngineRepairs` is what an
undisturbed patch does. `PublishedStands` strengthens to `PassedStand`: every
record *before* the one at hand stands. `PublishedWasTrue` strengthens to `Met`:
every such record is in `met`, and so is every record a row in `seen` settles,
since the call was active when it read it. `OneRowPerRecord` needs the late
requests too: a create that may still land was for a record the call has left
behind (`LatePlanned`), has not landed already (`LateUnlanded`), and each row
of a call is for a record it has reached (`RowsPlanned`); with `RowsApart`, no two
for one record, this is kept by the lost answers and the late writes alike.

**The grants** (`GrantProofs`). `StoredIsCurrentHolds` and `CustodyHolds` assume
`OneAtATime`; the other two do not.

| theorem | says |
|---|---|
| `TypeCorrect` | `TypeOK` |
| `OwnGrantOnlyHolds` | no call holds a grant another registration was authorized for |
| `StoredIsCurrentHolds` | what is stored between calls is the token the provider knows, or the grant has ended or something befell it |
| `CustodyHolds` | the calls and their caller implement `GrantCustody`: no grant is lost without a cause, nor two at a time |

`Owned` follows each token from where it is minted: whatever a call, an envelope or
a row has is the grant of the registration it is bound to, a misfiled row too.
`InCustody` says where a live grant that nothing befell is (`Accounted`, `Where`):
in the row, which the call in flight will leave alone; in a call's hand; in the
envelope that its answer carries; or in the row beside a `Complete`, which was not
sent it (`Beside`). It needs `Alone` - one call per registration -, `Requested`:
until the credential is resolved, what was presented is what is stored, and
`Ahead`: a `Complete` whose answer may replace the stored envelope has a later
grant than any stored for its registration, which is what makes that replacement a
cause (`LapsesCaused`). For the refinement, `LostLapsed` follows from it,
`GrantsStay` shows that a call which is not concerned with a grant does not move
it, and `TakenFromRow` that only its own registration's call takes it up.

**The ceremony** (`CeremonyProofs`). Assumed: `ClockAssumption`, no two clocks more
than one window apart.

| theorem | says |
|---|---|
| `TypeCorrect` | `TypeOK` |
| `AckWasServedHolds` | an acknowledgement in hand was given on a page still what the engine would print |
| `StateAgeBoundedHolds` | no write rests on an authorization older than two windows |
| `LostToTheDeploymentHolds` | the caller gives up on a domain only over the deployment: a key that the instance which answered had not loaded, after a rotation, or a list the operator mistyped |

`Typed` adds `Shown`: a registration has been on a screen. `AckEarned` carries the
match of page and plan from the challenge through the acknowledgement into the
sealed state (`attempt`), which is where a rotation could have lost it. The age needs
no more than `ClockAssumption` where `Complete` judges it. For the last,
`FirstDecides` finds the arm of `errorCode` that answers, `Forgiven` that no other
refusal of this module ends in a code to give up on, and `Keyring` says that every
key in use is one the operator wrote, and that none was ever dropped; a mistyped
list was somebody's fault (`Mistyped`).

**The passes** (`PassesProofs`). Assumed: every deployment's vocabulary and
registration have the types the code gives them (`DeploymentsAssumption`), the
engine's own labels are labels and a platform label is one a host may have
(`LabelsAssumption`), and no suffix of MirrorStack's lies strictly beneath an
anchor (`NestingAssumption`): with suffixes of two labels, as `mirrorstack.ai`, none
does, for an anchor has at least two. Of the upstreams it is assumed
(`AnswersAssumption`) that names and targets are sequences of labels, and no more.

| theorem | says |
|---|---|
| `TypeCorrect` | `TypeOK` |
| `OnlyAsDisclosedHolds` | rows are of the kinds, and at the names, the customer consents to |
| `PlatformKeptOutHolds` | none is beneath a name of MirrorStack's, the exempted anchors apart |
| `ProxiedAtHomeHolds` | the proxied ones are those the edge they point into can serve |
| `PointerFollowsZoneHolds` | a pointer written while Cloudflare can be read carries the identifier it tells for this lane's zone |

A record is `Proper` when it is a row, of a disclosed kind, and proxied just where it
should be. One lemma per reader and per derived kind says that what it lets through
is proper; `MergedProper` puts them together, and `Bounds` adds that a plan which
is published stays beneath its anchor. The invariant (`Kept`) is that of every row,
with the anchor still one that `Admits` lets through: a pass that was cut
short has written such rows too (`WritesProper`), and nothing else adds one. Two names
above one name are above each other (`AnchorUnder`); this is what makes the
anchor's own check enough for every name beneath it, and with it
`NestingAssumption` is needed: a suffix strictly beneath an anchor would be within
reach of an anchor that passed. `lane.ValidateDomainExempt` does not look that way.
The identifier is a matter of one pass: a record is `Current` when, should it be a
pointer, its identifier is the one in effect, which is the one told where one
is told (`ToldIsEffective`); every reader's and derivation's records are current
(`AddsCurrent` for those a pass adds), and `Identified` reads the identifier off the
value again, label by label.

**The caches** (`CachesProofs`). Assumed: a positive `SuccessTTL`, and a failure
remembered no longer than a success (`TTLAssumption`).

| theorem | says |
|---|---|
| `TypeCorrect` | `TypeOK` |
| `CurrentHolds`, `WithdrawnHolds` | a success window after the source settled, what it holds is served and what it withdrew is not |
| `BlipHolds` | in the three Secrets Manager loaders a re-read that fails takes away nothing still true |
| `SpacedHolds` | in all but `cfoauth` a failed read is not repeated within the failure window |

The invariant relates dates to the source's last change: no date lies ahead
(`Dated`), what was loaded since is what the source holds (`LoadedIsCurrent`), a
refusal dated since is deserved (`RefusedIsUnusable`), and whichever read failed
last left one of the two dates behind (`FailureIsDated`). The first two theorems
use of the windows nothing but the assumption.

**Observation** (`ObserveProofs`). Assumed: finitely many vantage points, fewer liars
than `Threshold`.

| theorem | says |
|---|---|
| `TypeCorrect` | `TypeOK`, and with it that lookups never take more slots than there are |
| `ReadingWasTrueHolds` | what is reported was published while the report ran, a name that does not resolve too |
| `AgreementDecidesHolds` | enough answers that agree settle it, and settle it rightly |

`HonestHeard`: what an honest vantage point said was in the zone at some moment.
Among as many voices as the threshold one is honest (`OneIsHonest`), so what is
agreed is what it said.

**The published clock** (`AdvancingProofs`, on `Cadence`, `DnsPlan` and `Advancing`).
Assumed: names beneath one another are not each other's ancestors
(`CoresAssumption`), a text is either fit for a plan or not (`TextsAssumption`), a
typed domain is not empty and derived rows are sequences of records
(`OffersAssumption`), clocks hold durations (`ClocksAssumption`), a duration has a
width (`WidthAssumption`), and bounds are naturals.

| theorem | says |
|---|---|
| `BackoffHolds` | `Delay` fits a duration, is never negative, keeps a ceiling that is set, and never falls as failures grow - for every clock and every count |
| `SnapshotStands` | what `NewSnapshot` accepts it leaves alone when it meets it again, and `Validate` accepts it |
| `DigestBinds` | of two accepted plans, just those that mean the same at the same anchor have one digest |
| `Invariance`, `TypeCorrect` | `Inv`, and `TypeOK` |
| `AcceptedIsKeptHolds` | no spelling of a domain or a row gets an accepted registration given up |
| `SentBackForAReasonHolds` | who is sent back to the plan is shown another one, and a pass sends nobody back |
| `SeenIsWrittenHolds` | completing writes what was looked at, in that order, before anything else |
| `SpacedHolds`, `LookedAtAgainHolds`, `WaitsGrowHolds` | passes are a floor apart, never further than a ceiling or a gap and its jitter, and waits grow |

The first three are about data, for every input. `Turns`, `TrimSpace`, `TrimDots` and
`Distinct` are recursive functions: that each exists and satisfies its equation is
proved by giving one that does - by iteration over the naturals (`Iterates`), or, for
the trims, what is left of a tail (`Stripped`) - and what holds at every argument by
induction over a set of naturals, the least one missing from it being
contradictory (`SetInduction`, on `WFMin` of `WellFoundedInduction`; it takes no
operator as a parameter, as the library's own induction does). From
there: normalizing a name twice is normalizing it once, `Distinct` keeps one row of
each identity in order of first mention, and neither the anchor nor a record that
passed `NewSnapshot` changes when it passes again.

`Inv` adds to `TypeOK` that a sealed anchor is in canonical form (`Anchored`) and
that the plan on screen is one `NewSnapshot` made at that anchor (`Shown`); without
the first `Opens` could refuse every later call with the code to give up, without
the second the digest could be of a plan that no derivation reproduces.
`AcceptedIsKept` and `LookedAtAgain` are inductive with these two. TLC has checked
`Inv` on the run's instance. A first attempt at `AcceptedIsKept` did not go through:
the model tested the emptiness of a name before it was normalized, and did not
stop at the first row at fault, as `observe.Plan` does; both were
corrected.

**Only model-checked**: liveness, which like `ENABLED` is beyond the prover -
`EveryCallEnds` and `Convergence` of `Reconcile`, `Connects` of `Ceremony`,
`RoutedAtLast` and `OwedArrives` of `Passes`, `ReportEnds` of `Observe` - and the four
counterexamples. Every other property of a passing run is one of the theorems above.

## What the counterexamples say

- `invalid_grant` - a failure code that promises more about the provider than
  the code knows: the grant may be alive, in the other pass's hands.
- `orphans_report` - an error return drops a sealed replacement; the stored
  token is dead from then on.
- `stop_control` - the comment on `Advance` and the project's README promise
  that writing stops when the proof is gone. The code, by a later decision that
  `pass` explains, warns and writes, the proof record included.
- `pointer_moved` - the configured identifier is meant to keep a lane
  publishing while Cloudflare cannot be read. Where the pointer already stands
  with Cloudflare's identifier, the fallback is a different CNAME at the same
  name, which `Publish` refuses as somebody else's; records that follow in the
  plan wait until the identifier can be read again. The other way around - a
  first pass with the configured value, then an answer that differs - it lasts
  until the customer deletes the row. `OwedArrives` is stated for the passes
  that no such pointer hinders (`Hindered`).

Limits met while modelling that no run states: the rule "a record that is not
ours is never touched" cannot be kept with an unconditional patch by id, and
`ZoneContract!EngineOverwrites` is the exact extent of the exception, the
names the customer edited meanwhile; `cfoauth` dates the refusal of a secret
that does not parse but, keeping the old client, never looks at the date, so
that every request reads the secret again and a failed re-read restores the
old client; one host whose serving proof cannot be read costs every host of
its plan theirs; a validation record that passes the relay's checks and stands
at the name of the plan's own pointer (`_acme-challenge` in front of a host), or two
of them with two targets at one name, make `validateNoConflictingCNAMEs` refuse the
whole plan, proof and route included, until Amazon's answer changes (`Contradictory`;
`RoutedAtLast` speaks of the rest); a 400 or 401 that refuses the OAuth *client*
discards live grants as `invalid_grant`, of every registration whose pass lands on
an instance with an old secret; a second authorization replaces the stored grant
and nothing revokes the first; `reseal_failed` is documented as revoked and dead, and is
answered for a revocation that was not delivered too; while one vantage point
fails, an unrelated TXT value can reach the threshold alone and turn a proof
on which the others are split from unknown into absent; `token_unreadable` is
also the answer of an instance that could not read its keyset for a moment,
and the contract tells the caller to discard; the proof value is part of the
digest, so a key rotation between two screens turns the customer away once
(`Connects` shows: once); an envelope sealed under a new key, shown to an
instance whose keyset is minutes old, is answered `invalid_request`, which is the
code for a domain to give up on, although `sealed.go:442` would have the operator
restore the key; so is a reserved or exempt list the operator mistyped, which
refuses every domain (`LostToTheDeployment`: nothing else loses one), although
`deriveError` would tell an operator's problem from the caller's; a failed exchange is
`unavailable`, of which `errorCode` says that nothing was consumed, when the code
is spent: the caller is stopped only by the age of its state; `Due` never lets a
pass be sooner than the larger of interval and floor, so that a loop which asks
`Due` after a failure too never retries at `First`; a last pass stamped by a
slow clock is due early, against `Due`'s "skew may delay a pass and never
accelerate one"; `NormalizeRecords` drops a row that differs from an earlier one
in `Proxied` alone, and `CoveredBy` does not compare it; `Describe` counts rows
before repeated ones are dropped and `Complete` after.

## Not modelled, and the plan

1. *Composition*: the passes of `GrantLifecycle` and `Passes` over `Reconcile`,
   each of which now knows the others by their outcomes.
2. `dnsplan.AssertReviewed` and `Equal`, which nothing in the engine calls;
   `Verify`, `Capabilities` and `health`, which keep no state; the authoritative
   resolver, which is one more vantage point to `Observe`.

Left out for good: cryptography (an envelope opens under its key and its
associated data, or not), the wire formats of Cloudflare and AWS, page
rendering, routes and HTTP handlers, configuration from the environment, test
support.
