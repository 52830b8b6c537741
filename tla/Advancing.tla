------------------------------ MODULE Advancing ------------------------------
(***************************************************************************)
(* One registration under the published clock: a domain is typed, its plan *)
(* reviewed, completed, and advanced pass after pass, as dnsplan and       *)
(* schedule decide it.  Each call derives and relays anew, in any spelling *)
(* - the package promises not to depend on it - and answers with one of    *)
(* Dispatch's codes.  The caller, which is not in this repository, keeps   *)
(* the clock: it waits Delay after a failure, else until Due and Spread    *)
(* after that, and its count of failures may be any number.                *)
(***************************************************************************)
EXTENDS Cadence, DnsPlan

CONSTANTS Typed,       \* the spellings a domain is typed in
          Derived,     \* what a call may derive: sequences of records
          Relayed,     \* what it may add of the upstreams' records
          Cadences,    \* published clocks
          Hashes,      \* hashes of a registration's key
          MaxFailures, \* bound: the caller's count
          MaxSince     \* bound: the longest wait looked at

ASSUME OffersAssumption == /\ Typed \subseteq {n \in Names : n.core # Nothing}
                           /\ Derived \union Relayed \subseteq Seq(Record)
ASSUME ClocksAssumption == Cadences \subseteq Clocks /\ Hashes \subseteq Nat
ASSUME LoopBounds       == {MaxFailures, MaxSince} \subseteq Nat

VARIABLES
  clock, hash,   \* the cadence in force, the registration's phase in it
  phase,         \* typed | sealed | reviewed | looping | lost
  anchor,        \* the name in the sealed registration
  reviewed,      \* the plan the customer looked at
  wrote,         \* history: the plan the last call wrote
  offer,         \* history: the derived records the last call met
  since,         \* how long ago the last pass was
  failures,      \* the caller's count of consecutive failures
  passes,        \* history: flips with every pass
  defect         \* history: an offer has held a row no plan may hold

loop == <<since, failures, passes>>
vars == <<clock, hash, phase, anchor, reviewed, wrote, offer, loop, defect>>

Unfitting(rows) == \E k \in DOMAIN rows :
  \/ rows[k].value.text \in Garbled \union Overlong
  \/ rows[k].name.core \notin {anchor.core, Nothing} /\ <<rows[k].name.core, anchor.core>> \notin Under

TypeOK ==
  /\ clock \in Cadences /\ hash \in Hashes
  /\ phase \in {"typed", "sealed", "reviewed", "looping", "lost"}
  /\ anchor \in Typed \union {NormalizeName(n) : n \in Typed}
  /\ \A s \in {reviewed, wrote} : s = NoSnapshot \/ (s.anchor = anchor /\ Len(s.records) \in 1..MaxRecords)
  /\ offer \in Derived \union {<<>>}
  /\ since \in 0..MaxSince /\ failures \in 0..MaxFailures
  /\ passes \in BOOLEAN /\ defect \in BOOLEAN

Init ==
  /\ clock \in Cadences /\ hash \in Hashes /\ phase = "typed" /\ anchor \in Typed
  /\ reviewed = NoSnapshot /\ wrote = NoSnapshot /\ offer = <<>>
  /\ since = 0 /\ failures = 0 /\ passes = FALSE /\ defect = FALSE

-----------------------------------------------------------------------------
(* The caller and the code it was answered.                                *)
Heeds(err) ==
  phase' = IF GivesUp(errorCode(err)) THEN "lost"
           ELSE IF Retries(errorCode(err)) THEN phase ELSE "sealed"

Meets(rows, derived) ==
  /\ defect' = (defect \/ Unfitting(rows)) /\ offer' = derived
  /\ UNCHANGED <<clock, hash>>

Reviews(name, derived) == phase' = "reviewed" /\ reviewed' = NewSnapshot(name, derived)

(* A domain is refused for an empty label as it was typed, and for a label *)
(* that is not one as it was normalized; it is then typed again.           *)
ValidateDomain(name) ==
  /\ LET raw == TrimSpace[name.tail]
     IN  \A k \in 1..(Len(raw) - 1) : ~(raw[k] = "dot" /\ raw[k + 1] = "dot")
  /\ NormalizeName(name).tail = <<>>

(* register: the envelope keeps the anchor in its canonical spelling, and  *)
(* every later call refuses it if that does not reproduce (Opens).         *)
Register(derived) ==
  LET name == NormalizeName(anchor) IN
  /\ phase = "typed" /\ UNCHANGED <<wrote, loop>>
  /\ \/ /\ ~ValidateDomain(anchor) /\ anchor' \in Typed
        /\ UNCHANGED <<clock, hash, phase, reviewed, offer, defect>>
     \/ /\ ValidateDomain(anchor) /\ Meets(derived, derived)
        /\ IF NewSnapshotError(name, derived) = {}
             THEN Reviews(name, derived) /\ anchor' = name
             ELSE Heeds(NewSnapshotError(name, derived)) /\ UNCHANGED <<anchor, reviewed>>

Opens == ~Empty(anchor) /\ anchor = NormalizeName(anchor)

(* Why Describe, Complete and pass refuse what they derived and relayed.   *)
ReviewError(derived) ==
  IF ~Opens THEN {"ErrInvalidRequest", "ErrInvalidEnvelope"}
  ELSE NewSnapshotError(anchor, derived)

CompleteError(derived) ==
  LET review == NewSnapshot(anchor, derived) IN
  IF ReviewError(derived) # {} THEN ReviewError(derived)
  ELSE IF ValidateError(review, Digest(review)) # {} THEN ValidateError(review, Digest(review))
  ELSE IF Digest(review) # Digest(reviewed) THEN PlanChanged ELSE {}

WriteError(derived, relayed) ==
  IF NewSnapshotError(anchor, derived \o relayed) # {} THEN NewSnapshotError(anchor, derived \o relayed)
  ELSE IF ~CoveredBy(NewSnapshot(anchor, derived), NewSnapshot(anchor, derived \o relayed))
       THEN PlanChanged ELSE {}

-----------------------------------------------------------------------------
(* Describe reads every row it shows at the resolver, the relayed ones too.*)
Unreadable(r) ==
  IF r.type \notin {"CNAME", "TXT"} \/ Empty(NormalizeName(r.name)) THEN {"ErrObserve"}
  ELSE IF ~Contains(anchor, r.name) THEN AnchorEscape ELSE {}

ObserveError(rows) ==
  IF Len(rows) > MaxRecords THEN {"ErrObserve"}
  ELSE FirstOf([k \in DOMAIN rows |-> Unreadable(rows[k])])

(* Describe: the plan and its digest, to be shown to the customer.         *)
Describe(derived, relayed) ==
  LET err == IF ReviewError(derived) # {} THEN ReviewError(derived)
             ELSE ObserveError(derived \o relayed)
  IN  /\ phase = "sealed" /\ Meets(derived \o relayed, derived) /\ UNCHANGED <<anchor, wrote, loop>>
      /\ IF err = {} THEN Reviews(anchor, derived) ELSE Heeds(err) /\ UNCHANGED reviewed

OneMore == IF failures < MaxFailures THEN failures + 1 ELSE failures

(* What goes to the provider, which may fail it.                           *)
Writes(derived, relayed) ==
  /\ phase' = "looping" /\ wrote' = NewSnapshot(anchor, derived \o relayed)
  /\ failures' \in {0, OneMore}

Passed == since' = 0 /\ passes' = ~passes /\ reviewed' = NoSnapshot

Complete(derived, relayed) ==
  LET err == IF CompleteError(derived) # {} THEN CompleteError(derived)
             ELSE WriteError(derived, relayed)
  IN  /\ phase = "reviewed" /\ Meets(derived \o relayed, derived) /\ UNCHANGED anchor
      /\ IF err = {} THEN Writes(derived, relayed) /\ Passed
         ELSE Heeds(err) /\ UNCHANGED <<wrote, reviewed, loop>>

(* When the caller makes the next pass.                                    *)
PassDue ==
  IF failures = 0 THEN Due(clock, since - Spread(clock, hash))
  ELSE since >= Delay(clock, failures)

Advance(derived, relayed) ==
  LET err == IF ReviewError(derived) # {} THEN ReviewError(derived)
             ELSE WriteError(derived, relayed)
  IN  /\ phase = "looping" /\ PassDue /\ Meets(derived \o relayed, derived) /\ Passed /\ UNCHANGED anchor
      /\ IF err = {} THEN Writes(derived, relayed)
         ELSE Heeds(err) /\ failures' = OneMore /\ UNCHANGED wrote

(* A scheduler that is on time.                                            *)
Tick ==
  /\ phase = "looping" /\ ~PassDue /\ since < MaxSince /\ since' = since + 1
  /\ UNCHANGED <<clock, hash, phase, anchor, reviewed, wrote, offer, failures, passes, defect>>

(* The count is the caller's: corrupted, or from an older build.           *)
Miscount ==
  /\ phase = "looping" /\ failures' \in 1..MaxFailures
  /\ UNCHANGED <<clock, hash, phase, anchor, reviewed, wrote, offer, since, passes, defect>>

Next ==
  \/ Tick \/ Miscount
  \/ \E derived \in Derived :
       \/ Register(derived)
       \/ \E relayed \in Relayed :
            Describe(derived, relayed) \/ Complete(derived, relayed) \/ Advance(derived, relayed)

Spec == Init /\ [][Next]_vars

-----------------------------------------------------------------------------
(* What rows mean, however they are spelled, repeated or padded: what each *)
(* says, that nothing before it said, with its flag and what came before.  *)
Says(row)         == <<row.type, row.name.core, row.value.text>>
Before(rows, k)   == {Says(rows[j]) : j \in 1..(k - 1)}
Mentions(rows, k) == <<Says(rows[k]), rows[k].proxied, Before(rows, k)>>
Meaning(rows) ==
  {Mentions(rows, k) : k \in {n \in DOMAIN rows : Says(rows[n]) \notin Before(rows, n)}}

(* A domain that was accepted is never refused by a later gate for how it, *)
(* or a row of its plan, is spelled: the caller gives up only on a row     *)
(* that escapes the anchor or that no plan may hold (NormalizeName, which  *)
(* "must be idempotent"; NewSnapshot, Validate, validateSubject).          *)
AcceptedIsKept == phase = "lost" => defect

(* The customer is sent back to the plan only when it really is another    *)
(* plan: a row spelled anew, padded or repeated does not move the digest;  *)
(* and never by a pass, since what the upstreams add, however it repeats   *)
(* or respells a derived row, does not uncover it (Digest, CoveredBy).     *)
SentBackForAReason ==
  [][(/\ phase = "reviewed" /\ phase' = "sealed" => Meaning(offer') # Meaning(reviewed.records)
      /\ phase = "looping" => phase' # "sealed")]_vars

(* Completing writes every row the customer looked at, text for text, in   *)
(* that order and before any other: no two plans share a digest            *)
(* (NormalizeRecords on UTF-8, Digest, writeSnapshot).                     *)
SeenIsWritten ==
  [][(phase = "reviewed" /\ phase' = "looping"
       => Meaning(reviewed.records) \subseteq Meaning(wrote'.records))]_vars

(* Passes are at least the declared floor apart, whatever the count of     *)
(* failures is, under a clock whose waits are not declared shorter than    *)
(* that: no wait wraps around into none (Due, Spread, Delay).              *)
Floored(c) == c.First >= c.MinInterval /\ (c.Max > 0 => c.Max >= c.MinInterval)

Spaced ==
  [][(phase = "looping" /\ passes' # passes /\ Floored(clock)
       => since >= clock.MinInterval)]_vars

(* And under a clock with a gap and a ceiling a registration is never left *)
(* longer than the ceiling, or than a gap and its jitter (Delay, Due,      *)
(* Spread).                                                                *)
Longest(c) == LET calm == IF c.Jitter > 0 THEN Gap(c) + c.Jitter ELSE Gap(c)
              IN  IF c.Max > calm THEN c.Max ELSE calm

LookedAtAgain ==
  (phase = "looping" /\ Gap(clock) > 0 /\ clock.Max > 0) => since <= Longest(clock)

(* A further failure never shortens the wait (Delay).                      *)
WaitsGrow == phase = "looping" => Delay(clock, failures) <= Delay(clock, failures + 1)
=============================================================================
