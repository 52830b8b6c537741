------------------------------ MODULE Observe ------------------------------
(***************************************************************************)
(* One report of internal/observe - Plan's, or Proof's, which is one of a  *)
(* single name - over a Quorum of vantage points: lookups dispatched a few *)
(* at a time, each asking every vantage point at once, some of which fail, *)
(* answer from a cache, or lie, while the customer edits the zone and the  *)
(* caller's context may end.                                               *)
(*                                                                         *)
(* Values are in the form in which the code compares them.  The rows whose *)
(* value is not known, and the ownership row inside Plan, are not looked   *)
(* up and are left out.                                                    *)
(***************************************************************************)
EXTENDS Integers, FiniteSets, FiniteSetsExt

CONSTANTS Vantages,
          Liars,        \* vantage points that answer what they like
          Threshold,    \* how many must agree
          Keys,         \* the questions: a name and a type
          Type,         \* key -> "CNAME" or "TXT"
          Values,
          Wanted,       \* key -> the derived value, or proof's accept set
          Start,        \* what the zone may hold when the report begins
          MaxInFlight,  \* lookups at once
          MaxChanges,   \* bound: the customer's edits
          MaxFaults     \* bound: lookups that fail of themselves

(* The answer of a name that resolves, but not through a CNAME.            *)
Itself == "itself"

(* What Quorum holds against: fewer liars than the threshold.              *)
ASSUME LiarsAssumption  == /\ Liars \subseteq Vantages /\ IsFiniteSet(Vantages)
                           /\ Cardinality(Liars) < Threshold
ASSUME KeysAssumption   == /\ IsFiniteSet(Keys) /\ Type \in [Keys -> {"CNAME", "TXT"}]
                           /\ Wanted \in [Keys -> SUBSET Values] /\ Itself \notin Values
ASSUME BoundsAssumption == {Threshold, MaxInFlight, MaxChanges, MaxFaults} \subseteq Nat

(* What can be published for a question; {} is a name that does not        *)
(* resolve.                                                                *)
Published(k) == IF Type[k] = "TXT" THEN SUBSET Values
                ELSE {{}} \union {{x} : x \in Values \union {Itself}}

ASSUME StartAssumption == \A f \in Start :
  f = [k \in Keys |-> f[k]] /\ \A k \in Keys : f[k] \in Published(k)

(* A vantage point, asked.                                                 *)
Heard(k) == [got : {"pending", "failed"}, values : {{}}]
              \union [got : {"answer"}, values : Published(k)]
Pending  == [got |-> "pending", values |-> {}]
Failed   == [got |-> "failed", values |-> {}]
Said(S)  == [got |-> "answer", values |-> S]

VARIABLES
  published,  \* key -> what the zone holds
  was,        \* history: key -> what it has held since the report began
  stage,      \* key -> waiting, asking, read, or abandoned
  heard,      \* key -> vantage point -> its answer
  cancelled,  \* the caller's context has ended
  changes, faults

zone == <<published, was>>
vars == <<zone, stage, heard, cancelled, changes, faults>>

TypeOK ==
  /\ \A k \in Keys : published[k] \in Published(k) /\ was[k] \subseteq Published(k)
  /\ stage \in [Keys -> {"waiting", "asking", "read", "abandoned"}]
  /\ \A k \in Keys : heard[k] \in [Vantages -> Heard(k)]
  /\ Cardinality({k \in Keys : stage[k] = "asking"}) <= MaxInFlight
  /\ cancelled \in BOOLEAN /\ changes \in 0..MaxChanges /\ faults \in 0..MaxFaults

Init ==
  /\ published \in Start
  /\ was = [k \in Keys |-> {published[k]}]
  /\ stage = [k \in Keys |-> "waiting"]
  /\ heard = [k \in Keys |-> [v \in Vantages |-> Pending]]
  /\ cancelled = FALSE /\ changes = 0 /\ faults = 0

-----------------------------------------------------------------------------
Change(k) ==
  /\ changes < MaxChanges /\ changes' = changes + 1
  /\ \E S \in Published(k) \ {published[k]} :
       /\ published' = [published EXCEPT ![k] = S]
       /\ was' = [was EXCEPT ![k] = @ \union {S}]
  /\ UNCHANGED <<stage, heard, cancelled, faults>>

Cancel == ~cancelled /\ cancelled' = TRUE
          /\ UNCHANGED <<zone, stage, heard, changes, faults>>

(* Mutant: no semaphore.                                                   *)
FreeAlways == TRUE

(* resolveAll: a slot is taken, and given back by Conclude.                *)
Free == Cardinality({k \in Keys : stage[k] = "asking"}) < MaxInFlight

Dispatch(k) ==
  /\ stage[k] = "waiting" /\ Free /\ ~cancelled
  /\ stage' = [stage EXCEPT ![k] = "asking"]
  /\ UNCHANGED <<zone, heard, cancelled, changes, faults>>

(* The context ended before a slot was free, or before it was used.        *)
Abandon(k) ==
  /\ stage[k] = "waiting" /\ cancelled
  /\ stage' = [stage EXCEPT ![k] = "abandoned"]
  /\ UNCHANGED <<zone, heard, cancelled, changes, faults>>

Hears(k, v, answer) ==
  /\ stage[k] = "asking" /\ heard[k][v] = Pending
  /\ heard' = [heard EXCEPT ![k][v] = answer]
  /\ UNCHANGED <<zone, stage, cancelled, changes>>

(* An honest one serves what the zone holds, or held until a TTL runs out. *)
Answer(k, v) ==
  /\ \E S \in IF v \in Liars THEN Published(k) ELSE was[k] : Hears(k, v, Said(S))
  /\ UNCHANGED faults

(* SERVFAIL, a timeout, a server that refuses; or the context ended.       *)
Fail(k, v) ==
  /\ Hears(k, v, Failed)
  /\ IF cancelled THEN UNCHANGED faults
     ELSE faults < MaxFaults /\ faults' = faults + 1

(* Mutant: a lookup waits for nobody once the context has ended, and does  *)
(* not give its slot back.                                                 *)
ConcludeUncancelled(k) ==
  /\ stage[k] = "asking" /\ ~cancelled
  /\ \A v \in Vantages : heard[k][v] # Pending
  /\ stage' = [stage EXCEPT ![k] = "read"]
  /\ UNCHANGED <<zone, heard, cancelled, changes, faults>>

Conclude(k) ==
  /\ stage[k] = "asking" /\ \A v \in Vantages : heard[k][v] # Pending
  /\ stage' = [stage EXCEPT ![k] = "read"]
  /\ UNCHANGED <<zone, heard, cancelled, changes, faults>>

-----------------------------------------------------------------------------
(* Quorum.agree, over what was heard.                                      *)

(* Mutant: a failed lookup is an empty answer.                             *)
AnsweredAnyhow(k) == {v \in Vantages : heard[k][v] # Pending}

Answered(k)  == {v \in Vantages : heard[k][v].got = "answer"}

Holding(k, x) == {v \in Answered(k) : x \in heard[k][v].values}
Empty(k)      == {v \in Answered(k) : heard[k][v].values = {}}

(* Mutants: one fewer will do; one more is needed.                         *)
MeetsNearly(S) == Cardinality(S) + 1 >= Threshold
MeetsAmply(S)  == Cardinality(S) > Threshold

(* A threshold that cannot be met, or is none, verifies nothing.           *)
Meets(S) == Threshold \in 1..Cardinality(Vantages) /\ Cardinality(S) >= Threshold

Served(k) == UNION {heard[k][v].values : v \in Answered(k)}
Agreed(k) == {x \in Served(k) : Meets(Holding(k, x))}

(* Two CNAME targets that both reach the threshold are a split.            *)
NoQuorum(k) == IF Agreed(k) = {} THEN ~Meets(Empty(k))
               ELSE Type[k] = "CNAME" /\ Cardinality(Agreed(k)) # 1

Unknown(k) == stage[k] # "read" \/ NoQuorum(k)

(* One of the wanted values is among those read: the derived one, or any   *)
(* that the keyset accepts as proof (matchesAccepted).                     *)
Matched(k) == Agreed(k) \intersect Wanted[k] # {}

(* classify, and Proof.                                                    *)
State(k) ==
  CASE Unknown(k)                        -> "unknown"
    [] Agreed(k) = {}                    -> "absent"
    [] Itself \in Agreed(k)              -> "wrong_type"
    [] Matched(k)                        -> "present"
    [] Type[k] = "TXT"                   -> "absent"
    [] OTHER                             -> "conflicting"

(* Agreement: the weakest leg the reading rests on.                        *)
Weakest(k) ==
  IF Unknown(k) THEN 0
  ELSE IF Agreed(k) = {} THEN Cardinality(Empty(k))
  ELSE Min({Cardinality(Holding(k, x)) : x \in Agreed(k)})

Next ==
  \/ Cancel
  \/ \E k \in Keys : Change(k) \/ Dispatch(k) \/ Abandon(k) \/ Conclude(k)
  \/ \E k \in Keys, v \in Vantages : Answer(k, v) \/ Fail(k, v)

Spec == Init /\ [][Next]_vars

(* Every lookup answers or its timeout does; goroutines run.               *)
FairSpec ==
  /\ Spec
  /\ \A k \in Keys : WF_vars(Dispatch(k) \/ Abandon(k)) /\ WF_vars(Conclude(k))
  /\ \A k \in Keys, v \in Vantages : WF_vars(Answer(k, v) \/ Fail(k, v))

-----------------------------------------------------------------------------
Done(k) == stage[k] \in {"read", "abandoned"}

(* Fewer liars than the threshold cannot forge a reading: a value that is  *)
(* reported was published, and a name reported not to resolve did not, at  *)
(* some moment an honest vantage point saw - failures, cancelled lookups   *)
(* and caches included (Quorum).                                           *)
ReadingWasTrue == \A k \in Keys : Done(k) =>
  /\ \A x \in Agreed(k) : ~Unknown(k) => \E S \in was[k] : x \in S
  /\ ~Unknown(k) /\ Agreed(k) = {} => {} \in was[k]

(* The state a zone in which S is published deserves.                      *)
Deserved(k, S) ==
  CASE S = {Itself}                  -> "wrong_type"
    [] S \intersect Wanted[k] # {}   -> "present"
    [] S = {} \/ Type[k] = "TXT"     -> "absent"
    [] OTHER                         -> "conflicting"

(* And enough honest answers settle it: when the threshold saw one and the *)
(* same zone and nobody else has a say - the rest failed - the report is   *)
(* not unknown and is right (agree, classify).                             *)
AgreementDecides == \A k \in Keys, S \in UNION {Published(j) : j \in Keys} :
  (stage[k] = "read" /\ Cardinality(Answered(k)) >= Threshold
     /\ \A v \in Answered(k) : heard[k][v].values = S) =>
    State(k) = Deserved(k, S) /\ Weakest(k) = Cardinality(Answered(k))

(* A report ends with an observation for every name, however its lookups   *)
(* fail and whenever its context ends (resolveAll's slots).                *)
ReportEnds == \A k \in Keys : <>Done(k)

=============================================================================
