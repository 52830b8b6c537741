------------------------------- MODULE DnsPlan -------------------------------
(***************************************************************************)
(* internal/dnsplan: the record set a grant is bounded by, from any        *)
(* spelling of it to the snapshot whose digest ties what was reviewed to   *)
(* what is written.  A result carries the sentinels Dispatch knows.        *)
(*                                                                         *)
(* A name is a core - a name in its one canonical spelling, or nothing -   *)
(* with the case it is written in and the dots and spaces that trail it.   *)
(* A value is a text that may be padded with spaces.                       *)
(***************************************************************************)
EXTENDS Sequences, Dispatch

CONSTANTS Cores,       \* canonical names
          Under,       \* the pairs <<name, ancestor>>: proper suffix at a dot
          Texts,       \* texts of values that are valid UTF-8, and not too long
          Garbled,     \* texts that are not valid UTF-8
          Overlong,    \* texts past MaxRecordIdentity
          MaxTail,     \* bound: trailing dots and spaces
          MaxRecords   \* the most records of a plan

Nothing == "nothing"   \* the empty name, the empty value
Tails   == UNION {[1..n -> {"dot", "space"}] : n \in 0..MaxTail}
Names   == [core : Cores \union {Nothing}, upper : BOOLEAN, tail : Tails]
Values  == [text : Texts \union Garbled \union Overlong \union {Nothing}, padded : BOOLEAN]
Record  == [type : {"CNAME", "TXT", "A"}, name : Names, value : Values, proxied : BOOLEAN]

ASSUME CoresAssumption == /\ Nothing \notin Cores /\ Under \subseteq Cores \X Cores
                          /\ \A pair \in Under : <<pair[2], pair[1]>> \notin Under
ASSUME TextsAssumption == /\ Nothing \notin Texts \union Garbled \union Overlong
                          /\ Texts \cap (Garbled \union Overlong) = {}
ASSUME PlanBounds      == {MaxTail, MaxRecords} \subseteq Nat

-----------------------------------------------------------------------------
(* NormalizeName.                                                          *)

EndsIn(tail, mark) == tail # <<>> /\ tail[Len(tail)] = mark
Cut(tail)          == SubSeq(tail, 1, Len(tail) - 1)

TrimSpace[tail \in Tails] == IF EndsIn(tail, "space") THEN TrimSpace[Cut(tail)] ELSE tail

TrimDots[tail \in Tails] ==
  IF EndsIn(tail, "dot") THEN TrimDots[TrimSpace[Cut(tail)]] ELSE tail

(* Mutant: the root dot is trimmed once, after the space.                  *)
NormalizeNameOnce(name) ==
  LET tail == TrimSpace[name.tail]
  IN  [name EXCEPT !.upper = FALSE, !.tail = IF EndsIn(tail, "dot") THEN Cut(tail) ELSE tail]

NormalizeName(name) ==
  [name EXCEPT !.upper = FALSE, !.tail = TrimDots[TrimSpace[name.tail]]]

Empty(name) == name.core = Nothing /\ name.tail = <<>>

(* At or under.                                                            *)
Contains(anchor, name) ==
  LET a == NormalizeName(anchor)
      n == NormalizeName(name)
  IN  /\ ~Empty(a) /\ ~Empty(n)
      /\ n = a \/ (<<n.core, a.core>> \in Under /\ n.tail = a.tail)

-----------------------------------------------------------------------------
(* A loop over rows returns at the first that offends.                     *)
FirstOf(errors) ==
  LET bad == {k \in DOMAIN errors : errors[k] # {}}
  IN  IF bad = {} THEN {} ELSE errors[CHOOSE k \in bad : \A j \in bad : k <= j]

(* NormalizeRecords.                                                       *)

NormalizeRecord(r) ==
  [r EXCEPT !.name = NormalizeName(@), !.value = [@ EXCEPT !.padded = FALSE]]

Incomplete(r) == r.type \notin {"CNAME", "TXT"} \/ Empty(r.name) \/ r.value.text = Nothing

(* Mutant: the encoding of a value is not looked at.                       *)
UnfitIfOverlong(r) == r.value.text \in Overlong

Unfit(r) == r.value.text \in Garbled \union Overlong

identity(r) == <<r.type, r.name, r.value>>

RowError(r) == IF Incomplete(r) THEN {"ErrPlanPreparing"}
               ELSE IF Unfit(r) THEN {"ErrPlanInvalid"} ELSE {}

RecordsError(rows) == FirstOf([k \in DOMAIN rows |-> RowError(rows[k])])

(* Mutant: a row repeated is kept twice.                                   *)
DistinctNot(rows) == rows

Repeats(rows, r) == \E k \in DOMAIN rows : identity(rows[k]) = identity(r)

Distinct(rows) ==
  LET kept[n \in 0..Len(rows)] ==
        IF n = 0 THEN <<>>
        ELSE IF Repeats(kept[n - 1], rows[n]) THEN kept[n - 1]
        ELSE Append(kept[n - 1], rows[n])
  IN  kept[Len(rows)]

Normalized(rows) == [k \in DOMAIN rows |-> NormalizeRecord(rows[k])]

-----------------------------------------------------------------------------
Snapshot(anchor, rows) == [anchor |-> anchor, records |-> rows]
NoSnapshot == [anchor |-> [core |-> Nothing, upper |-> FALSE, tail |-> <<>>], records |-> <<>>]

Identities(s) == {identity(s.records[k]) : k \in DOMAIN s.records}

Escapes(s) == \E k \in DOMAIN s.records : ~Contains(s.anchor, s.records[k].name)

(* What NewSnapshot makes of a plan, and why it refuses one.               *)
NewSnapshot(anchor, rows) ==
  Snapshot(NormalizeName(anchor), Distinct(Normalized(rows)))

(* Mutant: the records are not counted.                                    *)
NewSnapshotErrorUncounted(anchor, rows) ==
  LET s == NewSnapshot(anchor, rows) IN
  IF RecordsError(Normalized(rows)) # {} THEN RecordsError(Normalized(rows))
  ELSE IF Escapes(s) THEN AnchorEscape ELSE {}

NewSnapshotError(anchor, rows) ==
  LET s == NewSnapshot(anchor, rows) IN
  IF Empty(s.anchor) THEN {"ErrPlanInvalid"}
  ELSE IF RecordsError(Normalized(rows)) # {} THEN RecordsError(Normalized(rows))
  ELSE IF Len(s.records) \notin 1..MaxRecords THEN {"ErrPlanPreparing"}
  ELSE IF Escapes(s) THEN AnchorEscape ELSE {}

(* encoding/json repairs what is not UTF-8: every such text is one text.   *)
Marshal(text) == IF text \in Garbled THEN "replaced" ELSE text

Marshalled(r) == [r EXCEPT !.value.text = Marshal(@)]

Digest(s) == Snapshot(s.anchor, [k \in DOMAIN s.records |-> Marshalled(s.records[k])])

(* Every invariant again, of a snapshot read back.                         *)
ValidateError(s, digest) ==
  IF \/ Empty(s.anchor) \/ s.anchor # NormalizeName(s.anchor)
     \/ Len(s.records) \notin 1..MaxRecords THEN {"ErrPlanInvalid"}
  ELSE IF \/ RecordsError(Normalized(s.records)) # {}
          \/ Distinct(Normalized(s.records)) # s.records THEN {"ErrPlanInvalid"}
  ELSE IF Escapes(s) THEN AnchorEscape
  ELSE IF Digest(s) # digest THEN {"ErrPlanInvalid"} ELSE {}

CoveredBy(s, other) == s.anchor = other.anchor /\ Identities(s) \subseteq Identities(other)
=============================================================================
