-------------------------------- MODULE Zone --------------------------------
(***************************************************************************)
(* A customer's DNS zone as the provider's API shows it: rows with an id,  *)
(* and the customer, who edits them in the provider's own dashboard.       *)
(***************************************************************************)
EXTENDS Integers

CONSTANTS Names,     \* owner names, in normal form
          Values,    \* record values, up to the provider's SameValue
          MaxRows,   \* bound: rows ever created in the zone
          NoRow      \* an id with no row behind it

Types  == {"CNAME", "TXT"}
(* Only a routing CNAME can be proxied.                                    *)
Record == {r \in [name : Names, type : Types, value : Values, proxied : BOOLEAN] :
             r.type = "TXT" => ~r.proxied}
Ids    == 1..MaxRows

ASSUME RowsAssumption  == MaxRows \in Nat
ASSUME NoRowAssumption == NoRow \notin Record

VARIABLES zone,       \* the live rows, by provider id
          issued,     \* ids handed out so far; an id is never reused
          disturbed   \* names at which the customer edited or deleted a row

Live(i) == zone[i] # NoRow

(* Two rows are the same record when everything but the proxy flag agrees. *)
Same(r, s) == r.name = s.name /\ r.type = s.type /\ r.value = s.value

ZoneInit == /\ zone = [i \in Ids |-> NoRow]
            /\ issued = 0
            /\ disturbed = {}

-----------------------------------------------------------------------------
(* The customer owns the zone and may do anything to it at any time.       *)

AddRow(r) == /\ issued < MaxRows
             /\ issued' = issued + 1
             /\ zone' = [zone EXCEPT ![issued + 1] = r]

CustomerAdds == \E r \in Record : AddRow(r) /\ UNCHANGED disturbed

CustomerEdits == \E i \in Ids, r \in Record :
  /\ Live(i)
  /\ zone' = [zone EXCEPT ![i] = r]
  /\ disturbed' = disturbed \union {zone[i].name, r.name}
  /\ UNCHANGED issued

CustomerDeletes == \E i \in Ids :
  /\ Live(i)
  /\ zone' = [zone EXCEPT ![i] = NoRow]
  /\ disturbed' = disturbed \union {zone[i].name}
  /\ UNCHANGED issued

=============================================================================
