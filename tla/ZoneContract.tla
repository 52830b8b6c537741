---------------------------- MODULE ZoneContract ----------------------------
(***************************************************************************)
(* What the delegated publisher promises about a customer's DNS zone, with *)
(* no word of how it publishes: the zone's rows, the edits the customer    *)
(* makes in their own dashboard, and the three things the engine may ever  *)
(* do to a row.  The customer's steps are counted, so that no step of the  *)
(* engine passes for one of theirs.  Reconcile implements this contract.   *)
(***************************************************************************)
EXTENDS Zone

CONSTANT Promised  \* the records the engine has been approved to publish

VARIABLE edits  \* the customer's steps so far

cvars == <<zone, issued, disturbed, edits>>

-----------------------------------------------------------------------------
(* The engine only ever adds a promised record, repairs the proxy flag of  *)
(* a row that already is a promised record, or - because no provider       *)
(* offers a conditional write - overwrites a row at a name whose rows the  *)
(* customer edited behind its back.  It has no step that removes a row.    *)

EngineAdds == \E r \in Promised : AddRow(r) /\ UNCHANGED <<disturbed, edits>>

EngineRepairs == \E i \in Ids, r \in Promised :
  /\ Live(i) /\ Same(zone[i], r)
  /\ zone' = [zone EXCEPT ![i] = r]
  /\ UNCHANGED <<issued, disturbed, edits>>

EngineOverwrites == \E i \in Ids, r \in Promised :
  /\ Live(i) /\ {zone[i].name, r.name} \subseteq disturbed
  /\ zone' = [zone EXCEPT ![i] = r]
  /\ UNCHANGED <<issued, disturbed, edits>>

CNext == \/ edits' = edits + 1 /\ (CustomerAdds \/ CustomerEdits \/ CustomerDeletes)
         \/ EngineAdds \/ EngineRepairs \/ EngineOverwrites

CSpec == ZoneInit /\ edits = 0 /\ [][CNext]_cvars
=============================================================================
