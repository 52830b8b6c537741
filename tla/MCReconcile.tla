----------------------------- MODULE MCReconcile -----------------------------
(* Reconcile on small instances: a routing CNAME and a proof TXT under the *)
(* anchor, one name outside it, and the target the next plan moves to.     *)
EXTENDS Reconcile, TLC

MCNames    == {"apex", "acct", "other"}
MCAnchored == {"apex", "acct"}
MCValues   == {"edge", "moved"}

Route(v, x) == [name |-> "acct", type |-> "CNAME", value |-> v, proxied |-> x]
Proof       == [name |-> "apex", type |-> "TXT", value |-> "edge", proxied |-> FALSE]
Proof2      == [name |-> "apex", type |-> "TXT", value |-> "moved", proxied |-> FALSE]
Stray       == [name |-> "other", type |-> "TXT", value |-> "edge", proxied |-> FALSE]

(* One plan; a second whose route moved; the three that are turned away.   *)
OnePlan   == {<<Route("edge", TRUE), Proof>>}
Symmetry  == Permutations(Passes)
AllPlans  == {<<Route("edge", TRUE), Proof>>, <<Proof2, Route("moved", FALSE)>>, <<>>,
              <<Route("edge", FALSE)>>, <<Proof, Stray>>, <<Route("edge", TRUE), Route("moved", TRUE)>>}
=============================================================================
