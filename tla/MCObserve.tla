----------------------------- MODULE MCObserve -----------------------------
(* Three vantage points of which one lies, two to agree; a TXT owner that  *)
(* may hold another value beside the wanted one, and a routing CNAME.      *)
EXTENDS Observe, TLC

CONSTANTS r1, r2, r3

ThreeVantages == {r1, r2, r3}
OneLiar       == {r3}
MCKeys        == {"txt", "route"}
MCType        == [k \in MCKeys |-> IF k = "txt" THEN "TXT" ELSE "CNAME"]
MCValues      == {"want", "other"}
MCStart       == {[txt |-> S, route |-> {x}] :
                    S \in {{}, {"want", "other"}}, x \in {"want", Itself}}
MCWanted      == [k \in MCKeys |-> {"want"}]
=============================================================================
