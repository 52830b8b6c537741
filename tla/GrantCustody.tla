---------------------------- MODULE GrantCustody ----------------------------
(***************************************************************************)
(* What the engine promises about a customer's delegated grants: at every  *)
(* moment the caller can name each, or the engine has it in hand, or it    *)
(* has ended - unless something befell it.  That takes a cause: a fault    *)
(* (a lost answer, a dead instance, a revocation the provider did not take,*)
(* a keyset the instance could not read), an OAuth client the provider has *)
(* begun to refuse, or a later authorization, whose grant takes the place  *)
(* of the earlier one at the caller.  One step costs one grant at most.    *)
(* GrantLifecycle implements this contract when the caller makes one call  *)
(* at a time per registration.                                             *)
(*                                                                         *)
(* It is a promise to each grant by itself: the answer that hands one to   *)
(* the caller may overwrite the row in which another was misfiled.         *)
(***************************************************************************)
EXTENDS Naturals

CONSTANT Grants    \* numbered in the order in which they are issued

VARIABLES custody,  \* where each grant is
          owner,    \* grant -> the registration it was given for
          lapsed,   \* the grants something befell
          faults,   \* how many there were
          outdated  \* the provider refuses the engine's client

contract == <<custody, owner, lapsed, faults, outdated>>

Live   == {"engine", "caller", "lost"}
Places == {"none", "ended"} \union Live

Init == /\ custody = [g \in Grants |-> "none"] /\ lapsed = {}
        /\ faults = 0 /\ outdated = FALSE

Moves(g, from, to) == custody[g] \in from /\ custody'[g] = to

Keep(g) == custody'[g] = custody[g]
Take(g) == Moves(g, {"none", "caller"}, "engine")
Give(g) == Moves(g, {"engine"}, "caller")
End(g)  == Moves(g, {"none"} \union Live, "ended")
Lose(g) == g \in lapsed' /\ Moves(g, {"none", "engine", "caller"}, "lost")

(* The caller comes upon a copy of what it had discarded.                  *)
Find(g) == g \in lapsed /\ Moves(g, {"lost"}, "caller")

Superseded(g) == \E h \in Grants : h > g /\ owner[h] = owner[g]

Lapses == /\ lapsed \subseteq lapsed'
          /\ \A g, h \in lapsed' \ lapsed : g = h
          /\ \A g \in lapsed' \ lapsed : faults' = faults + 1 \/ outdated \/ Superseded(g)

Next == /\ custody' \in [Grants -> Places]
        /\ \A g \in Grants : custody[g] # "none" => owner'[g] = owner[g]
        /\ \A g \in Grants : Keep(g) \/ Take(g) \/ Give(g) \/ End(g) \/ Lose(g) \/ Find(g)
        /\ Lapses

Spec == Init /\ [][Next]_contract
=============================================================================
