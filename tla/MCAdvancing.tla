----------------------------- MODULE MCAdvancing -----------------------------
(* One domain typed in four ways, plans of up to two rows that differ in   *)
(* spelling, order, text or reach, and clocks that are the declared one    *)
(* scaled down, and variations of it nobody has declared yet.              *)
EXTENDS Advancing

CONSTANTS shop, www, other, t1, t2, g1, g2, long

MCCores == {shop, www, other}
MCUnder == {<<www, shop>>}

At(core, upper, tail) == [core |-> core, upper |-> upper, tail |-> tail]
Plain(core) == At(core, FALSE, <<>>)
Loud(core)  == At(core, TRUE, <<"dot", "space">>)
Row(name, text) ==
  [type |-> "CNAME", name |-> name, value |-> [text |-> text, padded |-> FALSE], proxied |-> FALSE]
Padded(row) == [row EXCEPT !.value.padded = TRUE]

MCTyped == {Plain(shop), Loud(shop), At(shop, FALSE, <<"space", "dot">>),
            At(shop, FALSE, <<"dot", "dot">>)}

MCDerived ==
  { <<Row(Plain(www), t1)>>,
    <<Row(Loud(www), t1), Padded(Row(Plain(www), t1))>>,
    <<Row(Plain(www), t2)>>,
    <<Row(Plain(www), t1), Row(Plain(shop), t2)>>, <<Row(Plain(shop), t2), Row(Loud(www), t1)>>,
    <<Row(Plain(www), g1)>>, <<Row(Plain(www), g2)>>,
    <<Row(Plain(other), t1)>>, <<>> }

MCRelayed == {<<>>, <<Row(At(www, TRUE, <<"space", "dot">>), t2)>>, <<Row(Plain(shop), long)>>,
              <<Row(At(Nothing, FALSE, <<"dot">>), t1)>>}

Clock(interval, jitter, floor, first, factor, max) ==
  [Interval |-> interval, Jitter |-> jitter, MinInterval |-> floor,
   First |-> first, Factor |-> factor, Max |-> max]

MCCadences ==
  { Clock(5, 2, 1, 1, 2, 12), Clock(5, 2, 1, 1, 2, 0), Clock(2, 0, 3, 3, 3, 7),
    Clock(3, -2, 3, 3, 1, 9), Clock(5, 2, 1, 9, 2, 4), Clock(0, 2, -1, 1, 2, 3) }
=============================================================================
