-------------------------- MODULE MCKvolveData ------------------------------
(* A namespace that is updated in place and renamed; for one question, one *)
(* that is renamed twice.                                                  *)
EXTENDS KvolveEager, TLC

CONSTANTS c1, c2, pa, pb

order == <<"order">>
foo_order == <<"foo", "order">>

Entry(n, v) == [ns |-> n, vers |-> v]
Upd(f, fv, t, tv) == [from_ns |-> f, to_ns |-> t, from_vers |-> fv, to_vers |-> tv]

MCNS == {order, foo_order}
OneProgram == {<<Entry(order, 1)>>}
Programs == {<<Entry(order, 1)>>, <<Entry(foo_order, 3)>>}
MCUpdates == {
    Upd(order, 1, order, 2),
    Upd(order, 2, foo_order, 3),
    Upd(foo_order, 3, foo_order, 4)}

\* Two strings, or one container.
MCTypings ==
    {[s \in Names |-> "string"]}
    \cup {[s \in Names |-> IF s = "1" THEN t ELSE "none"] : t \in {"set", "list", "zset"}}
Strings == {[s \in Names |-> "string"]}

FewUpdates == {Upd(order, 1, order, 2), Upd(order, 2, foo_order, 3)}

\* Renamed twice.
bar_order == <<"bar", "order">>
TwiceNS == {order, foo_order, bar_order}
TwiceUpdates == {Upd(order, 1, foo_order, 2), Upd(foo_order, 2, bar_order, 3)}

\* The last reply decides nothing that comes after it.
View == <<registryVars, db, tmp_store, type>>
Symmetry == Permutations({c1, c2})
=============================================================================
