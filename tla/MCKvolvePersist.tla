-------------------------- MODULE MCKvolvePersist ---------------------------
(* One program, a rename and an update in place, up to the last version    *)
(* that one byte can hold.                                                 *)
EXTENDS KvolvePersist

CONSTANTS c1, a

order == <<"order">>
foo_order == <<"foo", "order">>
MCNS == {order, foo_order}
OneProgram == {<<[ns |-> order, vers |-> 253]>>}
Upd(f, fv, t, tv) == [from_ns |-> f, to_ns |-> t, from_vers |-> fv, to_vers |-> tv]
MCUpdates == {Upd(order, 253, foo_order, 254), Upd(foo_order, 254, foo_order, 255)}

\* A set with a string beside it, or a sorted set.
MCTypings ==
    {[s \in Names |-> IF s = "1" THEN "set" ELSE "string"],
     [s \in Names |-> IF s = "1" THEN "zset" ELSE "none"]}

\* The last reply decides nothing that comes after it.
View == <<registryVars, db, tmp_store, type, persistVars>>
=============================================================================
