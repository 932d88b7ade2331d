--------------------------- MODULE MCKvolveMulti ----------------------------
(* Two programs of a namespace that is renamed once. *)
EXTENDS KvolveMulti, KvolveEager, TLC

CONSTANTS c1, c2, pa, pb

order == <<"order">>
foo_order == <<"foo", "order">>
MCNS == {order, foo_order}
Programs == {<<[ns |-> order, vers |-> 1]>>, <<[ns |-> foo_order, vers |-> 2]>>}
Rename == {[from_ns |-> order, to_ns |-> foo_order, from_vers |-> 1, to_vers |-> 2]}

\* One name, used for a string or for a hash.
MCTypings == {[s \in Names |-> t] : t \in {"string", "hash"}}

\* The last reply decides nothing that comes after it.
View == <<registryVars, db, tmp_store, type, multiVars>>
=============================================================================
