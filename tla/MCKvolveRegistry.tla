-------------------------- MODULE MCKvolveRegistry --------------------------
(* Two independent namespaces, one of which is renamed; updates that fit    *)
(* together and updates whose from_vers or to_vers do not.                  *)
EXTENDS KvolveRegistry, TLC

CONSTANTS c1, c2, c3, order, foo_order, bar_order

MCNS == {order, foo_order, bar_order}

Entry(n, v) == [ns |-> n, vers |-> v]
Upd(f, fv, t, tv) == [from_ns |-> f, to_ns |-> t, from_vers |-> fv, to_vers |-> tv]

MCDeclarations == {
    <<Entry(order, 1)>>,
    <<Entry(order, 2)>>,
    <<Entry(foo_order, 2)>>,
    <<Entry(bar_order, 1), Entry(order, 3)>>}

MCUpdates == {
    Upd(order, 1, order, 2),
    Upd(order, 1, foo_order, 2),
    Upd(foo_order, 2, foo_order, 3),
    Upd(foo_order, 2, bar_order, 1),
    Upd(bar_order, 1, order, 3)}

Symmetry == Permutations({c1, c2, c3})
=============================================================================
