------------------------------- MODULE MCLur --------------------------------
(* Instances of the LazyUpdateRedis clients for TLC. *)
EXTENDS LurEager, TLC

CONSTANTS v0, v1, v2

Program(n, v) == [ns |-> n, ver |-> v]
Update(n, m, v, w, g) == [oldns |-> n, ns |-> m, from |-> v, to |-> w, glob |-> g]

\* One namespace, two updates in a row: the first changes every key, the
\* second none.
Programs3 == {Program("edge", v0), Program("edge", v1), Program("edge", v2)}
Chain == {Update("edge", "edge", v0, v1, Suffix), Update("edge", "edge", v1, v2, {})}

\* Two texts for one update, and a rename, loaded by whoever comes first.
TwoSpaces == {Program("edge", v0), Program("link", v1)}
Rivals == {Update("edge", "edge", v0, v1, Suffix), Update("edge", "edge", v0, v1, {}),
           Update("edge", "link", v0, v2, Suffix), Update("edge", "link", v1, v2, Suffix)}

\* One update, and one that renames the namespace.
One == {Update("edge", "edge", v0, v1, Suffix)}
Programs2 == {Program("edge", v0), Program("edge", v1)}
Rename == {Update("edge", "link", v0, v1, Suffix)}
RenamePrograms == {Program("edge", v0), Program("link", v1)}

\* The last answer decides nothing.
View == <<versionVars, db, scan>>

Symmetry == Permutations(Client)
=============================================================================
