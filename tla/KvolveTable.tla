----------------------------- MODULE KvolveTable ----------------------------
(***************************************************************************)
(* The table of namespaces where updates start from the version in use and *)
(* lead to one the history does not have, and are loaded by a program of   *)
(* the namespace, or from outside while its programs are stopped.          *)
(* kvolve_upd.h also lets others load updates under running programs: one  *)
(* of them is then left behind (NoStaleClient in KvolveRegistry).          *)
(***************************************************************************)
EXTENDS KvolveRegistry

\* The client c may load u.
DocumentedUpdate(c, u) ==
    upd_spec_accepts(u) =>
        /\ \/ declared[c][u.from_ns] = u.from_vers
           \/ \A d \in Client : conn[d] = "open" => declared[d][u.from_ns] = NULL
        /\ Latest(u.from_ns) = u.from_vers /\ next_ns[u.from_ns] = NULL
        /\ u.to_vers \notin Elements(versions[u.from_ns])

\* The steps of the registry then.
TableStep(c) ==
    \/ connect(c) \/ freeClient(c)
    \/ \E d \in Declarations : kvolve_check_version(c, d)
    \/ \E u \in Updates : DocumentedUpdate(c, u) /\ kvolve_load_update(c, u)

-----------------------------------------------------------------------------
(* The histories that documented updates make *)

\* What is asked of the update u itself.
Documented(u) ==
    /\ Latest(u.from_ns) = u.from_vers /\ next_ns[u.from_ns] = NULL
    /\ u.to_vers \notin Elements(versions[u.from_ns])

\* The history of n: no version twice, and each update starts from the version
\* before it and from a name that already exists at that place.
HistoryOf(n) ==
    /\ \A i, j \in 1..Len(versions[n]) : versions[n][i] = versions[n][j] => i = j
    /\ \A i \in 2..Len(versions[n]) :
         /\ info[n][i].from_vers = versions[n][i - 1]
         /\ Registered(info[n][i].from_ns)
         /\ prev_ns[info[n][i].from_ns] # NULL =>
              i > Len(versions[prev_ns[info[n][i].from_ns]]) + 1

\* n goes on where the namespace it was renamed from has stopped.
LinksOf(n) ==
    /\ prev_ns[n] # NULL =>
         /\ prev_ns[n] # n /\ Registered(prev_ns[n]) /\ next_ns[prev_ns[n]] = n
         /\ Len(versions[prev_ns[n]]) < Len(versions[n])
         /\ \A i \in 1..Len(versions[prev_ns[n]]) : versions[n][i] = versions[prev_ns[n]][i]
    /\ next_ns[n] # NULL => prev_ns[next_ns[n]] = n
DocHistory == \A n \in NS : HistoryOf(n) /\ LinksOf(n)

\* The invariant of the registry that the proofs about data start from.
TableInv == RegistryTypeOK /\ TableConsistent /\ HistoryAligned /\ DocHistory /\ NoStaleClient

\* What a step never does to the entries of the table.
Grows ==
    \A n \in NS : Registered(n) =>
        /\ Len(versions'[n]) >= Len(versions[n])
        /\ \A i \in 1..Len(versions[n]) :
             versions'[n][i] = versions[n][i] /\ info'[n][i] = info[n][i]
        /\ prev_ns'[n] = prev_ns[n]
        /\ next_ns[n] # NULL => next_ns'[n] # NULL

-----------------------------------------------------------------------------
(* Names that follow each other *)

\* The first and the last of them.
Root(n) == CHOOSE m \in Lineage(n) : prev_ns[m] = NULL
Current(n) == CHOOSE m \in NS : next_ns[m] = NULL /\ n \in Lineage(m)

\* No update renames what an update has renamed to.
RenamedOnce ==
    \A u, w \in Updates : u.from_ns # u.to_ns /\ w.from_ns # w.to_ns => u.to_ns # w.from_ns

\* A name before another is there by a rename.
ByRename ==
    \A n \in NS : prev_ns[n] # NULL =>
        \E u \in Updates : u.from_ns # u.to_ns /\ u.from_ns = prev_ns[n] /\ u.to_ns = n
=============================================================================
