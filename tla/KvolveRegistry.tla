--------------------------- MODULE KvolveRegistry ---------------------------
(***************************************************************************)
(* The namespace registry of KVolve (kvolve_internal.c): the hash table    *)
(* vers_list, the clients registered in each entry, and the two handlers   *)
(* that change them, kvolve_check_version ("client setname ns@v,...") and  *)
(* kvolve_load_update ("client setname update/path", which runs            *)
(* kvolve_upd_spec).  Redis runs one command at a time, so a handler is    *)
(* one atomic action.                                                      *)
(*                                                                         *)
(* struct version_hash is kept as one total function per field; a          *)
(* namespace is in the table exactly when its list of versions is          *)
(* not empty.  num_versions is Len(versions[n]).                           *)
(***************************************************************************)
EXTENDS RedisObjects, Naturals, Sequences

CONSTANTS
    Client,       \* connection ids (redisClient.id: assigned once, never reused)
    NS,           \* namespace names
    Vers,         \* version numbers
    Declarations, \* what "client setname" may declare: sequences of [ns, vers]
    Updates,      \* the kvolve_upd_spec calls of the update files
    KV_INIT_SZ    \* slots allocated for versions and info

UpdInfo == [from_ns : NS, to_ns : NS, from_vers : Vers, to_vers : Vers]

ASSUME RegistryAssumption ==
    /\ Updates \subseteq UpdInfo
    /\ \A d \in Declarations : d \in Seq([ns : NS, vers : Vers]) /\ d # << >>
    /\ KV_INIT_SZ \in Nat \ {0}
    /\ NULL \notin NS /\ NULL \notin Vers /\ NULL \notin UpdInfo

VARIABLES
    versions, info, prev_ns, next_ns, is, \* the fields of version_hash, per namespace
    conn,     \* state of each connection: "new", "open" or "closed"
    declared  \* the version each client program is written for, per namespace

tableVars == <<versions, info, prev_ns, next_ns>>
registryVars == <<versions, info, prev_ns, next_ns, is, conn, declared>>

\* The fields of the table, the client sets and the connections have their
\* types, also after the kill loop of kvolve_upd_spec.
RegistryTypeOK ==
    /\ versions \in [NS -> Seq(Vers)]
    /\ info \in [NS -> Seq(UpdInfo \cup {NULL})]
    /\ prev_ns \in [NS -> NS \cup {NULL}]
    /\ next_ns \in [NS -> NS \cup {NULL}]
    /\ is \in [NS -> SUBSET Client]
    /\ conn \in [Client -> {"new", "open", "closed"}]
    /\ declared \in [Client -> [NS -> Vers \cup {NULL}]]

Registered(n) == versions[n] # << >>
Latest(n) == versions[n][Len(versions[n])]
Elements(s) == {s[i] : i \in DOMAIN s}

RegistryInit ==
    /\ versions = [n \in NS |-> << >>]
    /\ info = [n \in NS |-> << >>]
    /\ prev_ns = [n \in NS |-> NULL]
    /\ next_ns = [n \in NS |-> NULL]
    /\ is = [n \in NS |-> {}]
    /\ conn = [c \in Client |-> "new"]
    /\ declared = [c \in Client |-> [n \in NS |-> NULL]]

-----------------------------------------------------------------------------
(* Connections *)

connect(c) ==
    /\ conn[c] = "new"
    /\ conn' = [conn EXCEPT ![c] = "open"]
    /\ UNCHANGED <<tableVars, is, declared>>

\* The client goes away by itself.  freeClient knows nothing of vers_list:
\* the id stays in every set it was added to.
freeClient(c) ==
    /\ conn[c] = "open"
    /\ conn' = [conn EXCEPT ![c] = "closed"]
    /\ UNCHANGED <<tableVars, is, declared>>

-----------------------------------------------------------------------------
(* kvolve_check_version: the entries of the declaration are processed from *)
(* left to right, and the first bad one turns the command into "quit".     *)

\* An earlier entry of the same declaration may have created the namespace.
EntryAccepted(d, i) ==
    LET n == d[i].ns IN
    IF Registered(n)
    THEN Latest(n) = d[i].vers /\ next_ns[n] = NULL
    ELSE \A j \in 1..(i - 1) : d[j].ns = n => d[j].vers = d[i].vers

\* The entries that take effect: the ones before the first bad one.
Processed(d) == {i \in DOMAIN d : \A j \in 1..i : EntryAccepted(d, j)}

kvolve_check_version(c, d) ==
    LET done == Processed(d)
        named == {d[i].ns : i \in done}
        created == {n \in named : ~Registered(n)}
        versOf(n) == d[CHOOSE i \in done : d[i].ns = n].vers
        accepted == done = DOMAIN d
    IN  /\ conn[c] = "open"
        /\ versions' = [n \in NS |-> IF n \in created THEN <<versOf(n)>> ELSE versions[n]]
        /\ info' = [n \in NS |-> IF n \in created THEN <<NULL>> ELSE info[n]]
        /\ is' = [n \in NS |-> IF n \in named THEN is[n] \cup {c} ELSE is[n]]
        /\ conn' = [conn EXCEPT ![c] = IF accepted THEN "open" ELSE "closed"]
        /\ declared' = [declared EXCEPT ![c] =
                          [n \in NS |-> IF accepted /\ n \in named THEN versOf(n) ELSE @[n]]]
        /\ UNCHANGED <<prev_ns, next_ns>>

-----------------------------------------------------------------------------
(* kvolve_upd_spec *)

\* The namespace and the ones it was renamed from, along prev_ns.
Lineage(n) ==
    {m \in NS : \A S \in SUBSET NS :
        (n \in S /\ \A x \in S : prev_ns[x] # NULL => prev_ns[x] \in S) => m \in S}

\* Mutants of the checks below, one check forgotten in each.
accepts_unknown_ns(u) ==
    /\ u.from_ns # u.to_ns => ~Registered(u.to_ns)
    /\ u.from_ns = u.to_ns =>
         /\ Registered(u.to_ns) /\ u.to_vers \notin Elements(versions[u.to_ns])
         /\ prev_ns[u.to_ns] = NULL => Latest(u.to_ns) = u.from_vers
accepts_merge(u) ==
    /\ Registered(u.from_ns)
    /\ u.from_ns = u.to_ns =>
         /\ u.to_vers \notin Elements(versions[u.to_ns])
         /\ prev_ns[u.to_ns] = NULL => Latest(u.to_ns) = u.from_vers
accepts_loaded_vers(u) ==
    /\ Registered(u.from_ns)
    /\ u.from_ns # u.to_ns => ~Registered(u.to_ns)
    /\ u.from_ns = u.to_ns => (prev_ns[u.to_ns] = NULL => Latest(u.to_ns) = u.from_vers)
accepts_gap(u) ==
    /\ Registered(u.from_ns)
    /\ u.from_ns # u.to_ns => ~Registered(u.to_ns)
    /\ u.from_ns = u.to_ns => u.to_vers \notin Elements(versions[u.to_ns])

upd_spec_accepts(u) ==
    /\ Registered(u.from_ns)
    /\ u.from_ns # u.to_ns => ~Registered(u.to_ns)
    /\ u.from_ns = u.to_ns =>
         /\ u.to_vers \notin Elements(versions[u.to_ns])
         /\ prev_ns[u.to_ns] = NULL => Latest(u.to_ns) = u.from_vers

\* The loop "kill off deprecated clients" empties the set of every namespace
\* of L at random until one id is left, passing over the caller c: the caller
\* is left if it is a member, else any one member (keep[n]) is.
SurvivorsAre(L, keep) == \A n \in L : is[n] # {} => keep[n] \in is[n]
\* Mutants: nobody is removed when the caller is not a member; the loop ends
\* with two ids left.
is_after_member_kill(c, L, keep) ==
    [n \in NS |-> IF n \in L /\ c \in is[n] THEN {c} ELSE is[n]]
is_after_short_kill(c, L, keep) ==
    [n \in NS |-> IF n \in L THEN is[n] \cap {c, keep[n]} ELSE is[n]]
IsAfterKill(c, L, keep) ==
    [n \in NS |-> IF n \notin L THEN is[n]
                  ELSE IF c \in is[n] THEN {c} ELSE is[n] \cap {keep[n]}]
Killed(c, L, keep) == UNION {is[n] \ IsAfterKill(c, L, keep)[n] : n \in L}
\* Mutants: the id is dropped and the connection forgotten; the connection is
\* only marked to be closed.
conn_never_freed(c, L, keep) == conn
conn_freed_later(c, L, keep) ==
    [x \in Client |-> IF x \in Killed(c, L, keep) /\ conn[x] = "open" THEN "closing" ELSE conn[x]]
ConnAfterKill(c, L, keep) ==
    [x \in Client |-> IF x \in Killed(c, L, keep) /\ conn[x] = "open" THEN "closed" ELSE conn[x]]

\* from_ns # to_ns: kvolve_create_ns copies the history of from_ns.  The
\* calling program moves to the new namespace.
upd_spec_new_ns(c, u) ==
    /\ conn[c] = "open"
    /\ upd_spec_accepts(u)
    /\ u.from_ns # u.to_ns
    /\ versions' = [versions EXCEPT ![u.to_ns] = Append(versions[u.from_ns], u.to_vers)]
    /\ info' = [info EXCEPT ![u.to_ns] = Append(info[u.from_ns], u)]
    /\ prev_ns' = [prev_ns EXCEPT ![u.to_ns] = u.from_ns]
    /\ next_ns' = [next_ns EXCEPT ![u.from_ns] = u.to_ns]
    /\ \E keep \in [Lineage(u.from_ns) -> Client] :
         /\ SurvivorsAre(Lineage(u.from_ns), keep)
         /\ is' = [IsAfterKill(c, Lineage(u.from_ns), keep) EXCEPT ![u.to_ns] = {c}]
         /\ conn' = ConnAfterKill(c, Lineage(u.from_ns), keep)
    /\ declared' = IF declared[c][u.from_ns] = NULL THEN declared
                   ELSE [declared EXCEPT ![c] = [@ EXCEPT ![u.from_ns] = NULL,
                                                          ![u.to_ns] = u.to_vers]]

\* from_ns = to_ns: a further version of a namespace.  The clients are gone
\* before the room for the version is checked.
upd_spec_same_ns(c, u) ==
    LET n == u.to_ns
        room == Len(versions[n]) <= KV_INIT_SZ
    IN  /\ conn[c] = "open"
        /\ upd_spec_accepts(u)
        /\ u.from_ns = u.to_ns
        /\ \E keep \in [Lineage(n) -> Client] :
             /\ SurvivorsAre(Lineage(n), keep)
             /\ is' = [IsAfterKill(c, Lineage(n), keep) EXCEPT ![n] = @ \cup {c}]
             /\ conn' = ConnAfterKill(c, Lineage(n), keep)
        /\ versions' = IF room THEN [versions EXCEPT ![n] = Append(@, u.to_vers)] ELSE versions
        /\ info' = IF room THEN [info EXCEPT ![n] = Append(@, u)] ELSE info
        /\ declared' = IF room /\ declared[c][n] # NULL
                       THEN [declared EXCEPT ![c] = [@ EXCEPT ![n] = u.to_vers]]
                       ELSE declared
        /\ UNCHANGED <<prev_ns, next_ns>>

\* A spec that is turned down, or a file that cannot be opened, changes nothing.
upd_spec_rejected(c, u) ==
    /\ conn[c] = "open"
    /\ ~upd_spec_accepts(u)
    /\ UNCHANGED registryVars

kvolve_load_update(c, u) ==
    upd_spec_new_ns(c, u) \/ upd_spec_same_ns(c, u) \/ upd_spec_rejected(c, u)

RegistryNext ==
    \E c \in Client :
        \/ connect(c)
        \/ freeClient(c)
        \/ \E d \in Declarations : kvolve_check_version(c, d)
        \/ \E u \in Updates : kvolve_load_update(c, u)

RegistrySpec == RegistryInit /\ [][RegistryNext]_registryVars

-----------------------------------------------------------------------------
(* What the registry promises *)

\* Entry b of the history of n is the update that renamed prev_ns[n] to n.
BornAt(n, b) ==
    /\ b \in 2..Len(versions[n])
    /\ info[n][b].from_ns = prev_ns[n] /\ info[n][b].to_ns = n

\* versions and info stay parallel: only the first version has no update
\* leading to it, and the update at i leads to the version at i.
\* kvolve_check_update_kv_pair indexes both with one counter.
HistoryAligned ==
    \A n \in NS :
        /\ Len(info[n]) = Len(versions[n])
        /\ \A i \in 1..Len(info[n]) :
             IF i = 1 THEN info[n][i] = NULL
             ELSE info[n][i] # NULL /\ info[n][i].to_vers = versions[n][i]

\* A renamed namespace shares with the one it came from everything up to the
\* rename, whatever was loaded into either since, and came later than it; all
\* other updates of n are from n to n.  So a key stored under the old name
\* finds its version in the new table, an inherited update
\* (from_ns # v->ns) occurs only where prev_ns is set
\* (kvolve_namespace_update reads it unchecked), and the walks along prev_ns end.
HistoryShared ==
    \A n \in NS : Registered(n) =>
        IF prev_ns[n] = NULL
        THEN \A i \in 2..Len(info[n]) : info[n][i].from_ns = n /\ info[n][i].to_ns = n
        ELSE LET p == prev_ns[n] IN
             \E b \in 2..Len(versions[n]) :
               /\ Registered(p) /\ p # n /\ next_ns[p] # NULL /\ BornAt(n, b)
               /\ b - 1 <= Len(versions[p])
               /\ \A i \in 1..(b - 1) : versions[n][i] = versions[p][i] /\ info[n][i] = info[p][i]
               /\ \A i \in (b + 1)..Len(info[n]) : info[n][i].from_ns = n /\ info[n][i].to_ns = n
               /\ \A a \in 2..Len(versions[p]) : prev_ns[p] # NULL /\ BornAt(p, a) => a < b

\* prev_ns never leads back: the loop over the old namespaces in
\* kvolve_upd_spec ends.
AncestryAcyclic ==
    \A n \in NS : prev_ns[n] # NULL => n \notin Lineage(prev_ns[n])

\* A version number occurs twice in a history only where a rename brought it
\* back: kvolve_upd_spec turns down a version already loaded, but does not
\* look when it creates the namespace.
RepeatsOnlyByRename ==
    \A n \in NS : \A i, j \in 1..Len(versions[n]) :
        i < j /\ versions[n][i] = versions[n][j] => info[n][j].from_ns # info[n][j].to_ns

\* In a namespace that was never renamed, each update starts from the version
\* before it, so its functions are given the values they were written for.
UpdatesChain ==
    \A n \in NS : prev_ns[n] = NULL =>
        \A i \in 2..Len(info[n]) : info[n][i].from_vers = versions[n][i - 1]

\* An open client whose program is written for a version that is not the
\* current one, or for a name given up.
Stale(c, n) ==
    /\ conn[c] = "open" /\ declared[c][n] # NULL
    /\ declared[c][n] # Latest(n) \/ next_ns[n] # NULL

\* An open client is in the set of every namespace it declared, so the loop
\* of kvolve_upd_spec sees it; a name not in the table is linked to nothing.
TableConsistent ==
    /\ \A c \in Client, n \in NS :
         conn[c] = "open" /\ declared[c][n] # NULL => c \in is[n] /\ Registered(n)
    /\ \A c \in Client, n \in NS : conn[c] = "new" => declared[c][n] = NULL
    /\ \A n \in NS : ~Registered(n) => prev_ns[n] = NULL /\ next_ns[n] = NULL

\* Whoever loads the updates and in whatever order clients come and go, at
\* most one client per namespace is left behind by an update.
AtMostOneStale ==
    \A n \in NS : \A c, d \in Client : Stale(c, n) /\ Stale(d, n) => c = d

\* An update loaded by a member of the namespace leaves no other client of it
\* connected.
MemberUpdateEvictsOthers ==
    [][\A c \in Client, u \in Updates :
          kvolve_load_update(c, u) /\ upd_spec_accepts(u) /\ c \in is[u.from_ns]
          => \A d \in Client \ {c} :
               conn[d] = "open" /\ declared[d][u.from_ns] # NULL => conn'[d] = "closed"]_registryVars

\* Histories are append-only and a rename is never undone, through every
\* setname and every update, accepted or not.
HistoryAppendOnly ==
    [][\A n \in NS : Registered(n) =>
          /\ Len(versions'[n]) >= Len(versions[n])
          /\ \A i \in 1..Len(versions[n]) :
               versions'[n][i] = versions[n][i] /\ info'[n][i] = info[n][i]
          /\ prev_ns'[n] = prev_ns[n]
          /\ next_ns[n] # NULL => next_ns'[n] # NULL]_registryVars

-----------------------------------------------------------------------------
(* What the documentation says and the code does not do *)

\* The comment on the loop of kvolve_upd_spec says it "will kill off deprecated
\* clients", and kvolve_upd.h lets updates be requested "within the program or
\* outside the program": no open client is left at an old version or name.
NoStaleClient == \A c \in Client, n \in NS : ~Stale(c, n)
=============================================================================
