---------------------------- MODULE LurVersions -----------------------------
(***************************************************************************)
(* LazyUpdateRedis (lazyupdredis.py): how client programs connect at a     *)
(* version of a namespace, load update files (do_upd) and disconnect the   *)
(* programs left behind.  The clients share nothing but a Redis server,    *)
(* so every round trip is a step of its own: a WATCH, a read, an EXEC.     *)
(*                                                                         *)
(* A client object keeps several connections.  Its first one carries its   *)
(* name and is the one CLIENT KILL closes; NoReConnection never opens it   *)
(* again.  While a transaction holds it, the other calls go over a second  *)
(* connection, which nobody kills: steps with Alive(c) use the first.      *)
(*                                                                         *)
(* A program connects to one namespace, and an update file has one "for"   *)
(* statement.                                                              *)
(***************************************************************************)
EXTENDS RedisObjects, Naturals, Sequences

CONSTANTS
    Client,
    NS, Ver,      \* names of namespaces and of versions
    Suffix,       \* what follows the namespace in a key
    Programs,     \* what a program connects with: [ns, ver]
    Files,        \* update files: [oldns, ns, from, to, glob]
    Updaters,     \* the clients that load updates
    Live          \* whether updates are loaded while other programs run

Entry == [ver : Ver, ns : NS]

ASSUME LurAssumption ==
    /\ Programs \subseteq Entry
    /\ Files \subseteq [oldns : NS, ns : NS, from : Ver, to : Ver, glob : SUBSET Suffix]
    /\ Updaters \subseteq Client /\ Live \in BOOLEAN
    /\ NULL \notin Entry /\ NULL \notin Files

VARIABLES
    UPDATE_VERSIONS,    \* per namespace its entries, newest first
    UPDATE_DSL_STRINGS, \* the update files stored for later clients
    pc, job,            \* where each client is, and what it is working on
    program,            \* the version the client's program is written for
    ns_versions_dict,   \* the client's own copy of UPDATE_VERSIONS
    upd_dict,           \* the updates the client can apply
    name,               \* CLIENT SETNAME: the entries the client works at
    killed,             \* whether its first connection has been closed
    watched             \* what each client has said WATCH to and nobody changed since

listVars == <<UPDATE_VERSIONS, UPDATE_DSL_STRINGS>>
localVars == <<ns_versions_dict, upd_dict, name, killed>>
versionVars == <<listVars, pc, job, program, localVars, watched>>

Connecting == {"c_read", "c_exec", "c_load", "c_setname"}
Updating == {"u_hget", "u_watch", "u_read", "u_exec", "r_exists", "r_watch", "r_read",
             "r_exec", "u_hset", "u_setname", "u_kill"}

NoLists == [n \in NS |-> << >>]

VersionsInit ==
    /\ UPDATE_VERSIONS = NoLists
    /\ UPDATE_DSL_STRINGS = {}
    /\ pc = [c \in Client |-> "off"]
    /\ job = [c \in Client |-> NULL]
    /\ program = [c \in Client |-> NULL]
    /\ ns_versions_dict = [c \in Client |-> NoLists]
    /\ upd_dict = [c \in Client |-> {}]
    /\ name = [c \in Client |-> {}]
    /\ killed = [c \in Client |-> FALSE]
    /\ watched = [c \in Client |-> {}]

Alive(c) == ~killed[c]
Goto(c, there) == pc' = [pc EXCEPT ![c] = there]
Elements(s) == {s[i] : i \in DOMAIN s}
Versions(s) == {s[i].ver : i \in DOMAIN s}
SameUpdate(u, w) ==
    u.oldns = w.oldns /\ u.ns = w.ns /\ u.from = w.from /\ u.to = w.to

\* The Redis keys of a version list and of the update files.
List(n) == <<n>>
DslStrings == << >>

Watch(c, things) == watched' = [watched EXCEPT ![c] = @ \cup things]
Unwatch(c) == watched' = [watched EXCEPT ![c] = {}]
\* A change of a key makes every EXEC fail that depends on it.
Touch(things) == watched' = [d \in Client |-> watched[d] \ things]
\* Mutant: the WATCH is forgotten.
watch_forgotten(c, things) == TRUE
WatchHolds(c, things) == things \subseteq watched[c]

\* Without Live, programs are stopped for an update, and the first program of
\* a namespace is up before the next starts.
Others(c) == Client \ {c}
MayStart(c) == Live \/ \A d \in Others(c) : pc[d] \notin Connecting \cup Updating
MayUpdate(c) == Live \/ \A d \in Others(c) : pc[d] = "off"

\* The program ends, by itself, on an exception or in a crash, wherever it is.
Reset(c) ==
    /\ Goto(c, "off")
    /\ job' = [job EXCEPT ![c] = NULL]
    /\ program' = [program EXCEPT ![c] = NULL]
    /\ ns_versions_dict' = [ns_versions_dict EXCEPT ![c] = NoLists]
    /\ upd_dict' = [upd_dict EXCEPT ![c] = {}]
    /\ name' = [name EXCEPT ![c] = {}]
    /\ killed' = [killed EXCEPT ![c] = FALSE]
    /\ Unwatch(c)

exit(c) == pc[c] # "off" /\ Reset(c) /\ UNCHANGED listVars

-----------------------------------------------------------------------------
(* __init__: append_new_version(v, ns, startup=True), load_upd_tuples,     *)
(* client_setname                                                          *)

connect(c, p) ==
    /\ pc[c] = "off"
    /\ MayStart(c)
    /\ Goto(c, "c_read")
    /\ job' = [job EXCEPT ![c] = p]
    /\ program' = [program EXCEPT ![c] = p.ver]
    /\ Watch(c, {List(p.ns)})
    /\ UNCHANGED <<listVars, localVars>>

\* The version must be the current one, or the namespace new.  The client's
\* own list is written before the transaction.
connect_read(c) ==
    LET p == job[c]
        l == UPDATE_VERSIONS[p.ns]
    IN  /\ pc[c] = "c_read"
        /\ \/ /\ l # << >> /\ l[1].ver = p.ver
              /\ Goto(c, "c_load")
              /\ ns_versions_dict' = [ns_versions_dict EXCEPT ![c][p.ns] = l]
              /\ UNCHANGED <<job, program, upd_dict, name, killed, watched>>
           \/ /\ l = << >>
              /\ Goto(c, "c_exec")
              /\ ns_versions_dict' = [ns_versions_dict EXCEPT ![c][p.ns] = <<p>>]
              /\ UNCHANGED <<job, program, upd_dict, name, killed, watched>>
           \/ l # << >> /\ l[1].ver # p.ver /\ Reset(c)
        /\ UNCHANGED listVars

\* A lost race (WatchError) goes unnoticed by __init__.
connect_exec(c) ==
    LET p == job[c] IN
    /\ pc[c] = "c_exec"
    /\ Goto(c, "c_load")
    /\ \/ /\ WatchHolds(c, {List(p.ns)})
          /\ UPDATE_VERSIONS' = [UPDATE_VERSIONS EXCEPT ![p.ns] = <<p>> \o @]
          /\ Touch({List(p.ns)})
       \/ ~WatchHolds(c, {List(p.ns)}) /\ UNCHANGED <<UPDATE_VERSIONS, watched>>
    /\ UNCHANGED <<UPDATE_DSL_STRINGS, job, program, localVars>>

load_upd_tuples(c) ==
    /\ pc[c] = "c_load"
    /\ Goto(c, "c_setname")
    /\ upd_dict' = [upd_dict EXCEPT ![c] = UPDATE_DSL_STRINGS]
    /\ UNCHANGED <<listVars, job, program, ns_versions_dict, name, killed, watched>>

\* ns_dict_as_string: the newest entry of each list.
NameOf(c) ==
    {[ns |-> n, ver |-> ns_versions_dict[c][n][1].ver] :
        n \in {m \in NS : ns_versions_dict[c][m] # << >>}}

connect_setname(c) ==
    /\ pc[c] = "c_setname"
    /\ Goto(c, "ready")
    /\ name' = [name EXCEPT ![c] = NameOf(c)]
    /\ job' = [job EXCEPT ![c] = NULL]
    /\ Unwatch(c)
    /\ UNCHANGED <<listVars, program, ns_versions_dict, upd_dict, killed>>

-----------------------------------------------------------------------------
(* do_upd *)

\* do_upd returns or raises: whatever it changed before stays.
Leave(c) ==
    /\ Goto(c, "ready")
    /\ job' = [job EXCEPT ![c] = NULL]
    /\ Unwatch(c)

\* The version is compared with the client's own list only.
do_upd(c, u) ==
    /\ pc[c] = "ready"
    /\ c \in Updaters /\ MayUpdate(c) /\ Alive(c)
    /\ ns_versions_dict[c][u.oldns] # << >>
    /\ ns_versions_dict[c][u.oldns][1].ver = u.from
    /\ Goto(c, "u_hget")
    /\ job' = [job EXCEPT ![c] = [file |-> u, hset |-> FALSE]]
    /\ Watch(c, {DslStrings})
    /\ UNCHANGED <<listVars, program, localVars>>

\* Another text for the same update is an error.
upd_hget(c) ==
    LET u == job[c].file
        prev == {w \in UPDATE_DSL_STRINGS : SameUpdate(u, w)}
    IN  /\ pc[c] = "u_hget"
        /\ \/ /\ prev \subseteq {u}
              /\ Goto(c, IF u.oldns = u.ns THEN "u_watch" ELSE "r_exists")
              /\ job' = [job EXCEPT ![c].hset = prev = {}]
              /\ UNCHANGED watched
           \/ ~(prev \subseteq {u}) /\ Leave(c)
        /\ UNCHANGED <<listVars, program, localVars>>

\* append_new_version(version_to, ns)
upd_watch(c) ==
    /\ pc[c] = "u_watch"
    /\ Goto(c, "u_read")
    /\ Watch(c, {List(job[c].file.ns)})
    /\ UNCHANGED <<listVars, job, program, localVars>>

upd_read(c) ==
    LET u == job[c].file
        l == UPDATE_VERSIONS[u.ns]
        there == l # << >> /\ l[1].ver = u.to
    IN  /\ pc[c] = "u_read"
        /\ Goto(c, IF there THEN "u_hset" ELSE "u_exec")
        /\ ns_versions_dict' = IF there THEN ns_versions_dict ELSE
             [ns_versions_dict EXCEPT ![c][u.ns] = <<[ver |-> u.to, ns |-> u.ns]>> \o l]
        /\ UNCHANGED <<listVars, job, program, upd_dict, name, killed, watched>>

upd_exec(c) ==
    LET n == job[c].file.ns IN
    /\ pc[c] = "u_exec"
    /\ \/ /\ WatchHolds(c, {List(n)})
          /\ Goto(c, "u_hset")
          /\ UPDATE_VERSIONS' =
               [UPDATE_VERSIONS EXCEPT ![n] = <<[ver |-> job[c].file.to, ns |-> n]>> \o @]
          /\ Touch({List(n)})
          /\ UNCHANGED job
       \/ /\ ~WatchHolds(c, {List(n)})
          /\ Leave(c)
          /\ UNCHANGED UPDATE_VERSIONS
    /\ UNCHANGED <<UPDATE_DSL_STRINGS, program, localVars>>

\* append_new_version_updated_ns(version_from, version_to, oldns, ns)
rename_exists(c) ==
    /\ pc[c] = "r_exists"
    /\ \/ /\ UPDATE_VERSIONS[job[c].file.ns] = << >>
          /\ Goto(c, "r_watch")
          /\ UNCHANGED <<job, watched>>
       \/ UPDATE_VERSIONS[job[c].file.ns] # << >> /\ Leave(c)
    /\ UNCHANGED <<listVars, program, localVars>>

rename_watch(c) ==
    /\ pc[c] = "r_watch"
    /\ Goto(c, "r_read")
    /\ Watch(c, {List(job[c].file.ns), List(job[c].file.oldns)})
    /\ UNCHANGED <<listVars, job, program, localVars>>

Renamed(u, l) == <<[ver |-> u.to, ns |-> u.ns]>> \o l

rename_read(c) ==
    LET u == job[c].file
        l == UPDATE_VERSIONS[u.oldns]
    IN  /\ pc[c] = "r_read"
        /\ \/ /\ u.from \in Versions(l)
              /\ Goto(c, "r_exec")
              /\ ns_versions_dict' =
                   [ns_versions_dict EXCEPT ![c][u.ns] = Renamed(u, l), ![c][u.oldns] = << >>]
              /\ UNCHANGED <<job, watched>>
           \/ /\ u.from \notin Versions(l)
              /\ Leave(c)
              /\ UNCHANGED ns_versions_dict
        /\ UNCHANGED <<listVars, program, upd_dict, name, killed>>

\* RPUSH: behind whatever the new name has by now.
rename_exec(c) ==
    LET u == job[c].file
        both == {List(u.ns), List(u.oldns)}
    IN
    /\ pc[c] = "r_exec"
    /\ \/ /\ WatchHolds(c, both)
          /\ Goto(c, "u_hset")
          /\ UPDATE_VERSIONS' =
               [UPDATE_VERSIONS EXCEPT ![u.ns] = @ \o ns_versions_dict[c][u.ns], ![u.oldns] = << >>]
          /\ Touch(both)
          /\ UNCHANGED job
       \/ /\ ~WatchHolds(c, both)
          /\ Leave(c)
          /\ UNCHANGED UPDATE_VERSIONS
    /\ UNCHANGED <<UPDATE_DSL_STRINGS, program, localVars>>

\* The transaction opened first ends last.  It is sent only if it has an HSET.
upd_hset(c) ==
    LET u == job[c].file
        lost == job[c].hset /\ ~WatchHolds(c, {DslStrings})
    IN  /\ pc[c] = "u_hset"
        /\ Alive(c)
        /\ upd_dict' = [upd_dict EXCEPT ![c] = @ \cup {u}]
        /\ \/ lost /\ Leave(c) /\ UNCHANGED UPDATE_DSL_STRINGS
           \/ /\ ~lost
              /\ Goto(c, "u_setname")
              /\ UPDATE_DSL_STRINGS' = IF job[c].hset
                   THEN {w \in UPDATE_DSL_STRINGS : ~SameUpdate(u, w)} \cup {u}
                   ELSE UPDATE_DSL_STRINGS
              /\ Touch(IF job[c].hset THEN {DslStrings} ELSE {})
              /\ UNCHANGED job
        /\ UNCHANGED <<UPDATE_VERSIONS, program, ns_versions_dict, name, killed>>

upd_setname(c) ==
    /\ pc[c] = "u_setname"
    /\ Alive(c)
    /\ Goto(c, "u_kill")
    /\ name' = [name EXCEPT ![c] = NameOf(c)]
    /\ UNCHANGED <<listVars, job, program, ns_versions_dict, upd_dict, killed, watched>>

\* Only clients that have given their name are found.  One that goes by the old
\* name itself ends its own connection on the way: if others come after it in the
\* list, they stay and do_upd raises.  Else do_upd returns True, and the program
\* goes on in the new version.
kill_connected_clients_at(c) ==
    LET u == job[c].file
        old == {d \in Client : Alive(d) /\ [ns |-> u.oldns, ver |-> u.from] \in name[d]}
    IN  /\ pc[c] = "u_kill"
        /\ Alive(c)
        /\ \E gone \in SUBSET old :
             /\ IF c \in old THEN c \in gone ELSE gone = old
             /\ killed' = [d \in Client |-> killed[d] \/ d \in gone]
             /\ program' = IF gone = old THEN [program EXCEPT ![c] = u.to] ELSE program
        /\ Leave(c)
        /\ UNCHANGED <<listVars, ns_versions_dict, upd_dict, name>>

ConnectStep(c) ==
    \/ \E p \in Programs : connect(c, p)
    \/ connect_read(c) \/ connect_exec(c) \/ load_upd_tuples(c) \/ connect_setname(c)

UpdateStep(c) ==
    \/ \E u \in Files : do_upd(c, u)
    \/ upd_hget(c) \/ upd_watch(c) \/ upd_read(c) \/ upd_exec(c)
    \/ rename_exists(c) \/ rename_watch(c) \/ rename_read(c) \/ rename_exec(c)
    \/ upd_hset(c) \/ upd_setname(c) \/ kill_connected_clients_at(c)
=============================================================================
