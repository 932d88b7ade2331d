---------------------------- MODULE LurInvariants ---------------------------
(***************************************************************************)
(* Clients of LazyUpdateRedis at work: what holds of each of them and of   *)
(* what is in Redis between two of their requests, and what a request may  *)
(* change.  These are the invariants and the terms in which the proofs     *)
(* about LazyUpdateRedis are written.                                      *)
(***************************************************************************)
EXTENDS LurData

-----------------------------------------------------------------------------
(* Connecting and updating: do_upd *)

Renaming == {"r_exists", "r_watch", "r_read", "r_exec"}
Checked == Renaming \cup {"u_watch", "u_read", "u_exec", "u_hset"}

\* What the client c works on has its type.
JobTyped(c) ==
    /\ pc[c] \in {"c_read", "c_exec"} => job[c] \in Entry
    /\ pc[c] \in Updating => job[c] \in [file : Files, hset : BOOLEAN]
    /\ pc[c] \in Renaming => job[c].file.ns # job[c].file.oldns

\* The list a client is about to store under the new name is that of the old
\* name with the new version, if nobody has changed either since its WATCH.
RenameReady(c) ==
    LET u == job[c].file IN
    pc[c] = "r_exec" /\ List(u.ns) \in watched[c] /\ List(u.oldns) \in watched[c]
    => ns_versions_dict[c][u.ns] = Renamed(u, UPDATE_VERSIONS[u.oldns])

\* A client that is about to store its file has found none for these versions,
\* and there is none as long as its WATCH holds.
FileReady(c) ==
    pc[c] \in Checked /\ job[c].hset /\ DslStrings \in watched[c]
    => \A w \in UPDATE_DSL_STRINGS : ~SameUpdate(job[c].file, w)

Typed ==
    /\ UPDATE_VERSIONS \in [NS -> Seq(Entry)]
    /\ ns_versions_dict \in [Client -> [NS -> Seq(Entry)]]
    /\ pc = [c \in Client |-> pc[c]]
    /\ job = [c \in Client |-> job[c]]
    /\ watched = [c \in Client |-> watched[c]]

UpdInv ==
    /\ Typed
    /\ \A c \in Client : JobTyped(c) /\ RenameReady(c) /\ FileReady(c)

-----------------------------------------------------------------------------
\* What a step of client c may do to the others: it leaves their own state
\* alone, takes from what they watch, and takes away what it changes.
Frame(c) ==
    \A d \in Client \ {c} :
        /\ pc'[d] = pc[d] /\ job'[d] = job[d] /\ ns_versions_dict'[d] = ns_versions_dict[d]
        /\ watched'[d] \subseteq watched[d]
        /\ \A n \in NS : UPDATE_VERSIONS'[n] # UPDATE_VERSIONS[n] => List(n) \notin watched'[d]
        /\ UPDATE_DSL_STRINGS' # UPDATE_DSL_STRINGS => DslStrings \notin watched'[d]
Own(c) == (JobTyped(c) /\ RenameReady(c) /\ FileReady(c))'

-----------------------------------------------------------------------------
\* A step that changes no list and no file, leaves the clients' lists alone,
\* and takes client c to where the invariant says nothing about it.
Outside == {"off", "c_load", "c_setname", "ready", "g_get", "g_mget", "g_mark", "g_watch",
            "g_read", "g_exec", "s_del"}
OwnJob(c) == job' = job \/ \E j : job' = [job EXCEPT ![c] = j]
Takes(c) ==
    \/ watched' = watched
    \/ \E W : watched' = [watched EXCEPT ![c] = W]
    \/ \E T : watched' = [d \in Client |-> watched[d] \ T]
    \/ \E T : watched' = [d \in Client |-> IF d = c THEN {} ELSE watched[d] \ T]
Quiet(c) ==
    /\ UNCHANGED <<UPDATE_VERSIONS, UPDATE_DSL_STRINGS, ns_versions_dict>>
    /\ \E x \in Outside : Goto(c, x)
    /\ OwnJob(c)
    /\ Takes(c)

-----------------------------------------------------------------------------
\* A step that changes what is c's own, and neither a list nor a file.
OwnDict(c) ==
    \/ ns_versions_dict' = ns_versions_dict
    \/ \E f \in [NS -> Seq(Entry)] : ns_versions_dict' = [ns_versions_dict EXCEPT ![c] = f]
Local(c, x) == Goto(c, x) /\ OwnJob(c) /\ Takes(c) /\ OwnDict(c) /\ UNCHANGED listVars

-----------------------------------------------------------------------------
(* What the steps do to the lists and the files *)

VersionsKept ==
    \A n \in NS : \A e \in Elements(UPDATE_VERSIONS[n]) :
        \E m \in NS : e \in Elements(UPDATE_VERSIONS'[m])

-----------------------------------------------------------------------------
(* The chain of update functions *)

\* One round of the loop over the versions in get: what the update functions
\* from position i + 1 to i make of w.
UpdateOnce(c, k, idx, i, w) ==
    LET upds == upd_name(c, i + 1, vers_list(c)[idx].ns) IN
    IF w = NULL \/ upds = {} THEN NULL
    ELSE IF w = Marker THEN IF \E u \in upds : k \in u.glob THEN NULL ELSE Marker
    ELSE [w EXCEPT !.conf = IF @ = vers_list(c)[i + 1].ver THEN vers_list(c)[i].ver ELSE Garbled]

\* The values a get goes through, from the position it found o at down to 1.
Steps(c, k, o, idx, val) ==
    /\ val[idx] = o
    /\ \A i \in 1..(idx - 1) : val[i] = UpdateOnce(c, k, idx, i, val[i + 1])
    /\ Updated(c, k, o, idx) = val[1]

-----------------------------------------------------------------------------
(* Types *)

Getting == {"g_get", "g_mget", "g_mark", "g_watch", "g_read", "g_exec"}
Serving == {"ready", "s_del"} \cup Getting

Things == Key \cup {List(n) : n \in NS} \cup {DslStrings}
Cells == Value \cup {NULL, Marker}
Scans == [unseen : SUBSET Key, batch : SUBSET Key] \cup {NULL}

VersionTyped ==
    /\ UPDATE_DSL_STRINGS \subseteq Files
    /\ program \in [Client -> Ver \cup {NULL}] /\ upd_dict \in [Client -> SUBSET Files]
    /\ name \in [Client -> SUBSET Entry] /\ killed \in [Client -> BOOLEAN]
    /\ watched \in [Client -> SUBSET Things]
DataTyped == db \in [Key -> Cells] /\ scan \in [Client -> Scans]

\* What a running client relies on: it has a version list, its call is about a
\* key, and a get that is to write has found a value at an old version.
ClientTyped(c) ==
    /\ pc[c] # "off" => program[c] \in Ver
    /\ pc[c] \notin {"off", "c_read"} => InUse(c)
    /\ pc[c] \in Serving \ {"ready"} => job[c].key \in Suffix
    /\ pc[c] = "g_exec" => /\ job[c].idx \in 2..Len(vers_list(c))
                           /\ job[c].val \in Value \cup {Marker}
                           /\ job[c].orig_val \in Value \cup {Marker}

TypeInv == UpdInv /\ VersionTyped /\ DataTyped /\ \A c \in Client : ClientTyped(c)

\* The other clients' own state is not touched, and they watch nothing new.
Rest(c) ==
    \A d \in Client \ {c} :
        /\ pc'[d] = pc[d] /\ job'[d] = job[d] /\ program'[d] = program[d]
        /\ ns_versions_dict'[d] = ns_versions_dict[d] /\ upd_dict'[d] = upd_dict[d]
        /\ name'[d] = name[d] /\ scan'[d] = scan[d] /\ watched'[d] \subseteq watched[d]

\* What WATCH, UNWATCH and the changes of others do to what is watched.
OwnWatch(c) ==
    watched' \in [Client -> SUBSET Things] /\ \A d \in Client \ {c} : watched'[d] \subseteq watched[d]

OwnScan(c) == scan' = scan \/ \E x \in Scans : scan' = [scan EXCEPT ![c] = x]

\* A step of do_upd changes what is the client's own.
OwnUpdate(c) ==
    /\ UPDATE_DSL_STRINGS' \subseteq Files /\ killed' \in [Client -> BOOLEAN]
    /\ program' = program \/ \E v \in Ver : program' = [program EXCEPT ![c] = v]
    /\ upd_dict' = upd_dict \/ \E w \in SUBSET Files : upd_dict' = [upd_dict EXCEPT ![c] = w]
    /\ name' = name \/ \E w \in SUBSET Entry : name' = [name EXCEPT ![c] = w]

\* A call of a client: it changes its own position, call and watch, and the
\* data; the versions stay.  Only keys are taken from what others watch, and
\* what is changed is taken.
Served(c) ==
    /\ UNCHANGED <<listVars, program, localVars>>
    /\ pc[c] \in Serving /\ \E x \in Serving : Goto(c, x)
    /\ OwnJob(c) /\ OwnWatch(c) /\ OwnScan(c)
    /\ db' \in [Key -> Cells]
    /\ \A d \in Client \ {c} : watched[d] \ Key \subseteq watched'[d]
    /\ \A x \in Key : db'[x] # db[x] => \A d \in Client \ {c} : x \notin watched'[d]

\* What its own next step relies on.
OwnCall(c) ==
    /\ pc[c] \in Serving \ {"ready"} => job[c].key \in Suffix
    /\ pc[c] = "g_exec" => /\ job[c].idx \in 2..Len(vers_list(c))
                           /\ job[c].val \in Value \cup {Marker}
                           /\ job[c].orig_val \in Value \cup {Marker}

\* The watch of a call that changes the keys S.
KeyWatch(c, S) ==
    /\ OwnWatch(c)
    /\ \A d \in Client \ {c} : watched[d] \ Key \subseteq watched'[d] /\ S \cap watched'[d] = {}

\* What a get writes in its transaction: what it has computed, or what RENAME
\* finds, seen through the update functions that leave it alone.
Moved(c) ==
    IF Changed(c, job[c].key, job[c].idx) THEN job[c].val
    ELSE Updated(c, job[c].key, db[orig_name(c)], job[c].idx)

-----------------------------------------------------------------------------
(* The transaction of get *)

\* No update file gives a namespace a new name.
NoRenames == \A u \in Files : u.oldns = u.ns

\* Then every entry of a list has the name of its namespace.
OwnEntries(n, l) == \A i \in DOMAIN l : l[i].ns = n
OwnNames ==
    /\ \A n \in NS : OwnEntries(n, UPDATE_VERSIONS[n])
    /\ \A c \in Client, n \in NS : OwnEntries(n, ns_versions_dict[c][n])

\* What the steps of connecting and updating do to the lists, without renames.
Pushed(c) ==
    \E n \in NS, e \in Entry :
        /\ e.ns = n
        /\ \/ pc[c] = "c_exec" /\ e = job[c]
           \/ pc[c] = "u_exec" /\ e = [ver |-> job[c].file.to, ns |-> job[c].file.ns]
        /\ List(n) \in watched[c] /\ Touch({List(n)})
        /\ UPDATE_VERSIONS' = [UPDATE_VERSIONS EXCEPT ![n] = <<e>> \o @]
Copied(c) ==
    \E n \in NS : \E l \in Seq(Entry) :
        /\ OwnEntries(n, UPDATE_VERSIONS[n]) => OwnEntries(n, l)
        /\ ns_versions_dict' = [ns_versions_dict EXCEPT ![c][n] = l]

\* A get that is about to write: as long as its WATCH holds, the value is the
\* one it has read, and there is none at a newer version.
ReadStill(c) ==
    pc[c] = "g_exec" /\ WatchedKeys(c, job[c].key) \subseteq watched[c]
    => /\ db[orig_name(c)] = job[c].orig_val
       /\ \A i \in 1..(job[c].idx - 1) : db[all_potential_keys(c, job[c].key)[i]] = NULL

CommitInv == TypeInv /\ OwnNames /\ \A c \in Client : ReadStill(c)

\* One client loads the updates.
OneUpdater == \A c, d \in Updaters : c = d

\* A step of client c.
Step(c) == VersionStep(c) \/ UpdateAll(c) \/ stop(c) \/ Continue(c) \/ Call(c)

-----------------------------------------------------------------------------
(* Who updates *)

\* Clients that update are those who may; without Live, others are not running
\* then, and one client connects at a time.
Apart(c) ==
    /\ pc[c] \in Updating => c \in Updaters
    /\ ~Live => /\ pc[c] \in Updating => \A d \in Others(c) : pc[d] = "off"
                /\ pc[c] \in Connecting => \A d \in Others(c) : pc[d] \notin Connecting \cup Updating

-----------------------------------------------------------------------------
(* What the others hear of it *)

\* The list a client is about to push a version to.
Pushes(c, n) ==
    /\ List(n) \in watched[c]
    /\ \/ pc[c] = "c_exec" /\ n = job[c].ns
       \/ pc[c] = "u_exec" /\ n = job[c].file.ns

\* What a step of c does to the lists, and to what the others watch.
Heard(c) ==
    /\ \A n \in NS :
         /\ UPDATE_VERSIONS[n] # << >> => UPDATE_VERSIONS'[n] # << >>
         /\ UPDATE_VERSIONS'[n] # UPDATE_VERSIONS[n] => Pushes(c, n)
    /\ \A d \in Client \ {c} :
         /\ \A n \in NS : List(n) \in watched[d] =>
              List(n) \in watched'[d] \/ (UPDATE_VERSIONS'[n] # << >> /\ Pushes(c, n))
         /\ \A n \in NS : UPDATE_VERSIONS'[n] # UPDATE_VERSIONS[n] => List(n) \notin watched'[d]
         /\ DslStrings \in watched[d] => DslStrings \in watched'[d] \/ pc[c] = "u_hset"

-----------------------------------------------------------------------------
(* The version a program is written for is the one it works at *)

Top(c) == vers_list(c)[1].ver

\* A client works in one namespace, that of its program and of its updates.
OneList(c) ==
    /\ \A m, n \in NS : ns_versions_dict[c][m] # << >> /\ ns_versions_dict[c][n] # << >> => m = n
    /\ pc[c] \in {"off", "c_read"} => \A n \in NS : ns_versions_dict[c][n] = << >>
    /\ pc[c] = "c_exec" => ns_versions_dict[c][job[c].ns] # << >>
    /\ pc[c] \in Updating => ns_versions_dict[c][job[c].file.ns] # << >>

\* Its list is in Redis, or it is about to store it.
ListReady(c) ==
    /\ pc[c] \in {"c_read", "c_exec"} /\ List(job[c].ns) \notin watched[c] =>
         UPDATE_VERSIONS[job[c].ns] # << >>
    /\ pc[c] = "c_exec" /\ List(job[c].ns) \in watched[c] => UPDATE_VERSIONS[job[c].ns] = << >>
    /\ pc[c] \notin {"off", "c_read", "c_exec"} => UPDATE_VERSIONS[Here(c)] # << >>

\* Nobody disturbs a client that updates.
Undisturbed(c) ==
    /\ pc[c] \in {"u_read", "u_exec"} => List(job[c].file.ns) \in watched[c]
    /\ pc[c] \in {"u_hget", "u_watch", "u_read", "u_exec", "u_hset"} => DslStrings \in watched[c]

\* The newest version in the list of a client, on its way through __init__ and
\* do_upd.  A client that has found its update done by another (upd_read) keeps
\* its list, and disconnects itself at the end.
AtTop(c) ==
    /\ pc[c] = "c_read" => program[c] = job[c].ver
    /\ pc[c] \in {"c_exec", "c_load", "c_setname"} => program[c] = Top(c)
    /\ pc[c] \in Serving /\ Alive(c) => program[c] = Top(c)
    /\ pc[c] \in {"u_hget", "u_watch", "u_read"} => program[c] = Top(c) /\ job[c].file.from = Top(c)
    /\ pc[c] = "u_exec" => Top(c) = job[c].file.to
    /\ pc[c] \in {"u_hset", "u_setname", "u_kill"} => Top(c) \in {job[c].file.to, job[c].file.from}
    /\ pc[c] = "u_kill" => name[c] = NameOf(c)

ProgramInv(c) == OneList(c) /\ ListReady(c) /\ Undisturbed(c) /\ AtTop(c)
AllPrograms == \A c \in Client : Apart(c) /\ ProgramInv(c)

-----------------------------------------------------------------------------
(* Shapes *)

\* What the calls of c do to the data.
Sets(c, k, p) == /\ pc[c] = "ready" /\ Alive(c)
                 /\ db' = [db EXCEPT ![CurrKey(c, k)] = Fresh(c, p)]
Marks(c, k) == db[CurrKey(c, k)] = NULL /\ db' = [db EXCEPT ![CurrKey(c, k)] = Marker]
Deletes(c, k) ==
    db' = Without(db, OldKeys(c, k)) \/ db' = Without(db, Elements(all_potential_keys(c, k)))
Moves(c, k) ==
    /\ pc[c] = "g_exec" /\ k = job[c].key /\ Moved(c) # NULL
    /\ db' = [db EXCEPT ![orig_name(c)] = NULL, ![CurrKey(c, k)] = Moved(c)]
Writes(c) ==
    /\ InUse(c)
    /\ \E k \in Suffix : \/ \E p \in Payload : Sets(c, k, p)
                         \/ Marks(c, k) \/ Deletes(c, k) \/ Moves(c, k)

\* A get that is about to write has a value of the newest version.
ValueAtTop(c) == pc[c] = "g_exec" /\ job[c].val \in Value => job[c].val.conf = Top(c)
ShapeInv == ShapesTruthful /\ \A c \in Client : ValueAtTop(c)

-----------------------------------------------------------------------------
(* Lists, with the other programs stopped for the update *)

\* Everybody who is connected has the list that is in Redis.
InStep(c) ==
    /\ pc[c] \in (Updating \ {"u_exec"}) \cup Serving \cup {"c_load", "c_setname"} =>
         vers_list(c) = UPDATE_VERSIONS[Here(c)]
    /\ pc[c] = "u_exec" =>
         vers_list(c) = <<[ver |-> job[c].file.to, ns |-> job[c].file.ns]>> \o UPDATE_VERSIONS[Here(c)]
    /\ pc[c] = "c_exec" => vers_list(c) = <<job[c]>>
    /\ pc[c] \in {"c_read", "c_exec"} => List(job[c].ns) \in watched[c]

-----------------------------------------------------------------------------
(* do_upd_all_now *)

\* What is left of a name of c by a step: a copy under an old version is there
\* after it only if the current version is, or nothing has changed.
Left(c, k) ==
    \A x \in OldKeys(c, k) :
        db'[x] # NULL => \/ db'[CurrKey(c, k)] # NULL
                         \/ db[x] # NULL /\ db'[CurrKey(c, k)] = db[CurrKey(c, k)]

\* Of the names whose value is under an old version only, do_upd_all_now has
\* still to see a copy, or is at work on it.
Pending(c, k, x) ==
    x \in scan[c].unseen \cup scan[c].batch \/ (pc[c] \in Getting /\ job[c].key = k)
ToDo(c, k) == \A x \in OldKeys(c, k) : db[x] # NULL => db[CurrKey(c, k)] # NULL \/ Pending(c, k, x)
ScanInv(c) ==
    scan[c] # NULL =>
      /\ pc[c] \in Updating \cup {"ready"} \cup Getting
      /\ pc[c] \in Updating => scan[c].unseen = Key
      /\ pc[c] \notin Updating => \A k \in Suffix : ToDo(c, k)

\* What holds throughout do_upd_all_now.
AllInv == \A c \in Client : InStep(c) /\ ScanInv(c)

=============================================================================
