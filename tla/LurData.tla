------------------------------ MODULE LurData -------------------------------
(***************************************************************************)
(* get, set and delete of LazyUpdateRedis over the version lists: the      *)
(* clients work on Redis keys "ver|ns:suffix", and a get that finds a      *)
(* value under an old version updates it and moves it to the new key in a  *)
(* WATCH/MULTI/EXEC transaction.  Every round trip is one step.            *)
(*                                                                         *)
(* A value is abstracted to the version its JSON has the shape of (conf)   *)
(* and its content.  An update function turns the shape it was written     *)
(* for into the next, anything else into Garbled.                          *)
(***************************************************************************)
EXTENDS LurVersions

CONSTANTS
    Payload,
    Commands, \* the methods the programs call
    Marker,   \* "#### ####", stored where a get has found nothing
    Garbled

ASSUME DataAssumption ==
    /\ NULL \notin Payload /\ Garbled \notin Ver
    /\ \A v \in Ver \cup {Garbled}, p \in Payload : [conf |-> v, val |-> p] \notin {NULL, Marker}
    /\ Marker # NULL

VARIABLES
    db,      \* the keyspace: what is stored for an entry and a suffix
    reply,   \* the last call that took effect and its answer
    scan     \* what do_upd_all_now still has to look at, or NULL outside it

dataVars == <<db, reply, scan>>
lurVars == <<versionVars, dataVars>>

Key == Entry \X Suffix
Value == [conf : Ver \cup {Garbled}, val : Payload]

-----------------------------------------------------------------------------
(* Keys of a call *)

\* The namespace the program works in, and its versions, newest first.
Here(c) == CHOOSE n \in NS : ns_versions_dict[c][n] # << >>
vers_list(c) == ns_versions_dict[c][Here(c)]
all_potential_keys(c, k) == [i \in DOMAIN vers_list(c) |-> <<vers_list(c)[i], k>>]
CurrKey(c, k) == all_potential_keys(c, k)[1]
OldKeys(c, k) == {all_potential_keys(c, k)[i] : i \in 2..Len(vers_list(c))}
InUse(c) == \E n \in NS : ns_versions_dict[c][n] # << >>

Present(ks) == {x \in ks : db[x] # NULL}
Without(d, ks) == [x \in Key |-> IF x \in ks THEN NULL ELSE d[x]]

Answer(cmd, k, args, res) ==
    reply' = [reqs |-> <<Request(cmd, <<k>>, args, NULL)>>, ok |-> TRUE, res |-> <<res>>]
\* get answers as an MGET of one key does.
Got(k, o) == Answer("get", k, << >>, [multi |-> <<o>>])
Done(c) == Goto(c, "ready") /\ job' = [job EXCEPT ![c] = NULL]
\* An exception ends do_upd_all_now too, if the call was made by it.
Raise(c) == Done(c) /\ Unwatch(c) /\ scan' = [scan EXCEPT ![c] = NULL]

-----------------------------------------------------------------------------
(* get *)

\* The express route, first or again after a lost transaction.
get(c, k) ==
    LET o == db[CurrKey(c, k)] IN
    /\ Alive(c)
    /\ pc[c] = "ready" \/ (pc[c] = "g_get" /\ job[c].key = k)
    /\ \/ /\ o # NULL
          /\ Goto(c, "ready")
          /\ job' = [job EXCEPT ![c] = NULL]
          /\ Got(k, IF o = Marker THEN NULL ELSE o)
       \/ /\ o = NULL
          /\ Goto(c, "g_mget")
          /\ job' = [job EXCEPT ![c] = [key |-> k]]
          /\ UNCHANGED reply
    /\ UNCHANGED <<listVars, program, localVars, db, watched>>

\* Nothing under any version: the answer is fixed here, the marker follows.
get_mget(c) ==
    LET k == job[c].key
        found == Present(Elements(all_potential_keys(c, k)))
    IN  /\ pc[c] = "g_mget"
        /\ Alive(c)
        /\ Goto(c, IF found = {} THEN "g_mark" ELSE "g_watch")
        /\ IF found = {} THEN Got(k, NULL) ELSE UNCHANGED reply
        /\ UNCHANGED <<listVars, job, program, localVars, db, watched, scan>>

\* SETNX
get_mark(c) ==
    LET x == CurrKey(c, job[c].key) IN
    /\ pc[c] = "g_mark"
    /\ Alive(c)
    /\ db' = IF db[x] = NULL THEN [db EXCEPT ![x] = Marker] ELSE db
    /\ Touch(IF db[x] = NULL THEN {x} ELSE {})
    /\ Done(c)
    /\ UNCHANGED <<listVars, program, localVars, reply, scan>>

\* Mutants: the key is watched without its version; the new key is not watched.
watched_unversioned(c, k) == {<<k>>}
watched_old_only(c, k) == {<<[vers_list(c)[i] EXCEPT !.ns = Here(c)], k>> : i \in 2..Len(vers_list(c))}
\* The old versions are watched under the new name of the namespace.
WatchedKeys(c, k) == {<<[vers_list(c)[i] EXCEPT !.ns = Here(c)], k>> : i \in DOMAIN vers_list(c)}

WatchKeys(c, k) == Watch(c, WatchedKeys(c, k) \cup {List(Here(c))})
get_watch(c) ==
    /\ pc[c] = "g_watch"
    /\ Alive(c)
    /\ Goto(c, "g_read")
    /\ WatchKeys(c, job[c].key)
    /\ UNCHANGED <<listVars, job, program, localVars, db, reply, scan>>

\* The update from position i to i-1 is looked up under the namespace the
\* value was found in (prev_ns) and the current one.
upd_name(c, i, prev_ns) ==
    {u \in upd_dict[c] : /\ u.from = vers_list(c)[i].ver /\ u.to = vers_list(c)[i - 1].ver
                         /\ u.oldns = prev_ns /\ u.ns = Here(c)}

\* Mutant: the value is moved and not updated.
updated_moved(c, k, o, idx) == o

\* What becomes of the value o found at position idx, one version at a time:
\* the result, or NULL for an exception (no such update, or a marker, which
\* is not JSON, given to an update function).  An update leaves the keys
\* outside its glob as they are: their values are good for both versions.
Updated(c, k, o, idx) ==
    LET upds(i) == upd_name(c, i, vers_list(c)[idx].ns)
        val[i \in 1..idx] ==
          IF i = idx THEN o
          ELSE IF val[i + 1] = NULL \/ upds(i + 1) = {} THEN NULL
          ELSE IF val[i + 1] = Marker
          THEN IF \E u \in upds(i + 1) : k \in u.glob THEN NULL ELSE Marker
          ELSE [val[i + 1] EXCEPT !.conf = IF @ = vers_list(c)[i + 1].ver
                                           THEN vers_list(c)[i].ver ELSE Garbled]
    IN  val[1]

\* Whether some update function changes the value.
Changed(c, k, idx) ==
    \E i \in 2..idx : \E u \in upd_name(c, i, vers_list(c)[idx].ns) : k \in u.glob

\* The second MGET, and the updates.
get_read(c) ==
    LET k == job[c].key
        ks == all_potential_keys(c, k)
        at == {i \in DOMAIN ks : db[ks[i]] # NULL}
        idx == CHOOSE i \in at : \A j \in at : i <= j
        new == Updated(c, k, db[ks[idx]], idx)
    IN  /\ pc[c] = "g_read"
        /\ \/ /\ at = {}
              /\ Got(k, NULL)
              /\ Done(c) /\ Unwatch(c) /\ UNCHANGED scan
           \/ /\ at # {} /\ idx = 1
              /\ Got(k, db[ks[1]])
              /\ Done(c) /\ Unwatch(c) /\ UNCHANGED scan
           \/ /\ at # {} /\ idx # 1 /\ new = NULL
              /\ Raise(c)
              /\ UNCHANGED reply
           \/ /\ at # {} /\ idx # 1 /\ new # NULL
              /\ Goto(c, "g_exec")
              /\ job' = [job EXCEPT ![c] =
                   [key |-> k, idx |-> idx, orig_val |-> db[ks[idx]], val |-> new]]
              /\ UNCHANGED <<watched, reply, scan>>
        /\ UNCHANGED <<listVars, program, localVars, db>>

\* SET and DEL, or RENAME if no function has changed the value: RENAME takes
\* what is there now, and is an error if that is nothing.
orig_name(c) == all_potential_keys(c, job[c].key)[job[c].idx]
get_exec(c) ==
    LET k == job[c].key
        fresh == WatchHolds(c, WatchedKeys(c, k) \cup {List(Here(c))})
        changed == Changed(c, k, job[c].idx)
        moved == IF changed THEN job[c].val ELSE Updated(c, k, db[orig_name(c)], job[c].idx)
        touched == {CurrKey(c, k)} \cup Present({orig_name(c)})
    IN  /\ pc[c] = "g_exec"
        /\ Alive(c)
        /\ \/ /\ ~fresh
              /\ Goto(c, "g_get")
              /\ job' = [job EXCEPT ![c] = [key |-> k]]
              /\ Unwatch(c)
              /\ UNCHANGED <<db, reply, scan>>
           \/ /\ fresh /\ moved = NULL
              /\ Raise(c)
              /\ UNCHANGED <<db, reply>>
           \/ /\ fresh /\ moved # NULL
              /\ Done(c)
              /\ db' = [db EXCEPT ![orig_name(c)] = NULL, ![CurrKey(c, k)] = moved]
              /\ watched' = [d \in Client |-> IF d = c THEN {} ELSE watched[d] \ touched]
              /\ Got(k, job[c].val)
              /\ UNCHANGED scan
        /\ UNCHANGED <<listVars, program, localVars>>

-----------------------------------------------------------------------------
(* set and delete *)

\* A program writes values of the shape it was written for.
Fresh(c, p) == [conf |-> program[c], val |-> p]

\* GETSET: the copies under old versions are deleted only if there was none
\* under the current one.
set(c, k, p) ==
    LET x == CurrKey(c, k) IN
    /\ pc[c] = "ready"
    /\ Alive(c)
    /\ IF db[x] # NULL \/ OldKeys(c, k) = {} THEN Goto(c, "ready") /\ UNCHANGED job
       ELSE Goto(c, "s_del") /\ job' = [job EXCEPT ![c] = [key |-> k]]
    /\ db' = [db EXCEPT ![x] = Fresh(c, p)]
    /\ Touch({x})
    /\ Answer("set", k, <<Fresh(c, p)>>, [bool |-> TRUE])
    /\ UNCHANGED <<listVars, program, localVars, scan>>

\* SET NX and SET XX look at the current version only; the old copies are
\* deleted whether or not the value was set.
set_flagged(c, k, p, flag) ==
    LET x == CurrKey(c, k)
        done == (db[x] = NULL) = (flag = "setnx")
    IN  /\ pc[c] = "ready"
        /\ Alive(c)
        /\ IF OldKeys(c, k) = {} THEN Goto(c, "ready") /\ UNCHANGED job
           ELSE Goto(c, "s_del") /\ job' = [job EXCEPT ![c] = [key |-> k]]
        /\ db' = IF done THEN [db EXCEPT ![x] = Fresh(c, p)] ELSE db
        /\ Touch(IF done THEN {x} ELSE {})
        /\ Answer(flag, k, <<Fresh(c, p)>>, [bool |-> done])
        /\ UNCHANGED <<listVars, program, localVars, scan>>

set_del(c) ==
    LET old == OldKeys(c, job[c].key) IN
    /\ pc[c] = "s_del"
    /\ Alive(c)
    /\ db' = Without(db, old)
    /\ Touch(Present(old))
    /\ Done(c)
    /\ UNCHANGED <<listVars, program, localVars, reply, scan>>

\* The markers count.
delete(c, k) ==
    LET ks == Elements(all_potential_keys(c, k)) IN
    /\ pc[c] = "ready"
    /\ Alive(c)
    /\ Goto(c, "ready")
    /\ db' = Without(db, ks)
    /\ Touch(Present(ks))
    /\ Answer("delete", k, << >>, [bool |-> Present(ks) # {}])
    /\ UNCHANGED <<listVars, job, program, localVars, scan>>

-----------------------------------------------------------------------------
(* do_upd_all_now: do_upd, whose result is ignored, and a get of every key *)
(* that a SCAN of the database returns and that is not at the current      *)
(* version.                                                                *)

do_upd_all_now(c, u) ==
    /\ do_upd(c, u)
    /\ scan' = [scan EXCEPT ![c] = [unseen |-> Key, batch |-> {}]]
    /\ UNCHANGED <<db, reply>>

Scanning(c) == pc[c] = "ready" /\ scan[c] # NULL

\* The keys among some that are not skipped as current.
Outdated(c, some) == {x \in Present(some) : x # CurrKey(c, x[2])}

\* Mutants: there is no second call; each call starts at cursor 0.
scan_once(c, some) ==
    scan' = [scan EXCEPT ![c] = [unseen |-> {}, batch |-> Outdated(c, some)]]
scan_from_0(c, some) ==
    scan' = [scan EXCEPT ![c] = [unseen |-> Key, batch |-> Outdated(c, some)]]
\* SCAN: the cursor passes some of the keyspace, and what is there is returned.
scan_next(c, some) ==
    scan' = [scan EXCEPT ![c] = [unseen |-> @.unseen \ some, batch |-> Outdated(c, some)]]

scan_call(c) ==
    /\ Scanning(c) /\ Alive(c)
    /\ scan[c].batch = {}
    /\ \E some \in SUBSET scan[c].unseen \ {{}} : scan_next(c, some)
    /\ Goto(c, "ready")
    /\ UNCHANGED <<listVars, job, program, localVars, watched, db, reply>>

\* After a rename, a key of the old namespace is a KeyError.
scan_get(c, x) ==
    /\ Scanning(c) /\ x \in scan[c].batch
    /\ IF x[1].ns = Here(c)
       THEN get(c, x[2]) /\ scan' = [scan EXCEPT ![c].batch = @ \ {x}]
       ELSE /\ Goto(c, "ready") /\ scan' = [scan EXCEPT ![c] = NULL]
            /\ UNCHANGED <<listVars, job, program, localVars, watched, db, reply>>

Scanned(c) == Scanning(c) /\ scan[c].unseen = {} /\ scan[c].batch = {}
scan_return(c) ==
    /\ Scanned(c)
    /\ scan' = [scan EXCEPT ![c] = NULL]
    /\ Goto(c, "ready")
    /\ UNCHANGED <<listVars, job, program, localVars, watched, db, reply>>

-----------------------------------------------------------------------------
(* The clients *)

\* Steps of LurVersions.
VersionStep(c) ==
    /\ ~Scanning(c)
    /\ ConnectStep(c) \/ UpdateStep(c)
    /\ scan' = IF pc[c] \in {"u_hget", "r_exists", "r_read"} /\ pc'[c] = "ready"
               THEN [scan EXCEPT ![c] = NULL] ELSE scan
    /\ UNCHANGED <<db, reply>>

stop(c) == exit(c) /\ scan' = [scan EXCEPT ![c] = NULL] /\ UNCHANGED <<db, reply>>

\* A call that has started goes on.
Continue(c) ==
    \/ pc[c] = "g_get" /\ get(c, job[c].key) /\ UNCHANGED scan
    \/ scan_call(c) \/ (\E x \in Key : scan_get(c, x)) \/ scan_return(c)
    \/ get_mget(c) \/ get_mark(c) \/ get_watch(c) \/ get_read(c) \/ get_exec(c) \/ set_del(c)

Call(c) ==
    /\ pc[c] = "ready" /\ scan[c] = NULL /\ InUse(c)
    /\ \E k \in Suffix :
         \/ "get" \in Commands /\ get(c, k) /\ UNCHANGED scan
         \/ "delete" \in Commands /\ delete(c, k)
         \/ \E p \in Payload :
              \/ "set" \in Commands /\ set(c, k, p)
              \/ \E flag \in Commands \cap {"setnx", "setxx"} : set_flagged(c, k, p, flag)

LurInit ==
    /\ VersionsInit
    /\ db = [x \in Key |-> NULL]
    /\ reply = NULL
    /\ scan = [c \in Client |-> NULL]

UpdateAll(c) ==
    "upd_all" \in Commands /\ scan[c] = NULL /\ \E u \in Files : do_upd_all_now(c, u)

LurNext == \E c \in Client : VersionStep(c) \/ UpdateAll(c) \/ stop(c) \/ Continue(c) \/ Call(c)

LurSpec == LurInit /\ [][LurNext]_lurVars

\* A client that is running and not cut off finishes the call it is in.
LurFairSpec == LurSpec /\ \A c \in Client : WF_lurVars(Continue(c))

-----------------------------------------------------------------------------
(* Properties *)

\* What Redis and the clients hold has its type; what is watched is a key with
\* its version, a version list or the update files.
LurTypeOK ==
    /\ UPDATE_VERSIONS \in [NS -> Seq(Entry)] /\ UPDATE_DSL_STRINGS \subseteq Files
    /\ program \in [Client -> Ver \cup {NULL}]
    /\ ns_versions_dict \in [Client -> [NS -> Seq(Entry)]]
    /\ upd_dict \in [Client -> SUBSET Files]
    /\ name \in [Client -> SUBSET Entry] /\ killed \in [Client -> BOOLEAN]
    /\ watched \in [Client -> SUBSET (Key \cup {List(n) : n \in NS} \cup {DslStrings})]
    /\ db \in [Key -> Value \cup {NULL, Marker}]
    /\ scan \in [Client -> [unseen : SUBSET Key, batch : SUBSET Key] \cup {NULL}]

\* What is stored under a version has the shape of that version, whatever
\* calls, updates and lost transactions led there: no update function is
\* skipped, applied twice, or given a value of another shape.
ShapesTruthful == \A x \in Key : db[x] \in Value => db[x].conf = x[1].ver

\* "abort if any version of key 'name' changes": a get writes the new key only
\* while the value it has updated is the one still stored, and nothing has
\* been stored under the new key.
CommitFresh ==
    [][\A c \in Client :
          pc[c] = "g_exec" /\ pc'[c] = "ready" /\ db' # db
          => db[orig_name(c)] = job[c].orig_val /\ db[CurrKey(c, job[c].key)] = NULL]_lurVars

\* "Scan through all keys in the database and update as necessary": when
\* do_upd_all_now returns, whoever else was at work, every key has its value
\* under the current version; a copy under an old one is out of use.
AllUpdated ==
    \A c \in Client : Scanned(c) =>
        \A k \in Suffix : Present(OldKeys(c, k)) # {} => db[CurrKey(c, k)] # NULL

\* No version is lost from the lists, also when two clients load updates or
\* rename the namespace at the same time.
NoVersionLost ==
    [][\A n \in NS : \A e \in Elements(UPDATE_VERSIONS[n]) :
          \E m \in NS : e \in Elements(UPDATE_VERSIONS'[m])]_lurVars

\* A stored update file is never replaced by a rival for the same versions.
FilesKept == [][UPDATE_DSL_STRINGS \subseteq UPDATE_DSL_STRINGS']_lurVars

\* Calls come to an end, though other programs go on writing: a get is retried
\* when another client wins the race for the key, which cannot go on forever,
\* and do_upd_all_now has to get through all keys.
CallsEnd ==
    \A c \in Client :
        \/ pc[c] \in {"g_get", "g_mget", "g_watch", "g_read", "g_exec"}
        \/ Scanning(c)
        ~> pc[c] \in {"ready", "off"} /\ scan[c] = NULL
=============================================================================
