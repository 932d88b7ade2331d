----------------------------- MODULE KvolveData -----------------------------
(***************************************************************************)
(* KVolve's registry and data together, outside MULTI.  Redis calls        *)
(* kvolve_process_command just before it executes a command, and runs one  *)
(* command at a time: an action is the hook followed by the Redis command. *)
(***************************************************************************)
EXTENDS KvolveTable, KvolveHooks

CONSTANTS
    MaxLen,     \* lists have at most MaxLen elements
    Fields,     \* names of the fields of hashes
    Reshaped,   \* names of the hashes whose fields the functions rename
    Scores,     \* scores of sorted sets, in units of 10^-7
    Typings,    \* what the programs may use each name for: a type, or "none"
    Commands,   \* commands the programs use
    Rejectable  \* the ones among them that Redis may turn down after the hook

ASSUME DataAssumption ==
    /\ Numbers \subseteq 0..9999 /\ MaxLen \in Nat /\ Scores \subseteq Nat
    /\ Typings \subseteq [Names -> {"string", "set", "list", "zset", "hash", "none"}]
    /\ NULL \notin Payload /\ Payload \cap Numbers = {}

VARIABLES
    db,        \* the keyspace: an object or NULL for each key
    tmp_store, \* the tags waiting for a new container
    type,      \* the type each name is used for, for good
    reply      \* the last requests, whether they were carried out, and the results

dataVars == <<db, tmp_store, type, reply>>
kvolveVars == <<registryVars, dataVars>>

Server == [db |-> db, tmp |-> tmp_store, touched |-> {}, res |-> NULL]
\* The server as any command finds it.
Settled == kvolve_prevcall_check(Server)

-----------------------------------------------------------------------------
(* Items: a key keeps its identity when its namespace is renamed *)

Item == NS \X Names
ItemOf(k) == <<Root(kvolve_version_hash_lookup(k)), k[Len(k)]>>
OnItems(r) == [r EXCEPT !.keys = [n \in DOMAIN @ |-> ItemOf(@[n])], !.tag = 0]

-----------------------------------------------------------------------------
(* What programs ask for: keys of the namespaces they declared, data in    *)
(* the schema they are written for.                                        *)

Uses(c, k) ==
    LET v == kvolve_version_hash_lookup(k)
    IN  conn[c] = "open" /\ v # NULL /\ declared[c][v] # NULL
TypeOf(k) == type[k[Len(k)]]

Written(c, k) ==
    {[val |-> p, conf |-> declared[c][kvolve_version_hash_lookup(k)]] : p \in Payload}
    \cup {[val |-> n, conf |-> 0] : n \in Numbers}

StringCommands == {"get", "getset", "set", "setnx", "setxx", "incr", "del"}
SetCommands == {"smembers", "sadd", "srem", "del"}
ListCommands == {"lrange", "lpush", "rpush", "lpop", "rpop", "lset", "del"}
HashCommands == {"hgetall", "hset", "hdel", "del"}
ZsetCommands == {"zrange", "zadd", "zrem", "del"}
CommandsOf(t) ==
    CASE t = "string" -> StringCommands [] t = "set" -> SetCommands [] t = "list" -> ListCommands
      [] t = "hash" -> HashCommands [] t = "zset" -> ZsetCommands [] t = "none" -> {}
WithoutData == {"get", "incr", "del", "smembers", "lrange", "lpop", "rpop", "hgetall", "hdel",
                "zrange"}

\* Programs put numbers into strings and sets only.  kvolve_update_all_zset
\* cannot read them; kvolve_update_all_list and _hash free the objects of the
\* elements they read, which for numbers are shared ones.
ArgsOf(c, cmd, k) ==
    IF cmd \in WithoutData THEN {<< >>}
    ELSE {<<b>> : b \in {w \in Written(c, k) : IsNumber(w) => TypeOf(k) \in {"string", "set"}}}
\* Fields have a name in each schema, or one for all.
FieldsOf(c, k) ==
    LET v == IF k[Len(k)] \in Reshaped THEN declared[c][kvolve_version_hash_lookup(k)] ELSE 0
    IN  {[val |-> f, conf |-> v] : f \in Fields}
AtOf(c, cmd, k) ==
    CASE cmd = "lset" -> 1..MaxLen [] cmd \in {"hset", "hdel"} -> FieldsOf(c, k)
      [] cmd = "zadd" -> Scores [] OTHER -> {NULL}

\* The bounds on numbers and lists, and on sorted sets: kvolve_update_all_zset
\* does not update a skiplist, and kvolve_update_zset_elem adds an element
\* before it removes one.
Bounded(s, r) ==
    LET o == s.db[r.keys[1]]
    IN  /\ r.cmd = "incr" => IF o = NULL THEN 1 \in Numbers
                             ELSE IsNumber(o.ptr) => o.ptr.val + 1 \in Numbers
        /\ (r.cmd \in {"lpush", "rpush"} /\ o # NULL) => Len(o.ptr) < MaxLen
        /\ (r.cmd = "zadd" /\ o # NULL) =>
             Cardinality(DOMAIN o.ptr \cup {r.args[1]}) < zset_max_ziplist_entries

OneKey(c, Do(_)) ==
    \E k \in {key \in Key : Uses(c, key)} :
        \E cmd \in Commands \cap CommandsOf(TypeOf(k)) :
            \E bs \in ArgsOf(c, cmd, k), at \in AtOf(c, cmd, k) : Do(Request(cmd, <<k>>, bs, at))

\* The keys of one command are of one namespace.
KeyPairs(c) ==
    {ks \in Key \X Key :
        /\ ks[1] # ks[2] /\ Uses(c, ks[1]) /\ Uses(c, ks[2])
        /\ TypeOf(ks[1]) = "string" /\ TypeOf(ks[2]) = "string"
        /\ kvolve_version_hash_lookup(ks[1]) = kvolve_version_hash_lookup(ks[2])}
TwoKeys(c, Do(_)) ==
    \E ks \in KeyPairs(c), cmd \in Commands \cap {"mget", "mset", "mdel"} :
        \E bs \in IF cmd # "mset" THEN {<< >>} ELSE Written(c, ks[1]) \X Written(c, ks[2]) :
            Do(Request(cmd, ks, bs, NULL))

-----------------------------------------------------------------------------
(* The commands *)

Becomes(s) == db' = s.db /\ tmp_store' = s.tmp /\ UNCHANGED type
Answer(rs, ok, res) ==
    reply' = [reqs |-> [n \in DOMAIN rs |-> OnItems(rs[n])], ok |-> ok, res |-> res]

Hooked(r) == kvolve_process_command(Server, r)
Executed(r) == call(Hooked(r), Tagged(r))

processCommand(r) ==
    LET s == Executed(r)
    IN  Bounded(Hooked(r), r) /\ Becomes(s) /\ Answer(<<r>>, TRUE, <<s.res>>)

\* Redis turns the command down after the hook: a bad expire time or option,
\* or no memory left.
processCommand_rejects(r) ==
    /\ r.cmd \in Rejectable
    /\ Becomes(Hooked(r))
    /\ Answer(<<r>>, FALSE, << >>)

\* KEYS n:*
Listed(n) == keysCommand(kvolve_keys(Settled, n), Matches(n))
keys(c, n) ==
    LET s == Listed(n)
    IN  /\ conn[c] = "open" /\ declared[c][n] # NULL
        /\ Becomes(s)
        /\ Answer(<<Request("keys", << >>, << >>, NULL)>>, TRUE, <<[keys |-> {ItemOf(k) : k \in s.res.keys}]>>)

DataStep(c) ==
    \/ OneKey(c, processCommand)
    \/ OneKey(c, processCommand_rejects)
    \/ TwoKeys(c, processCommand)
    \/ "keys" \in Commands /\ \E n \in NS : keys(c, n)

-----------------------------------------------------------------------------
(* The registry and the data together.  Updates are used as documented.    *)

\* CLIENT SETNAME is a command too, and comes after kvolve_prevcall_check.
RegistryStep(c) ==
    /\ \/ \E d \in Declarations : kvolve_check_version(c, d)
       \/ \E u \in Updates : DocumentedUpdate(c, u) /\ kvolve_load_update(c, u)
    /\ Becomes(Settled)
    /\ UNCHANGED reply

ConnectionStep(c) == (connect(c) \/ freeClient(c)) /\ UNCHANGED dataVars

KvolveInit ==
    /\ RegistryInit
    /\ db = [k \in Key |-> NULL]
    /\ tmp_store = [k \in Key |-> NULL]
    /\ type \in Typings
    /\ reply = NULL

KvolveNext ==
    \E c \in Client :
        \/ ConnectionStep(c) \/ RegistryStep(c)
        \/ DataStep(c) /\ UNCHANGED registryVars

KvolveSpec == KvolveInit /\ [][KvolveNext]_kvolveVars

-----------------------------------------------------------------------------
(* Properties *)

DataIn(o) ==
    CASE o.type = "string" -> {o.ptr} [] o.type = "set" -> o.ptr
      [] o.type = "list" -> Elements(o.ptr) [] o.type = "zset" -> DOMAIN o.ptr
      [] o.type = "hash" -> DOMAIN o.ptr \cup {o.ptr[f] : f \in DOMAIN o.ptr}
Used == {k \in Key : db[k] # NULL}

\* Every object is of the type its key is used for, its tag is a version or 0,
\* its data is numbers and contents in some schema, and no container is empty;
\* the tags in tmp_store are versions.
KvolveTypeOK ==
    /\ \A k \in Used :
         /\ db[k].type = TypeOf(k) /\ db[k].vers \in Vers \cup {0}
         /\ DataIn(db[k]) # {}
         /\ \A b \in DataIn(db[k]) : \/ b.val \in Payload \cup Fields /\ b.conf \in Vers \cup {Garbled}
                                     \/ b.val \in Numbers \cup Fields /\ b.conf = 0
    /\ tmp_store \in [Key -> Vers \cup {NULL}]

\* The version tag of a value is the schema of its data, and of every element
\* of a container, as soon as another command can see it: through any sequence
\* of lazy renames, lazy updates and overwrites, no data is updated twice,
\* skipped, or tagged without being updated.
TagsTruthful ==
    \A k \in Used : \A b \in DataIn(db[k]) : IsNumber(b) \/ b.conf = Settled.db[k].vers

\* The copy under an old name is gone once there is one under the new name:
\* kvolve_set deletes it, the other hooks move it.
OneCopy == \A k, l \in Used : ItemOf(k) = ItemOf(l) => k = l

\* Whatever is stored, under whichever of its names, is found by
\* kvolve_get_db_val from the name the programs use now.
Reachable ==
    \A k \in Used :
        LET v == Current(kvolve_version_hash_lookup(k))
        IN  kvolve_get_db_val(Server, Append(v, k[Len(k)]), v) = k

\* What reading each item under its present name would return.
Read(s, k, v) ==
    LET t == IF TypeOf(k) = "string" THEN kvolve_check_update_kv_pair(s, k, v)
             ELSE kvolve_update_all(s, k, v)
    IN  Plain(t.db[k])
IsRoot(n) == Registered(n) /\ prev_ns[n] = NULL
ReadNow(i) == With(Settled, LAMBDA s : With(Current(i[1]), LAMBDA v : Read(s, Append(v, i[2]), v)))
StoreNow == [i \in Item |-> IF IsRoot(i[1]) THEN ReadNow(i) ELSE NULL]
SchemaNow == [n \in NS |-> IF IsRoot(n) THEN Latest(Current(n)) ELSE NULL]

\* A command that only reads, or that has failed, loses and changes no content
\* while it renames and updates: what is stored for an item, under any of its
\* names, is the same before and after, but for the schema and what "%f" does
\* not print of a score.
Stored(i) == {Converted(db[k], Garbled) : k \in {l \in Used : ItemOf(l) = i}}
ReadOnly(cmd, res) ==
    \/ cmd \in {"get", "mget", "keys", "smembers", "lrange", "hgetall", "zrange"}
    \/ cmd \in {"setnx", "setxx", "incr"} /\ res = [bool |-> FALSE]
ReadsKeepData ==
    [][reply' # NULL /\ reply'.ok
         /\ (\A n \in DOMAIN reply'.reqs : ReadOnly(reply'.reqs[n].cmd, reply'.res[n]))
       => \A i \in Item : Stored(i)' = Stored(i)]_kvolveVars

-----------------------------------------------------------------------------
(* What comments in the code say and the code does not do *)

\* No update function is given data it was not written for.
UpdatesApplyOnce == \A k \in Used : \A b \in DataIn(db[k]) : b.conf # Garbled
=============================================================================
