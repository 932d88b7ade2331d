----------------------------- MODULE KvolveHooks ----------------------------
(***************************************************************************)
(* The hooks of KVolve (kvolve.c, kvolve_internal.c): what                 *)
(* kvolve_process_command does to the data before Redis executes a         *)
(* command.  A hook is a function on the server (see RedisCommands), which *)
(* here also has s.tmp, the table tmp_store: the tag that is to be given   *)
(* to each key when it exists, or NULL.  k is the key of the command, v    *)
(* the registry entry (a namespace) found for it.                          *)
(*                                                                         *)
(* A key is a sequence of segments ("foo:order:1" is                       *)
(* <<"foo", "order", "1">>) and so is the name of a namespace.  An update  *)
(* function turns data of the schema it was written for into its target,   *)
(* anything else into Garbled.                                             *)
(***************************************************************************)
EXTENDS KvolveRegistry, RedisCommands

CONSTANTS
    Names,   \* last segments of the keys
    Payload, \* contents of the data that is not a number
    Numbers, \* the numbers among the data, all below REDIS_SHARED_INTEGERS
    Garbled  \* schema of what a function made of foreign data

ASSUME HooksAssumption ==
    /\ IsFiniteSet(NS) /\ \A n \in NS : n \in Seq(STRING) /\ n # << >>
    /\ IsFiniteSet(Names) /\ Names \subseteq STRING
    /\ Vers \subseteq Nat \ {0} /\ Garbled \notin Vers \cup {0}

\* No namespace is inside another, as "order" and "order:item" are, and none is
\* the one of the keys without a prefix: the prefix of a key is all that says
\* which namespace it is in.
PlainNames ==
    /\ <<"*">> \notin NS
    /\ \A m, n \in NS : Len(m) <= Len(n) /\ SubSeq(n, 1, Len(m)) = m => m = n

Key == {Append(n, s) : n \in NS, s \in Names}

\* The strings, as objects.
StringObject ==
    [type : {"string"}, enc : {"raw", "int"}, vers : Vers \cup {0},
     ptr : [val : Payload \cup Numbers, conf : Vers \cup {0, Garbled}]]

ASSUME NullAssumption == NULL \notin Key /\ NULL \notin StringObject

\* What a loop whose body is F makes of x, over the elements of es in order.
Loop(x, es, F(_, _)) ==
    LET after[n \in 0..Len(es)] == IF n = 0 THEN x ELSE F(after[n - 1], es[n])
    IN  after[Len(es)]
\* The elements of S in some order, each once.
InOrder(S) == CHOOSE f \in [1..Cardinality(S) -> S] : \A i, j \in DOMAIN f : f[i] = f[j] => i = j

-----------------------------------------------------------------------------
(* Looking up names *)

\* The longest proper prefix that is in the table; "*" is for keys without one.
kvolve_version_hash_lookup(k) ==
    LET found == IF Len(k) = 1 THEN {<<"*">>} \cap {n \in NS : Registered(n)}
                 ELSE {n \in NS : Registered(n) /\ Len(n) < Len(k) /\ SubSeq(k, 1, Len(n)) = n}
    IN  IF found = {} THEN NULL
        ELSE CHOOSE n \in found : \A m \in found : Len(m) <= Len(n)

kvolve_construct_prev_name(k, n) == Append(n, k[Len(k)])

\* Where the loop "Iterate prev namespaces" goes from the entry t.
NextHop(t) == kvolve_version_hash_lookup(prev_ns[t])

\* Mutant: the old names are not searched.
get_db_val_current(s, k, v) == IF s.db[k] # NULL THEN k ELSE NULL

\* The name under which kvolve_get_db_val finds the value of k, or NULL.  The
\* loop visits each entry at most once.
kvolve_get_db_val(s, k, v) ==
    LET Walk[left \in SUBSET NS] == [t \in NS \cup {NULL} |->
          IF t \notin left THEN NULL
          ELSE IF prev_ns[t] = NULL THEN NULL
          ELSE LET old == kvolve_construct_prev_name(k, prev_ns[t])
               IN  IF s.db[old] # NULL THEN old ELSE Walk[left \ {t}][NextHop(t)]]
    IN  IF s.db[k] # NULL THEN k ELSE Walk[NS][v]

-----------------------------------------------------------------------------
(* Renaming *)

\* "rename" through a fake client.
kvolve_namespace_update(s, k, v) ==
    IF s.db[k] # NULL THEN s
    ELSE renameGenericCommand(s, kvolve_construct_prev_name(k, prev_ns[v]), k)

\* A number has no version: it is renamed whenever it is under the old name.
kvolve_check_rename(s, k, v) ==
    LET at == kvolve_get_db_val(s, k, v)
    IN  IF prev_ns[v] # NULL /\ at # NULL /\ (s.db[at].enc = "int" \/ s.db[at].vers # Latest(v))
        THEN kvolve_namespace_update(s, k, v) ELSE s

\* dbDelete: the clients that watch the old name are not told.
kvolve_checkdel_old(s, k, v) ==
    LET at == kvolve_get_db_val(s, k, v)
    IN  IF at = NULL THEN s ELSE [s EXCEPT !.db[at] = NULL]

\* kvolve_keys renames every key of a namespace that has been renamed, from
\* the old name to the next, if the next matches the pattern "n:*".
Matches(n) == {k \in Key : SubSeq(k, 1, Len(n)) = n}
kvolve_keys(s, n) ==
    LET entry(k) == kvolve_version_hash_lookup(k)
        renamed == {o \in Key : s.db[o] # NULL /\ entry(o) # NULL /\ next_ns[entry(o)] # NULL}
        new(o) == kvolve_construct_prev_name(o, next_ns[entry(o)])
    IN  Loop(s, InOrder({new(o) : o \in renamed} \cap Matches(n)),
             LAMBDA t, k : kvolve_namespace_update(t, k, entry(k)))

-----------------------------------------------------------------------------
(* Updating *)

\* The position of a version in the history, 0 if it is not there.
KeyVers(v, w) ==
    IF w \in Elements(versions[v])
    THEN CHOOSE i \in 1..Len(versions[v]) :
           versions[v][i] = w /\ \A j \in 1..(i - 1) : versions[v][j] # w
    ELSE 0

\* The updates after the object's version; there may be none to some version.
UpdatesDue(o, v) ==
    LET first == KeyVers(v, o.vers)
    IN  [i \in 1..(Len(versions[v]) - first) |-> info[v][first + i]]

\* What the functions of the update u make of the data b.  Numbers, and fields
\* they do not rename, stay.
Updated(b, u) ==
    IF u = NULL \/ IsNumber(b) THEN b
    ELSE [b EXCEPT !.conf = IF @ = u.from_vers THEN u.to_vers ELSE Garbled]

\* check_key: the rename before the functions are called.
Renamed(s, k, v, o) ==
    LET u == UpdatesDue(o, v)[1]
    IN  IF u # NULL /\ u.from_ns # v THEN kvolve_namespace_update(s, k, v) ELSE s

\* A string.  The object keeps its identity through the rename: it is updated
\* wherever it is stored now.  signalModifiedKey is given the value, not the
\* key, so nobody is told.
kvolve_check_update_kv_pair(s, k, v) ==
    LET at == kvolve_get_db_val(s, k, v)
        o == s.db[at]
        renamed == Renamed(s, k, v, o)
        here == IF renamed.db[at] = NULL THEN k ELSE at
    IN  IF at = NULL THEN s
        ELSE IF o.enc = "int" THEN kvolve_check_rename(s, k, v)
        ELSE IF o.vers = Latest(v) THEN s
        ELSE [renamed EXCEPT !.db[here].vers = Latest(v),
                             !.db[here].ptr = Loop(o.ptr, UpdatesDue(o, v), Updated)]

\* The element e of the container k is replaced by new.
kvolve_update_set_elem(s, k, e, new) ==
    With(saddCommand(s, k, new), LAMBDA t : sremCommand(t, k, e))
kvolve_update_list_elem(s, k, e, new) ==
    With(pushxGenericCommand(s, k, e, new), LAMBDA t : lremCommand(t, k, e))
kvolve_update_zset_elem(s, k, e, new, score) ==
    With(zaddGenericCommand(s, k, Printed(score), new), LAMBDA t : zremCommand(t, k, e))
\* A function may change the name of the field f as well.
kvolve_update_hash_elem(s, k, f, newf, val) ==
    With(hsetCommand(s, k, newf, val), LAMBDA t : IF newf = f THEN t ELSE hdelCommand(t, k, f))

\* One update of one element of the container o, where a.e is what the ones
\* before have made of it: of a hash, the field.  The functions of a hash are
\* given the value as it was before the first.
UpdateElement(a, k, o, x, u) ==
    LET e == a.e
        new == Updated(e, u)
        val == Updated(o.ptr[x], u)
    IN  IF new = e /\ (o.type = "hash" => val = o.ptr[x]) THEN a
        ELSE [e |-> new,
              s |-> CASE o.type = "set" -> kvolve_update_set_elem(a.s, k, e, new)
                      [] o.type = "list" -> kvolve_update_list_elem(a.s, k, e, new)
                      [] o.type = "zset" -> kvolve_update_zset_elem(a.s, k, e, new, o.ptr[x])
                      [] o.type = "hash" -> kvolve_update_hash_elem(a.s, k, e, new, val)]

\* kvolve_check_update_kv_pair for an element: the first one renames the key.
check_update_element(s, k, v, o, x, first) ==
    IF o.type \in {"set", "list"} /\ IsNumber(x) THEN kvolve_check_rename(s, k, v)
    ELSE Loop([s |-> IF first THEN Renamed(s, k, v, o) ELSE s, e |-> x], UpdatesDue(o, v),
              LAMBDA a, u : With(a, LAMBDA b : UpdateElement(b, k, o, x, u))).s

\* The elements in the order of the loop: fields, for a hash.
Iterated(o) == IF o.type = "list" THEN o.ptr ELSE InOrder(Members(o.type, o.ptr))
UpdateElements(s, k, v, o) ==
    LET es == Iterated(o)
    IN  Loop(s, [n \in DOMAIN es |-> n],
             LAMBDA t, n : With(t, LAMBDA w : check_update_element(w, k, v, o, es[n], n = 1)))

\* kvolve_update_all_set, _list, _hash, _zset: the elements are read first and
\* replaced one by one, all under the name k; the object is tagged wherever it
\* is stored now.  A sorted set that is no ziplist is left as it is.
kvolve_update_all(s, k, v) ==
    LET update(at) ==
          IF at = NULL THEN s
          ELSE IF s.db[at].vers = Latest(v) \/ s.db[at].enc = "skiplist" THEN s
          ELSE With(With(s.db[at], LAMBDA o : UpdateElements(s, k, v, o)),
                    LAMBDA t : [t EXCEPT !.db[IF t.db[at] = NULL THEN k ELSE at].vers = Latest(v)])
    IN  With(kvolve_get_db_val(s, k, v), update)

-----------------------------------------------------------------------------
(* The tag of a new container *)

\* Mutant: the tag is not kept for a key that does not exist yet.
new_version_lost(s, k, v) == s
\* Mutant: the version is read one slot too far, where calloc has put 0.
new_version_past_end(s, k, v) == [s EXCEPT !.tmp[k] = 0]
kvolve_new_version(s, k, v) == [s EXCEPT !.tmp[k] = Latest(v)]

\* Mutant: the entry stays in the table.
prevcall_kept(s) ==
    [s EXCEPT !.db = [k \in Key |-> IF s.db[k] # NULL /\ s.tmp[k] # NULL
                                    THEN [s.db[k] EXCEPT !.vers = s.tmp[k]] ELSE s.db[k]]]
\* Before any other command: the containers that exist by now get their tags.
kvolve_prevcall_check(s) ==
    [s EXCEPT !.db = [k \in Key |-> IF s.db[k] # NULL /\ s.tmp[k] # NULL
                                    THEN [s.db[k] EXCEPT !.vers = s.tmp[k]] ELSE s.db[k]],
              !.tmp = [k \in Key |-> IF s.db[k] # NULL THEN NULL ELSE s.tmp[k]]]

\* Mutant: a container that exists is not updated before it grows.
add_current(s, k, v) ==
    IF kvolve_get_db_val(s, k, v) = NULL THEN kvolve_new_version(s, k, v) ELSE s
\* kvolve_sadd, kvolve_zadd, kvolve_lpush, kvolve_hmset
kvolve_add(s, k, v) ==
    IF kvolve_get_db_val(s, k, v) = NULL THEN kvolve_new_version(s, k, v)
    ELSE kvolve_update_all(s, k, v)

-----------------------------------------------------------------------------
(* The hooks of the string commands *)

\* Mutant: the copy under the old name is left.
set_keeping_old(s, k, v) == s
kvolve_set(s, k, v) ==
    IF prev_ns[v] # NULL /\ s.db[k] = NULL THEN kvolve_checkdel_old(s, k, v) ELSE s

\* Mutant: the copy under the old name is deleted, as for SET.
setnx_deleting_old(s, k, v) == IF s.db[k] = NULL THEN kvolve_checkdel_old(s, k, v) ELSE s
kvolve_setnx(s, k, v) ==
    IF s.db[k] # NULL \/ kvolve_get_db_val(s, k, v) = NULL THEN s
    ELSE kvolve_namespace_update(s, k, v)

\* Mutant: the number under the old name is not looked for.
incr_current_name(s, k, v) == s
kvolve_incr(s, k, v) ==
    IF prev_ns[v] = NULL \/ kvolve_get_db_val(s, k, v) = NULL THEN s
    ELSE kvolve_namespace_update(s, k, v)

-----------------------------------------------------------------------------
(* kvolve_process_command.  The entry of the first key is used for all.    *)

\* The hooks that go through the keys of the command.
OnKey(cmd, s, k, v) ==
    CASE cmd \in {"get", "getset", "mget"} -> kvolve_check_update_kv_pair(s, k, v)
      [] cmd \in {"set", "mset"} -> kvolve_set(s, k, v)
      [] cmd \in {"del", "mdel"} -> kvolve_check_rename(s, k, v)

EachKey(cmd, s, ks, v) == Loop(s, ks, LAMBDA t, x : OnKey(cmd, t, x, v))

\* The other commands with a hook (HGET, LLEN, SISMEMBER, ZSCORE, ...) have one
\* of these.  The hook of SCARD is never called: it is registered with one
\* argument more than SCARD has.
kvolve_commands(s, r) ==
    LET k == r.keys[1]
        v == kvolve_version_hash_lookup(k)
    IN  CASE r.cmd \in {"get", "getset", "mget", "set", "mset", "del", "mdel"} ->
               EachKey(r.cmd, s, r.keys, v)
          [] r.cmd \in {"setnx", "setxx"} -> kvolve_setnx(s, k, v)
          [] r.cmd = "incr" -> kvolve_incr(s, k, v)
          [] r.cmd \in {"sadd", "zadd", "lpush", "rpush", "hset"} -> kvolve_add(s, k, v)
          [] r.cmd \in {"smembers", "srem", "zrange", "zrem", "lrange", "lpop", "rpop", "lset",
                        "hgetall", "hdel"} -> kvolve_update_all(s, k, v)

kvolve_process_command(s, r) ==
    LET t == kvolve_prevcall_check(s)
    IN  IF kvolve_version_hash_lookup(r.keys[1]) = NULL THEN t ELSE kvolve_commands(t, r)

\* SET, MSET and SET XX tag the data they are given; SETNX and GETSET do not.
Tagged(r) ==
    IF r.cmd \in {"set", "mset", "setxx"}
    THEN [r EXCEPT !.tag = Latest(kvolve_version_hash_lookup(r.keys[1]))] ELSE r
=============================================================================
