--------------------------- MODULE RedisCommands ----------------------------
(***************************************************************************)
(* The Redis commands that KVolve puts its hooks before, or calls itself,  *)
(* as functions on a server.  Of a server s they use s.db, the keyspace    *)
(* (an object or NULL for each name), s.touched, the keys given to         *)
(* signalModifiedKey, and s.res, the reply.                                *)
(***************************************************************************)
EXTENDS RedisObjects, Naturals, Sequences, FiniteSets

CONSTANT zset_max_ziplist_entries \* Redis configuration

\* F(x), for an x that TLC is to evaluate once and not at each use.
With(x, F(_)) == CHOOSE y \in {F(z) : z \in {x}} : TRUE

\* Numbers become shared objects, which keep no tag.
tryObjectEncoding(b, tag) ==
    IF IsNumber(b) THEN createObject("string", "int", b)
    ELSE [createObject("string", "raw", b) EXCEPT !.vers = tag]

Data(o) == IF o = NULL THEN NULL ELSE o.ptr

signalModifiedKey(s, k) == [s EXCEPT !.touched = @ \cup {k}]
setKey(s, k, o) == signalModifiedKey([s EXCEPT !.db[k] = o], k)
\* A reply names its kind: bool, integer, bulk (one piece of data), multi, ...
Reply(s, res) == [s EXCEPT !.res = res]

-----------------------------------------------------------------------------
(* Schemas *)

\* The object o as programs see it: without its tag and encoding.
Plain(o) == IF o = NULL THEN NULL ELSE createObject(o.type, "raw", o.ptr)

\* A number has no schema: no update touches it.
Convert(b, v) == IF IsNumber(b) THEN b ELSE [b EXCEPT !.conf = v]

\* A score is counted in units of 10^-7.  "%f" prints it with six decimals.
Printed(score) == ((score + 5) \div 10) * 10

\* The function p with each element e of its domain replaced by Convert(e, v).
Rekeyed(p, v) ==
    [b \in {Convert(e, v) : e \in DOMAIN p} |-> p[CHOOSE e \in DOMAIN p : Convert(e, v) = b]]

\* The object o with all its data brought to schema v, scores printed on the way.
Converted(o, v) ==
    IF o = NULL THEN NULL
    ELSE createObject(o.type, "raw",
           CASE o.type = "string" -> Convert(o.ptr, v)
             [] o.type = "set" -> {Convert(b, v) : b \in o.ptr}
             [] o.type = "list" -> [i \in DOMAIN o.ptr |-> Convert(o.ptr[i], v)]
             [] o.type = "hash" -> Rekeyed([f \in DOMAIN o.ptr |-> Convert(o.ptr[f], v)], v)
             [] o.type = "zset" -> Rekeyed([e \in DOMAIN o.ptr |-> Printed(o.ptr[e])], v))

-----------------------------------------------------------------------------
(* Keys and strings *)

\* The last value wins if a key is given twice.
Zipped(ks, os) ==
    [k \in {ks[n] : n \in DOMAIN ks} |->
       os[CHOOSE n \in DOMAIN ks : ks[n] = k /\ \A m \in DOMAIN ks : ks[m] = k => m <= n]]

delCommand(s, ks) ==
    LET gone == {k \in {ks[n] : n \in DOMAIN ks} : s.db[k] # NULL}
    IN  [s EXCEPT !.db = [k \in DOMAIN @ |-> IF k \in gone THEN NULL ELSE @[k]],
                  !.touched = @ \cup gone, !.res = [integer |-> Cardinality(gone)]]

\* An error, without effect, if there is nothing to rename.
renameGenericCommand(s, from, to) ==
    IF s.db[from] = NULL THEN s
    ELSE [s EXCEPT !.db[to] = s.db[from], !.db[from] = NULL, !.touched = @ \cup {from, to}]

mgetCommand(s, ks) == Reply(s, [multi |-> [n \in DOMAIN ks |-> Data(s.db[ks[n]])]])

setGenericCommand(s, k, o, flag) ==
    IF (flag = "nx" /\ s.db[k] # NULL) \/ (flag = "xx" /\ s.db[k] = NULL)
    THEN Reply(s, [bool |-> FALSE]) ELSE Reply(setKey(s, k, o), [bool |-> TRUE])

getsetCommand(s, k, o) == Reply(setKey(s, k, o), [bulk |-> Data(s.db[k])])

msetGenericCommand(s, ks, os) ==
    LET new == Zipped(ks, os)
    IN  [s EXCEPT !.db = [k \in DOMAIN @ |-> IF k \in DOMAIN new THEN new[k] ELSE @[k]],
                  !.touched = @ \cup DOMAIN new, !.res = [bool |-> TRUE]]

\* INCR writes a new object.  Anything but a number is an error.
incrDecrCommand(s, k) ==
    LET o == s.db[k]
        n == IF o = NULL THEN 0 ELSE o.ptr.val
    IN  IF o # NULL /\ ~IsNumber(o.ptr) THEN Reply(s, [bool |-> FALSE])
        ELSE Reply(setKey(s, k, tryObjectEncoding([val |-> n + 1, conf |-> 0], 0)), [bool |-> TRUE])

keysCommand(s, matches) == Reply(s, [keys |-> {k \in matches : s.db[k] # NULL}])

-----------------------------------------------------------------------------
(* Containers: what an operation makes of the content p.  A container is   *)
(* created when it gets its first element and deleted with its last.       *)

Members(t, p) == IF t = "set" THEN p ELSE DOMAIN p
NoElements(t) == IF t = "set" THEN {} ELSE << >>
Content(s, k, t) == IF s.db[k] = NULL THEN NoElements(t) ELSE s.db[k].ptr

\* A sorted set leaves the ziplist encoding when it grows, for good.
EncodingOf(old, p) ==
    IF old = "ziplist" /\ Cardinality(DOMAIN p) > zset_max_ziplist_entries THEN "skiplist" ELSE old

Store(s, k, t, p) ==
    LET old == IF s.db[k] = NULL THEN createObject(t, IF t = "zset" THEN "ziplist" ELSE "raw", p)
               ELSE s.db[k]
    IN  IF Members(t, p) = {} THEN setKey(s, k, NULL)
        ELSE setKey(s, k, [old EXCEPT !.ptr = p, !.enc = EncodingOf(@, p)])

\* Nothing is signalled if nothing changes.
Change(s, k, t, p) == IF p = Content(s, k, t) THEN s ELSE Store(s, k, t, p)

saddCommand(s, k, b) ==
    LET p == Content(s, k, "set") IN Reply(Change(s, k, "set", p \cup {b}), [bool |-> b \notin p])
sremCommand(s, k, b) ==
    LET p == Content(s, k, "set") IN Reply(Change(s, k, "set", p \ {b}), [bool |-> b \in p])

Occurs(p, e) == \E i \in DOMAIN p : p[i] = e
First(p, e) == CHOOSE i \in DOMAIN p : p[i] = e /\ \A j \in 1..(i - 1) : p[j] # e

pushGenericCommand(s, k, b, where) ==
    LET p == Content(s, k, "list")
        q == IF where = "head" THEN <<b>> \o p ELSE Append(p, b)
    IN  Reply(Store(s, k, "list", q), [integer |-> Len(q)])
popGenericCommand(s, k, where) ==
    LET p == Content(s, k, "list")
    IN  IF p = << >> THEN Reply(s, [bulk |-> NULL])
        ELSE IF where = "head" THEN Reply(Store(s, k, "list", Tail(p)), [bulk |-> Head(p)])
        ELSE Reply(Store(s, k, "list", SubSeq(p, 1, Len(p) - 1)), [bulk |-> p[Len(p)]])
\* The first element is index 0 there, 1 here.
lsetCommand(s, k, i, b) ==
    LET p == Content(s, k, "list")
    IN  IF i \notin DOMAIN p THEN Reply(s, [bool |-> FALSE])
        ELSE Reply(Store(s, k, "list", [p EXCEPT ![i] = b]), [bool |-> TRUE])
\* LINSERT BEFORE: in front of the first occurrence of the pivot.
pushxGenericCommand(s, k, pivot, b) ==
    LET p == Content(s, k, "list")
    IN  IF ~Occurs(p, pivot) THEN s
        ELSE Store(s, k, "list", SubSeq(p, 1, First(p, pivot) - 1) \o <<b>>
                                 \o SubSeq(p, First(p, pivot), Len(p)))
\* LREM 1: the first occurrence.
lremCommand(s, k, b) ==
    LET p == Content(s, k, "list")
    IN  IF ~Occurs(p, b) THEN s
        ELSE Store(s, k, "list", SubSeq(p, 1, First(p, b) - 1) \o SubSeq(p, First(p, b) + 1, Len(p)))

\* The function p with y at x, and without x.
Put(p, x, y) == [z \in DOMAIN p \cup {x} |-> IF z = x THEN y ELSE p[z]]
Without(p, x) == [z \in DOMAIN p \ {x} |-> p[z]]

hsetCommand(s, k, f, b) ==
    LET p == Content(s, k, "hash")
    IN  Reply(Store(s, k, "hash", Put(p, f, b)), [bool |-> f \notin DOMAIN p])
hdelCommand(s, k, f) ==
    LET p == Content(s, k, "hash")
    IN  Reply(Change(s, k, "hash", Without(p, f)), [bool |-> f \in DOMAIN p])

zaddGenericCommand(s, k, score, b) ==
    LET p == Content(s, k, "zset")
    IN  Reply(Change(s, k, "zset", Put(p, b, score)), [bool |-> b \notin DOMAIN p])
zremCommand(s, k, b) ==
    LET p == Content(s, k, "zset")
    IN  Reply(Change(s, k, "zset", Without(p, b)), [bool |-> b \in DOMAIN p])

-----------------------------------------------------------------------------
(* Requests *)

call(s, r) ==
    LET k == r.keys[1]
        b == r.args[1]
        objects == [n \in DOMAIN r.args |-> tryObjectEncoding(r.args[n], r.tag)]
    IN  CASE r.cmd \in {"get", "mget"} -> mgetCommand(s, r.keys)
          [] r.cmd = "set" -> setGenericCommand(s, k, objects[1], "")
          [] r.cmd = "setnx" -> setGenericCommand(s, k, objects[1], "nx")
          [] r.cmd = "setxx" -> setGenericCommand(s, k, objects[1], "xx")
          [] r.cmd = "getset" -> getsetCommand(s, k, objects[1])
          [] r.cmd = "mset" -> msetGenericCommand(s, r.keys, objects)
          [] r.cmd \in {"del", "mdel"} -> delCommand(s, r.keys)
          [] r.cmd = "incr" -> incrDecrCommand(s, k)
          [] r.cmd = "sadd" -> saddCommand(s, k, b)
          [] r.cmd = "srem" -> sremCommand(s, k, b)
          [] r.cmd = "lpush" -> pushGenericCommand(s, k, b, "head")
          [] r.cmd = "rpush" -> pushGenericCommand(s, k, b, "tail")
          [] r.cmd = "lpop" -> popGenericCommand(s, k, "head")
          [] r.cmd = "rpop" -> popGenericCommand(s, k, "tail")
          [] r.cmd = "lset" -> lsetCommand(s, k, r.at, b)
          [] r.cmd = "hset" -> hsetCommand(s, k, r.at, b)
          [] r.cmd = "hdel" -> hdelCommand(s, k, r.at)
          [] r.cmd = "zadd" -> zaddGenericCommand(s, k, r.at, b)
          [] r.cmd = "zrem" -> zremCommand(s, k, b)
          [] r.cmd \in {"smembers", "lrange", "hgetall", "zrange"} -> Reply(s, [all |-> Data(s.db[k])])

\* The server after each of a sequence of requests, from 0, the server before.
calls(s, rs) ==
    LET after[n \in 0..Len(rs)] == IF n = 0 THEN s ELSE call(after[n - 1], rs[n])
    IN  after
=============================================================================
