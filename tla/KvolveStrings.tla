---------------------------- MODULE KvolveStrings ---------------------------
(***************************************************************************)
(* Strings under KVolve: what state they are in between two commands, and  *)
(* what the hooks and the commands make of it.  These are the invariants   *)
(* and the terms in which the proofs about strings are written; the other  *)
(* types are left to the model checker.                                    *)
(***************************************************************************)
EXTENDS KvolveData

-----------------------------------------------------------------------------
(* Finding a value *)

\* The key under which the name x of n is found, or under which it was before the
\* last rename.
FoundAt(d, n, x) ==
    IF d[Append(n, x)] # NULL THEN Append(n, x)
    ELSE IF prev_ns[n] # NULL /\ d[Append(prev_ns[n], x)] # NULL THEN Append(prev_ns[n], x)
    ELSE NULL

-----------------------------------------------------------------------------
(* Loops *)

\* What holds before the first round and after each round if before it, holds
\* after all N.
Counting ==
    \A N \in Nat : \A T :
        0 \in T /\ (\A n \in 1..N : n - 1 \in T => n \in T) => 0..N \subseteq T

-----------------------------------------------------------------------------
(* The hooks of the string commands *)

Srv(d, t, w, r) == [db |-> d, tmp |-> t, touched |-> w, res |-> r]

\* The keyspace is defined on the keys, and no more.
OnKeys(d) == d = [k \in Key |-> d[k]]
\* The keyspace with o under the name k.
At(d, k, o) == [d EXCEPT ![k] = o]
\* The keyspace with the value under one name moved to another.
Shifted(d, from, to) == [d EXCEPT ![to] = d[from], ![from] = NULL]

\* Both names are signalled as modified.
Signalled(w, from, to) == w \cup {from, to}

\* The value under the old name is moved to the name x of n, if there is none.
ToMove(d, n, x) ==
    prev_ns[n] # NULL /\ d[Append(n, x)] = NULL /\ d[Append(prev_ns[n], x)] # NULL
Moved(d, n, x) ==
    IF ToMove(d, n, x) THEN Shifted(d, Append(prev_ns[n], x), Append(n, x)) ELSE d
Touched(d, w, n, x) ==
    IF ToMove(d, n, x) THEN Signalled(w, Append(prev_ns[n], x), Append(n, x)) ELSE w
MovedServer(d, t, w, r, n, x) == Srv(Moved(d, n, x), t, Touched(d, w, n, x), r)

-----------------------------------------------------------------------------
(* Strings *)

\* A string with its tag, and a number, which has none.
Datum(p, v) == [val |-> p, conf |-> v]
Raw(p, v) == [type |-> "string", enc |-> "raw", vers |-> v, ptr |-> Datum(p, v)]
Num(i) == [type |-> "string", enc |-> "int", vers |-> 0, ptr |-> Datum(i, 0)]

\* A string of n is tagged with its schema, a version of n.
Fits(o, n) ==
    \/ o = NULL
    \/ Registered(n) /\ \E i \in Numbers : o = Num(i)
    \/ Registered(n) /\ \E p \in Payload, j \in 1..Len(versions[n]) : o = Raw(p, versions[n][j])
\* The keyspace holds such strings.
AllFit(d) ==
    /\ OnKeys(d)
    /\ \A n \in NS, x \in Names : Fits(d[Append(n, x)], n)

\* What the update functions make of the string o of n.
Fresh(o, n) == IF o = NULL \/ o.enc = "int" THEN o ELSE Raw(o.ptr.val, Latest(n))
Refreshed(d, n, x) ==
    At(Moved(d, n, x), Append(n, x), Fresh(Moved(d, n, x)[Append(n, x)], n))
\* The copy under the old name is dropped.
Dropped(d, n, x) == IF ToMove(d, n, x) THEN At(d, Append(prev_ns[n], x), NULL) ELSE d

\* The data of o after all the updates it is due for.
ChainOf(o, n) == Loop(o.ptr, UpdatesDue(o, n), Updated)
\* The object h is tagged with b and given the data q.
Rewrite(s, h, b, q) == [s EXCEPT !.db[h].vers = b, !.db[h].ptr = q]

\* A tagged string of n, at one of the versions of n.
RawOf(o, n) == o # NULL /\ \E p \in Payload, j \in 1..Len(versions[n]) : o = Raw(p, versions[n][j])

-----------------------------------------------------------------------------
(* What the hooks keep *)

\* No string is stored under a name and under the one before it.
OneName(d) ==
    \A n \in NS, x \in Names :
        prev_ns[n] = NULL \/ d[Append(n, x)] = NULL \/ d[Append(prev_ns[n], x)] = NULL
DataInv(d) == AllFit(d) /\ OneName(d)

\* Nothing is left under the name before.
Cleared(d, n, x) == prev_ns[n] = NULL \/ d[Append(prev_ns[n], x)] = NULL
\* The names x of n and of the namespace before n are all that may differ.
Elsewhere(d, e, n, x) ==
    \A m \in NS, y \in Names :
        y # x \/ (m # n /\ m # prev_ns[n]) => e[Append(m, y)] = d[Append(m, y)]
\* The name x of n is all that may differ.
OnlyAt(d, e, n, x) == \A m \in NS, y \in Names : n # m \/ x # y => e[Append(m, y)] = d[Append(m, y)]

\* Keeps(d, e, n, x): e is d after a hook for the name x of n.
Keeps(d, e, n, x) == DataInv(e) /\ Cleared(e, n, x) /\ Elsewhere(d, e, n, x)

-----------------------------------------------------------------------------
(* The hooks of commands *)

\* The tags waiting, where there are none.
NoTags == [k \in Key |-> NULL]
\* The commands whose hook updates the value, and those whose hook drops the old one.
Updating == {"get", "getset", "mget"}
Setting == {"set", "mset"}
\* The keyspace after the hook of cmd for the name x of n.
HookDb(cmd, d, n, x) ==
    IF cmd \in Updating THEN Refreshed(d, n, x)
    ELSE IF cmd \in Setting THEN Dropped(d, n, x) ELSE Moved(d, n, x)

\* Signalled keys with one more, and with several more.
Plus(w, k) == w \cup {k}
Joined(w, ks) == w \cup ks

\* The keys signalled after the hook of cmd for the name x of n.
HookTouched(cmd, d, w, n, x) == IF cmd \in Setting THEN w ELSE Touched(d, w, n, x)

-----------------------------------------------------------------------------
(* What Redis does to strings *)

\* Data a program may give for the schema of the last version of n.
ArgFits(b, n) ==
    (\E p \in Payload : b = Datum(p, Latest(n))) \/ (\E i \in Numbers : b = Datum(i, 0))

\* A command writes what fits under its key, and signals it, or does nothing.
Writes(d, w, e, u, n, x) ==
    \/ e = d /\ u = w
    \/ \E o : Fits(o, n) /\ e = At(d, Append(n, x), o) /\ u = Plus(w, Append(n, x))

\* The keyspace without the keys in gone.
Deleted(d, gone) == [l \in Key |-> IF l \in gone THEN NULL ELSE d[l]]

\* The keys that are there to be deleted.
Gone(d, ks) == {k \in {ks[i] : i \in DOMAIN ks} : d[k] # NULL}

-----------------------------------------------------------------------------
(* KEYS n:* and the loop of kvolve_keys *)

\* One round of the loop of kvolve_keys.
Rename(s, k) == kvolve_namespace_update(s, k, kvolve_version_hash_lookup(k))
\* The servers before and after the rounds.
RenameRun(W, s, es, N) == W = [n \in 0..N |-> IF n = 0 THEN s ELSE Rename(W[n - 1], es[n])]

-----------------------------------------------------------------------------
(* Strings as programs see them *)

\* A string as programs see it.
Text(p, v) == createObject("string", "raw", Datum(p, v))

\* What can be stored where the history is vs.
FitsIn(o, vs) ==
    \/ o = NULL
    \/ vs # << >> /\ \E i \in Numbers : o = Num(i)
    \/ vs # << >> /\ \E p \in Payload, j \in 1..Len(vs) : o = Raw(p, vs[j])

\* What the programs of n find for the name x, before it is brought up to date.
Held(d, n, x) == Moved(d, n, x)[Append(n, x)]

-----------------------------------------------------------------------------
(* Data in order *)

\* What is stored is a string.
Strings(d) == \A n \in NS, x \in Names : d[Append(n, x)] # NULL => type[x] = "string"

\* What is stored for the item i in the keyspace d.
KeysOf(d, i) == {l \in Key : d[l] # NULL /\ ItemOf(l) = i}
StoredIn(d, i) == {Converted(d[k], Garbled) : k \in KeysOf(d, i)}
\* Nothing but names, tags and schemas is different.
SameData(d, e) == \A i \in Item : StoredIn(e, i) = StoredIn(d, i)

\* Programs use strings only.
OnlyStrings == type \in [Names -> {"string", "none"}]

\* The state of the data, for strings.
StringInv == TableInv /\ DataInv(db) /\ Strings(db) /\ tmp_store = NoTags /\ OnlyStrings

\* Names are used for strings or not at all.
StringPrograms == Typings \subseteq [Names -> {"string", "none"}]

\* A namespace has at most one name before it.
Single == \A n \in NS : prev_ns[n] # NULL => prev_ns[prev_ns[n]] = NULL

-----------------------------------------------------------------------------
(* The hooks and the commands they are for *)

\* A request, after its hook, for the name x of n: the tag on what it writes is
\* the last version of n, and so is the schema.
GoodRequest(q, n, x) ==
    /\ q.keys = <<Append(n, x)>> /\ q.cmd \in {"get", "set", "setxx", "incr", "del"}
    /\ q.cmd \in {"set", "setxx"} => /\ q.args = <<q.args[1]>> /\ ArgFits(q.args[1], n)
                                     /\ q.tag = Latest(n)

-----------------------------------------------------------------------------
(* Steps of programs that use strings, and tag what they write: SETNX and  *)
(* GETSET do not.                                                          *)

Tagging == Commands \cap {"setnx", "getset"} = {}

\* What a program may ask for.
Asked(c, k, r) ==
    /\ k \in Key /\ Uses(c, k)
    /\ \E cmd \in Commands \cap CommandsOf(TypeOf(k)) :
         \E bs \in ArgsOf(c, cmd, k), at \in AtOf(c, cmd, k) : r = Request(cmd, <<k>>, bs, at)

\* The name x of n is one that a program may use for strings.
InUse(n, x) == n \in NS /\ x \in Names /\ type[x] = "string" /\ Registered(n) /\ next_ns[n] = NULL
\* The request r for it, and the keyspace and the keys signalled after its hook.
HookOf(r, n, x, e, u) ==
    /\ InUse(n, x)
    /\ r.keys = <<Append(n, x)>> /\ r.cmd \in StringCommands /\ Tagged(r).cmd = r.cmd
    /\ GoodRequest(Tagged(r), n, x)
    /\ Hooked(r) = Srv(e, NoTags, u, NULL)
    /\ e = HookDb(r.cmd, db, n, x) /\ u = HookTouched(r.cmd, db, {}, n, x)
    /\ Keeps(db, e, n, x) /\ Strings(e)

\* What a command does after its hook.
CallOf(r, n, x, e, u, f, v, z) ==
    /\ Executed(r) = Srv(f, NoTags, v, z)
    /\ Writes(e, u, f, v, n, x) /\ DataInv(f) /\ Strings(f)
    /\ ReadOnly(r.cmd, z) => f = e
    /\ r.cmd = "set" => Append(n, x) \in v

-----------------------------------------------------------------------------
(* MGET, MSET and DEL with two keys *)

\* What a program may ask for with two keys.
AskedPair(c, ks, r) ==
    /\ ks \in KeyPairs(c)
    /\ \E cmd \in Commands \cap {"mget", "mset", "mdel"} :
         \E bs \in IF cmd # "mset" THEN {<< >>} ELSE Written(c, ks[1]) \X Written(c, ks[2]) :
             r = Request(cmd, ks, bs, NULL)
\* It is about two names of n, with data in the schema of the last version.
PairOf(r, n, x, y) ==
    /\ InUse(n, x) /\ InUse(n, y) /\ x # y
    /\ r.keys = <<Append(n, x), Append(n, y)>> /\ r.cmd \in {"mget", "mset", "mdel"}
    /\ r = Request(r.cmd, r.keys, r.args, NULL)
    /\ r.cmd = "mset" => DOMAIN r.args = {1, 2} /\ ArgFits(r.args[1], n) /\ ArgFits(r.args[2], n)

-----------------------------------------------------------------------------
(* What a command comes to *)

\* What a command leaves: a keyspace in order, and the same data if it only read.
Outcome(s, cmd) ==
    \E f, v, z : /\ s = Srv(f, NoTags, v, z) /\ DataInv(f) /\ Strings(f)
                 /\ ReadOnly(cmd, z) => SameData(db, f)

-----------------------------------------------------------------------------
(* KEYS *)

\* What is stored under its present name in d is so in f.
StaysCleared(d, f) ==
    \A n \in NS, x \in Names : next_ns[n] = NULL /\ Cleared(d, n, x) => Cleared(f, n, x)

\* The keys of a set can be gone through one after the other.
Ordered(S) ==
    /\ Cardinality(S) \in Nat /\ InOrder(S) \in [1..Cardinality(S) -> S]
    /\ Len(InOrder(S)) = Cardinality(S)

\* The keyspace e may be what KEYS makes of d.
Tidied(d, e) == DataInv(e) /\ Strings(e) /\ SameData(d, e) /\ StaysCleared(d, e)

-----------------------------------------------------------------------------
(* Steps of KVolve keep the data in order *)

\* The keys of any pattern can be gone through one after the other.
AllOrdered == \A S \in SUBSET Key : Ordered(S)

-----------------------------------------------------------------------------
(* Reads *)

\* Names in the table keep their first name.
RootsKept == \A n \in NS : Registered(n) => Root(n)' = Root(n)

\* A command that only reads, or fails without having been turned down, loses and
\* changes no content while its hook renames and updates strings.
ReadStep ==
    reply' # NULL /\ reply'.ok
      /\ (\A n \in DOMAIN reply'.reqs : ReadOnly(reply'.reqs[n].cmd, reply'.res[n]))
    => \A i \in Item : Stored(i)' = Stored(i)
=============================================================================
