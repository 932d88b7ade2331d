------------------------- MODULE KvolveMultiProofs --------------------------
(***************************************************************************)
(* Strings and transactions: one lemma per command of a client with MULTI  *)
(* and WATCH, and the invariant they keep.                                 *)
(***************************************************************************)
EXTENDS KvolveMulti, KvolveDataProofs

-----------------------------------------------------------------------------
(* Changes that are noticed *)

\* Whoever watches the present name of an item whose content is another in f than
\* in d is told, if the keys of v are signalled.
Told(d, f, v) ==
    \A n \in NS, x \in Names : Registered(n) /\ next_ns[n] = NULL =>
        StoredIn(f, <<Root(n), x>>) = StoredIn(d, <<Root(n), x>>) \/ Append(n, x) \in v

\* Of a change under the names x of n and of the namespace before, only those who
\* watch the name x of n need to be told.
LEMMA ChangeTold ==
    ASSUME PlainNames, TableInv, Single, NEW d, NEW e, NEW v, NEW n \in NS, NEW x \in Names,
           next_ns[n] = NULL, AllFit(d), AllFit(e), Elsewhere(d, e, n, x), Append(n, x) \in v
    PROVE  Told(d, e, v)
<1> SUFFICES ASSUME NEW m \in NS, NEW y \in Names, next_ns[m] = NULL, m # n \/ y # x
             PROVE  StoredIn(e, <<Root(m), y>>) = StoredIn(d, <<Root(m), y>>)
  BY Zenon DEF Told
<1> PICK i : i = <<Root(m), y>>
  BY Zenon
<1>2. m # n => Root(m) # Root(n)
  BY Zenon, RootsDiffer
<1>3. prev_ns[n] \in NS => Root(prev_ns[n]) = Root(n)
  BY Zenon, RootStep, RegistryAssumption DEF TableInv
<1>4. ASSUME NEW l \in Key, ItemOf(l) = i, d[l] # NULL \/ e[l] # NULL PROVE e[l] = d[l]
  <2>1. PICK k \in NS, z \in Names : l = Append(k, z)
    BY DEF Key
  <2>2. Registered(k)
    BY Zenon, <1>4, <2>1 DEF AllFit, Fits
  <2>3. Root(k) = Root(m) /\ z = y
    BY <1>4, <2>1, <2>2, ItemFacts
  <2>4. z # x \/ (k # n /\ k # prev_ns[n])
    BY Zenon, <1>2, <1>3, <2>3
  <2> QED BY Zenon, <2>1, <2>4 DEF Elsewhere
<1>5. KeysOf(e, i) = KeysOf(d, i)
  BY Zenon, <1>4 DEF KeysOf
<1>6. \A l \in KeysOf(d, i) : e[l] = d[l]
  BY Zenon, <1>4 DEF KeysOf
<1> QED BY Zenon, <1>5, <1>6 DEF StoredIn

\* Nobody need be told where no content changes.
LEMMA SameTold ==
    ASSUME TableInv, Single, NEW d, NEW e, NEW v, SameData(d, e)
    PROVE  Told(d, e, v)
BY Zenon, Roots DEF Told, SameData, Item

\* One change after the other.
LEMMA ToldThen ==
    ASSUME NEW d, NEW e, NEW f, NEW u, NEW v, Told(d, e, u), Told(e, f, v), u \subseteq v
    PROVE  Told(d, f, v)
BY Zenon DEF Told

-----------------------------------------------------------------------------
(* Commands and their hooks *)

\* The keyspace f is in order, and of what is not as in d the keys of v tell.
Seen(d, f, v) == DataInv(f) /\ Strings(f) /\ Told(d, f, v) /\ StaysCleared(d, f)

\* Where nothing changes.
LEMMA SeenSame == ASSUME NEW d, NEW v, DataInv(d), Strings(d) PROVE Seen(d, d, v)
BY Zenon DEF Seen, Told, StaysCleared

\* One command after the other.
LEMMA SeenThen ==
    ASSUME NEW d, NEW e, NEW f, NEW u, NEW v, Seen(d, e, u), Seen(e, f, v), u \subseteq v
    PROVE  Seen(d, f, v)
BY Zenon, ToldThen DEF Seen, StaysCleared

\* A write of a command, to a name that its hook has brought up to date.
LEMMA WritesSeen ==
    ASSUME PlainNames, TableInv, Single, NEW d, NEW w, NEW e, NEW u, NEW n, NEW x, InUse(n, x),
           DataInv(d), Strings(d), Cleared(d, n, x), Writes(d, w, e, u, n, x)
    PROVE  Seen(d, e, u) /\ w \subseteq u /\ Elsewhere(d, e, n, x) /\ Cleared(e, n, x)
<1>1. CASE e = d /\ u = w
  BY Zenon, <1>1, SeenSame DEF Elsewhere
<1>2. ASSUME NEW o, Fits(o, n), e = At(d, Append(n, x), o), u = Plus(w, Append(n, x))
      PROVE  Seen(d, e, u) /\ w \subseteq u /\ Elsewhere(d, e, n, x) /\ Cleared(e, n, x)
  <2>1. n \in NS /\ x \in Names /\ next_ns[n] = NULL
    BY Zenon DEF InUse
  <2>2. DataInv(e) /\ OnlyAt(d, e, n, x)
    BY Zenon, <1>2, <2>1, WriteKeeps DEF Cleared
  <2>3. Elsewhere(d, e, n, x)
    BY Zenon, <2>2 DEF OnlyAt, Elsewhere
  <2>4. Cleared(e, n, x)
    <3>1. prev_ns[n] # NULL => prev_ns[n] \in NS /\ prev_ns[n] # n
      BY <2>1 DEF TableInv, RegistryTypeOK, DocHistory, LinksOf
    <3> QED BY Zenon, <2>1, <2>2, <3>1 DEF Cleared, OnlyAt
  <2>5. Append(n, x) \in u /\ w \subseteq u
    BY Zenon, <1>2 DEF Plus
  <2>6. Told(d, e, u)
    BY Zenon, <2>1, <2>2, <2>3, <2>5, ChangeTold DEF DataInv
  <2>7. StaysCleared(d, e)
    BY Zenon, <2>1, <2>3, <2>4, ClearedKept
  <2>8. Strings(e)
    BY Zenon, <2>3, StringsKept
  <2> QED BY Zenon, <2>2, <2>3, <2>4, <2>5, <2>6, <2>7, <2>8 DEF Seen
<1> QED BY Zenon, <1>1, <1>2 DEF Writes

\* A hook, but for those that drop what is to be written anew.
LEMMA HookSeen ==
    ASSUME PlainNames, StringInv, Single, NEW r, NEW n, NEW x, NEW e, NEW u, HookOf(r, n, x, e, u)
    PROVE  /\ DataInv(e) /\ Strings(e) /\ Elsewhere(db, e, n, x) /\ Cleared(e, n, x)
           /\ StaysCleared(db, e)
           /\ r.cmd \notin Setting => Seen(db, e, u)
<1> PICK d, cmd : d = db /\ cmd = r.cmd
  BY Zenon
<1>2. /\ InUse(n, x) /\ e = HookDb(cmd, d, n, x) /\ Keeps(d, e, n, x) /\ Strings(e)
      /\ TableInv /\ DataInv(d)
  BY Zenon DEF HookOf, StringInv
<1>3. DataInv(e) /\ Elsewhere(d, e, n, x) /\ Cleared(e, n, x)
  BY Zenon, <1>2 DEF Keeps
<1>4. n \in NS /\ x \in Names /\ next_ns[n] = NULL
  BY Zenon, <1>2 DEF InUse
<1>5. StaysCleared(d, e)
  BY Zenon, <1>2, <1>3, <1>4, ClearedKept
<1>6. cmd \notin Setting => SameData(d, e)
  BY Zenon, <1>2, <1>4, HookSame
<1>7. cmd \notin Setting => Told(d, e, u)
  BY Zenon, <1>2, <1>6, SameTold
<1> QED BY Zenon, <1>2, <1>3, <1>5, <1>7 DEF Seen

\* A command that is queued or turned down after its hook.
LEMMA HookedSeen ==
    ASSUME Counting, PlainNames, Tagging, StringInv, Single, NEW c \in Client, NEW k, NEW r, Asked(c, k, r),
           r.cmd \notin Setting
    PROVE  \E n \in NS, x \in Names : \E e, u :
             /\ k = Append(n, x) /\ InUse(n, x) /\ GoodRequest(Tagged(r), n, x) /\ Cleared(e, n, x)
             /\ Hooked(r) = Srv(e, NoTags, u, NULL) /\ Seen(db, e, u)
<1>1. PICK n \in NS, x \in Names : \E e, u : k = Append(n, x) /\ HookOf(r, n, x, e, u)
  BY Zenon, HookedFacts
<1>2. PICK e, u : k = Append(n, x) /\ HookOf(r, n, x, e, u)
  BY Zenon, <1>1
<1>3. Cleared(e, n, x) /\ Seen(db, e, u)
  BY Zenon, <1>2, HookSeen
<1>4. InUse(n, x) /\ GoodRequest(Tagged(r), n, x) /\ Hooked(r) = Srv(e, NoTags, u, NULL)
  BY Zenon, <1>2 DEF HookOf
<1> QED BY Zenon, <1>2, <1>3, <1>4

\* A command, with its hook.
LEMMA CommandSeen ==
    ASSUME Counting, PlainNames, Tagging, StringInv, Single, NEW c \in Client, NEW k, NEW r, Asked(c, k, r),
           Bounded(Hooked(r), r)
    PROVE  \E f, v, z : Executed(r) = Srv(f, NoTags, v, z) /\ Seen(db, f, v)
<1>0. PICK n \in NS, x \in Names : \E e, u : HookOf(r, n, x, e, u)
  BY Zenon, HookedFacts
<1>1. PICK e, u : HookOf(r, n, x, e, u)
  BY Zenon, <1>0
<1>2. PICK f, v, z : CallOf(r, n, x, e, u, f, v, z)
  BY Zenon, <1>1, ExecutedFacts DEF StringInv
<1>3. /\ InUse(n, x) /\ r.cmd \in StringCommands /\ Executed(r) = Srv(f, NoTags, v, z)
      /\ Writes(e, u, f, v, n, x) /\ (r.cmd = "set" => Append(n, x) \in v)
  BY Zenon, <1>1, <1>2 DEF HookOf, CallOf
<1>4. /\ DataInv(e) /\ Strings(e) /\ Elsewhere(db, e, n, x) /\ Cleared(e, n, x)
      /\ StaysCleared(db, e)
      /\ r.cmd \notin Setting => Seen(db, e, u)
  BY Zenon, <1>1, HookSeen
<1>5. Seen(e, f, v) /\ u \subseteq v /\ Elsewhere(e, f, n, x)
  BY Zenon, <1>3, <1>4, WritesSeen DEF StringInv
<1>6. CASE r.cmd \notin Setting
  <2>1. Seen(db, f, v)
    BY Zenon, <1>4, <1>5, <1>6, SeenThen
  <2> QED BY Zenon, <1>3, <2>1
<1>7. CASE r.cmd \in Setting
  <2>1. Append(n, x) \in v
    BY Zenon, <1>3, <1>7 DEF Setting, StringCommands
  <2> PICK d : d = db
    BY Zenon
  <2>3. Elsewhere(d, f, n, x)
    BY Zenon, <1>4, <1>5 DEF Elsewhere
  <2>4. AllFit(d) /\ AllFit(f) /\ next_ns[n] = NULL /\ TableInv
    BY Zenon, <1>3, <1>5 DEF StringInv, DataInv, Seen, InUse
  <2>5. Told(d, f, v)
    BY Zenon, <2>1, <2>3, <2>4, ChangeTold
  <2>6. Seen(db, f, v)
    BY Zenon, <1>4, <1>5, <2>5 DEF Seen, StaysCleared
  <2> QED BY Zenon, <1>3, <2>6
<1> QED BY Zenon, <1>6, <1>7

-----------------------------------------------------------------------------
(* EXEC *)

\* The servers before and after the commands of a transaction.
Run(W, s, rs, N) == W = [n \in 0..N |-> IF n = 0 THEN s ELSE call(W[n - 1], rs[n])]

\* EXEC has a result.
LEMMA RunExists ==
    ASSUME Counting, NEW s, NEW rs, NEW N \in Nat
    PROVE  \E W : Run(W, s, rs, N)
<1> DEFINE T == {i \in 0..N : \E W : Run(W, s, rs, i)}
<1>1. 0 \in T
  <2>1. Run([n \in 0..0 |-> s], s, rs, 0)
    BY DEF Run
  <2> QED BY <2>1
<1>2. ASSUME NEW i \in 1..N, i - 1 \in T PROVE i \in T
  <2>1. PICK W : Run(W, s, rs, i - 1)
    BY Zenon, <1>2
  <2> PICK y : y = call(W[i - 1], rs[i])
    BY Zenon
  <2> DEFINE V == [n \in 0..i |-> IF n = i THEN y ELSE W[n]]
  <2>3. i \in Nat /\ i # 0
    OBVIOUS
  <2>4. \A n \in 0..(i - 1) : W[n] = IF n = 0 THEN s ELSE call(W[n - 1], rs[n])
    BY Zenon, <2>1 DEF Run
  <2>5. ASSUME NEW n \in 0..i PROVE V[n] = IF n = 0 THEN s ELSE call(V[n - 1], rs[n])
    <3>1. CASE n = i
      <4>1. n - 1 \in 0..i /\ n - 1 # i
        BY <2>3, <3>1
      <4> QED BY Zenon, <2>3, <3>1, <4>1
    <3>2. CASE n # i /\ n # 0
      <4>1. n \in 0..(i - 1) /\ n - 1 \in 0..i /\ n - 1 # i
        BY <2>3, <3>2
      <4>2. V[n] = W[n] /\ V[n - 1] = W[n - 1]
        BY Zenon, <3>2, <4>1
      <4> HIDE DEF V
      <4> QED BY Zenon, <2>4, <3>2, <4>1, <4>2
    <3>3. CASE n # i /\ n = 0
      <4>1. n \in 0..(i - 1)
        BY <2>3, <3>3
      <4> QED BY Zenon, <2>4, <3>3, <4>1
    <3> QED BY Zenon, <3>1, <3>2, <3>3
  <2>6. V = [n \in 0..i |-> V[n]]
    BY Zenon
  <2> HIDE DEF V
  <2>7. Run(V, s, rs, i)
    BY Zenon, <2>5, <2>6 DEF Run
  <2> QED BY <2>7
<1> HIDE DEF T
<1>3. N \in T
  <2>1. 0..N \subseteq T
    BY Zenon, <1>1, <1>2, Rounds
  <2> QED BY <2>1
<1> QED BY Zenon, <1>3 DEF T

\* What calls computes.
LEMMA CallsRun ==
    ASSUME Counting, NEW s, NEW rs, NEW N \in Nat, Len(rs) = N
    PROVE  /\ calls(s, rs)[0] = s
           /\ \A n \in 1..N : calls(s, rs)[n] = call(calls(s, rs)[n - 1], rs[n])
<1> DEFINE E(f) == [n \in 0..Len(rs) |-> IF n = 0 THEN s ELSE call(f[n - 1], rs[n])]
           after == CHOOSE f : f = E(f)
<1>1. calls(s, rs) = after
  BY Zenon DEF calls
<1>2. \E W : W = E(W)
  <2>1. \E W : Run(W, s, rs, N)
    BY Zenon, RunExists
  <2> QED BY Zenon, <2>1 DEF Run
<1>3. after = E(after)
  <2> HIDE DEF E
  <2> QED BY Zenon, <1>2
<1> HIDE DEF after
<1>4. after = [n \in 0..N |-> IF n = 0 THEN s ELSE call(after[n - 1], rs[n])]
  BY Zenon, <1>3
<1>5. 0 \in 0..N /\ \A n \in 1..N : n \in 0..N /\ n # 0
  OBVIOUS
<1> HIDE DEF E
<1>6. ASSUME NEW f, f = [n \in 0..N |-> IF n = 0 THEN s ELSE call(after[n - 1], rs[n])]
      PROVE  f[0] = s /\ \A n \in 1..N : f[n] = call(after[n - 1], rs[n])
  BY Zenon, <1>5, <1>6
<1>7. after[0] = s /\ \A n \in 1..N : after[n] = call(after[n - 1], rs[n])
  BY Zenon, <1>4, <1>6
<1> QED BY Zenon, <1>1, <1>7

\* A request in a queue: its hook is done, for a name that is still in use.
Ready(q, d) ==
    \E n \in NS, x \in Names : InUse(n, x) /\ GoodRequest(q, n, x) /\ Cleared(d, n, x)

\* One command of a transaction.
LEMMA CallSeen ==
    ASSUME PlainNames, TableInv, Single, NEW d, NEW t, NEW w, NEW r, NEW q,
           DataInv(d), Strings(d), Ready(q, d), Bounded(Srv(d, t, w, r), q)
    PROVE  \E e, u, z : call(Srv(d, t, w, r), q) = Srv(e, t, u, z) /\ Seen(d, e, u) /\ w \subseteq u
<1>1. PICK n \in NS, x \in Names : InUse(n, x) /\ GoodRequest(q, n, x) /\ Cleared(d, n, x)
  BY Zenon DEF Ready
<1>2. OnKeys(d) /\ Fits(d[Append(n, x)], n) /\ Registered(n)
  BY Zenon, <1>1 DEF DataInv, AllFit, InUse
<1>3. \E e, u, z : call(Srv(d, t, w, r), q) = Srv(e, t, u, z) /\ Writes(d, w, e, u, n, x)
  BY <1>1, <1>2, CallOne
<1>4. PICK e, u, z : call(Srv(d, t, w, r), q) = Srv(e, t, u, z) /\ Writes(d, w, e, u, n, x)
  BY Zenon, <1>3
<1>5. Seen(d, e, u) /\ w \subseteq u
  BY Zenon, <1>1, <1>4, WritesSeen
<1> QED BY Zenon, <1>4, <1>5

\* A transaction.
LEMMA ExecSeen ==
    ASSUME Counting, PlainNames, StringInv, Single, NEW rs, NEW N \in Nat, Len(rs) = N,
           \A n \in 1..N : Ready(rs[n], db) /\ Bounded(calls(Settled, rs)[n - 1], rs[n])
    PROVE  \E f, v, z : calls(Settled, rs)[N] = Srv(f, NoTags, v, z) /\ Seen(db, f, v)
<1> PICK after, d, t : after = calls(Settled, rs) /\ d = db /\ t = NoTags
  BY Zenon
<1>2. TableInv /\ DataInv(d) /\ Strings(d)
  BY Zenon DEF StringInv
<1>3. after[0] = Srv(d, t, {}, NULL)
  BY Zenon, CallsRun, SettledIs
<1>4. \A n \in 1..N : after[n] = call(after[n - 1], rs[n])
  BY CallsRun
<1> DEFINE Good(s) == \E f, v, z : s = Srv(f, t, v, z) /\ Seen(d, f, v)
           T == {n \in 0..N : Good(after[n])}
<1>5. 0 \in T
  <2>1. Good(after[0])
    BY Zenon, <1>2, <1>3, SeenSame
  <2> HIDE DEF Good
  <2> QED BY <2>1
<1>6. ASSUME NEW n \in 1..N, n - 1 \in T PROVE n \in T
  <2>1. PICK e, u, y : after[n - 1] = Srv(e, t, u, y) /\ Seen(d, e, u)
    BY Zenon, <1>6
  <2> PICK q : q = rs[n]
    BY Zenon
  <2>3. Ready(q, d) /\ Bounded(Srv(e, t, u, y), q)
    BY Zenon, <2>1
  <2>4. DataInv(e) /\ Strings(e) /\ Ready(q, e)
    BY Zenon, <2>1, <2>3 DEF Seen, Ready, StaysCleared, InUse
  <2>5. \E f, v, z : call(Srv(e, t, u, y), q) = Srv(f, t, v, z) /\ Seen(e, f, v) /\ u \subseteq v
    BY <1>2, <2>3, <2>4, CallSeen
  <2>6. PICK f, v, z : call(Srv(e, t, u, y), q) = Srv(f, t, v, z) /\ Seen(e, f, v) /\ u \subseteq v
    BY Zenon, <2>5
  <2>7. Seen(d, f, v)
    BY Zenon, <2>1, <2>6, SeenThen
  <2>8. Good(after[n])
    BY Zenon, <1>4, <2>1, <2>6, <2>7
  <2> HIDE DEF Good
  <2> QED BY <2>8
<1> HIDE DEF T, Good
<1>7. N \in T
  <2>1. 0..N \subseteq T
    BY Zenon, <1>5, <1>6, Rounds
  <2> QED BY <2>1
<1> QED BY Zenon, <1>7 DEF T, Good

-----------------------------------------------------------------------------
(* Clients with transactions *)

\* The request q of the client c is queued after its hook, for a namespace that
\* the client has declared.
Pending(c, q) ==
    \E n \in NS, x \in Names :
        /\ conn[c] = "open" /\ declared[c][n] # NULL
        /\ InUse(n, x) /\ GoodRequest(q, n, x) /\ Cleared(db, n, x)

\* The queue of c.
QueueInv(c) ==
    /\ ~InMulti(c) => mstate[c] = << >>
    /\ mstate[c] \in Seq({mstate[c][i] : i \in DOMAIN mstate[c]})
    /\ \A i \in DOMAIN mstate[c] : Pending(c, mstate[c][i])

\* The keys c watches, and whether it is told of changes.
WatchInv(c) ==
    \A k \in DOMAIN watched_keys[c] : \E n \in NS, x \in Names :
        k = Append(n, x) /\ conn[c] = "open" /\ declared[c][n] # NULL
Guarded(c) ==
    "DIRTY_CAS" \notin flags[c] => \A k \in DOMAIN watched_keys[c] : watched_keys[c][k] = ContentOf(k)

\* The inductive invariant of transactions.
MultiInv ==
    /\ StringInv /\ Single
    /\ DOMAIN flags = Client /\ DOMAIN mstate = Client /\ DOMAIN watched_keys = Client
    /\ \A c \in Client : QueueInv(c) /\ WatchInv(c) /\ Guarded(c)

\* A step of the data, to the keyspace f with the keys of v signalled.
StepTo(f, v) ==
    /\ db' = f /\ tmp_store' = NoTags /\ type' = type /\ UNCHANGED registryVars
    /\ Seen(db, f, v)

\* A queued request stays as it is.
LEMMA PendingKept ==
    ASSUME NEW f, NEW v, StepTo(f, v), NEW c \in Client, NEW q, Pending(c, q)
    PROVE  Pending(c, q)'
<1>1. PICK n \in NS, x \in Names :
        /\ conn[c] = "open" /\ declared[c][n] # NULL
        /\ InUse(n, x) /\ GoodRequest(q, n, x) /\ Cleared(db, n, x)
  BY Zenon DEF Pending
<1>2. /\ versions' = versions /\ prev_ns' = prev_ns /\ next_ns' = next_ns
      /\ conn' = conn /\ declared' = declared /\ type' = type /\ db' = f
  BY Zenon DEF StepTo, registryVars, tableVars
<1>3. Cleared(f, n, x)
  BY Zenon, <1>1 DEF StepTo, Seen, StaysCleared, InUse
<1>4. Cleared(db, n, x)'
  BY Zenon, <1>2, <1>3 DEF Cleared
<1>5. InUse(n, x)'
  BY Zenon, <1>1, <1>2 DEF InUse, Registered
<1>6. GoodRequest(q, n, x)'
  <2>1. Latest(n)' = Latest(n)
    BY Zenon, <1>2 DEF Latest
  <2> QED BY Zenon, <1>1, <2>1 DEF GoodRequest, ArgFits
<1> QED BY Zenon, <1>1, <1>2, <1>4, <1>5, <1>6 DEF Pending

\* So does a queue.
LEMMA QueueKept ==
    ASSUME NEW f, NEW v, StepTo(f, v), NEW c \in Client, QueueInv(c),
           mstate'[c] = mstate[c], InMulti(c) => InMulti(c)'
    PROVE  QueueInv(c)'
<1>1. \A i \in DOMAIN mstate[c] : Pending(c, mstate[c][i])'
  <2> SUFFICES ASSUME NEW i \in DOMAIN mstate[c] PROVE Pending(c, mstate[c][i])'
    BY Zenon
  <2> PICK q : q = mstate[c][i]
    BY Zenon
  <2>2. Pending(c, q)'
    BY Zenon, PendingKept DEF QueueInv
  <2>3. q = mstate'[c][i]
    BY Zenon
  <2> QED BY Zenon, <2>2, <2>3 DEF Pending
<1> QED BY Zenon, <1>1 DEF QueueInv, Pending

\* What is stored for a key of a namespace in use, before and after.
LEMMA ContentFacts ==
    ASSUME PlainNames, TableInv, Single, NEW f, db' = f, UNCHANGED registryVars,
           NEW n \in NS, NEW x \in Names, Registered(n)
    PROVE  /\ ContentOf(Append(n, x)) = StoredIn(db, <<Root(n), x>>)
           /\ ContentOf(Append(n, x))' = StoredIn(f, <<Root(n), x>>)
<1> PICK k, i : k = Append(n, x) /\ i = <<Root(n), x>>
  BY Zenon
<1>2. ItemOf(k) = i /\ i \in Item
  BY Zenon, ItemFacts, Roots DEF Item
<1>3. ContentOf(k) = StoredIn(db, i)
  BY Zenon, <1>2, StoredFacts DEF ContentOf
<1>4. Stored(i)' = StoredIn(f, i) /\ ItemOf(k)' = ItemOf(k)
  BY Zenon, <1>2, StoredNext, ItemNext
<1>5. ContentOf(k)' = StoredIn(f, i)
  BY Zenon, <1>2, <1>4 DEF ContentOf
<1> QED BY Zenon, <1>3, <1>5

\* A client that keeps what it watches is told of changes.
LEMMA WatchKept ==
    ASSUME PlainNames, StringInv, Single, NEW f, NEW v, StepTo(f, v),
           NEW c \in Client, WatchInv(c), Guarded(c), watched_keys'[c] = watched_keys[c],
           "DIRTY_CAS" \notin flags'[c] =>
             "DIRTY_CAS" \notin flags[c] /\ DOMAIN watched_keys[c] \cap v = {}
    PROVE  WatchInv(c)' /\ Guarded(c)'
<1>1. conn' = conn /\ declared' = declared /\ db' = f
  BY Zenon DEF StepTo, registryVars
<1>2. WatchInv(c)'
  BY Zenon, <1>1 DEF WatchInv
<1>3. ASSUME "DIRTY_CAS" \notin flags'[c], NEW k \in DOMAIN watched_keys[c]
      PROVE  watched_keys[c][k] = ContentOf(k)'
  <2>1. PICK n \in NS, x \in Names : k = Append(n, x) /\ conn[c] = "open" /\ declared[c][n] # NULL
    BY Zenon DEF WatchInv
  <2>2. Registered(n) /\ next_ns[n] = NULL /\ TableInv
    BY Zenon, <2>1 DEF StringInv, TableInv, NoStaleClient, Stale, TableConsistent
  <2>3. k \notin v /\ watched_keys[c][k] = ContentOf(k)
    BY Zenon, <1>3 DEF Guarded
  <2>4. StoredIn(f, <<Root(n), x>>) = StoredIn(db, <<Root(n), x>>)
    BY Zenon, <2>1, <2>2, <2>3 DEF StepTo, Seen, Told
  <2>5. /\ ContentOf(Append(n, x)) = StoredIn(db, <<Root(n), x>>)
        /\ ContentOf(Append(n, x))' = StoredIn(f, <<Root(n), x>>)
    BY Zenon, <1>1, <2>2, ContentFacts DEF StepTo
  <2> QED BY Zenon, <2>1, <2>3, <2>4, <2>5
<1>4. Guarded(c)'
  BY Zenon, <1>3 DEF Guarded
<1> QED BY Zenon, <1>2, <1>4

\* A client without transaction.
LEMMA ClientReset ==
    ASSUME NEW c \in Client, mstate'[c] = << >>, DOMAIN watched_keys'[c] = {}
    PROVE  QueueInv(c)' /\ WatchInv(c)' /\ Guarded(c)'
BY DEF QueueInv, WatchInv, Guarded

-----------------------------------------------------------------------------
(* Steps of transactions *)

\* SET drops the copy under the old name in its hook, before it is known that it
\* will be executed: here it is not queued and not turned down.
NoneLost == Careful /\ Rejectable \cap Setting = {}

\* Server states.
LEMMA BecomesStep ==
    ASSUME NEW s, NEW f, NEW v, NEW z, s = Srv(f, NoTags, v, z), Becomes(s), Seen(db, f, v),
           UNCHANGED registryVars
    PROVE  StepTo(f, v)
BY ServerFacts DEF Becomes, StepTo

\* Commands that no hook is for change no data.
LEMMA SettlesStep ==
    ASSUME StringInv, Becomes(Settled), UNCHANGED registryVars
    PROVE  StepTo(db, {})
<1>1. Seen(db, db, {})
  BY Zenon, SeenSame DEF StringInv
<1> QED BY Zenon, <1>1, SettledIs, BecomesStep

\* Who is told.
LEMMA DirtiedFacts ==
    ASSUME NEW s, NEW f, NEW v, NEW z, s = Srv(f, NoTags, v, z), NEW g, g = Dirtied(s)
    PROVE  /\ DOMAIN g = Client
           /\ \A d \in Client :
                /\ "MULTI" \in flags[d] => "MULTI" \in g[d]
                /\ "DIRTY_CAS" \notin g[d] =>
                     "DIRTY_CAS" \notin flags[d] /\ DOMAIN watched_keys[d] \cap v = {}
<1>1. s.touched = v
  BY ServerFacts
<1> QED BY Zenon, <1>1 DEF Dirtied

\* A client is in order after a step.
ClientInv(c) == QueueInv(c) /\ WatchInv(c) /\ Guarded(c)

\* After a step of the data the invariant holds if it holds for the clients.
LEMMA MultiFrame ==
    ASSUME MultiInv, NEW f, NEW v, StepTo(f, v), TableInv',
           DOMAIN flags' = Client, DOMAIN mstate' = Client, DOMAIN watched_keys' = Client,
           \A d \in Client : ClientInv(d)'
    PROVE  MultiInv'
<1>1. Seen(db, f, v) /\ db' = f /\ tmp_store' = NoTags /\ type' = type /\ UNCHANGED registryVars
  BY Zenon DEF StepTo
<1>2. DataInv(db)' /\ Strings(db)'
  BY Zenon, <1>1, DataFrame DEF Seen
<1>3. StringInv'
  BY Zenon, <1>1, <1>2 DEF MultiInv, StringInv, OnlyStrings, NoTags
<1>4. Single'
  BY Zenon, <1>1 DEF MultiInv, Single, registryVars, tableVars
<1> QED BY Zenon, <1>3, <1>4 DEF MultiInv, ClientInv

\* A client that keeps its queue and its watches.
LEMMA ClientKept ==
    ASSUME PlainNames, MultiInv, NEW f, NEW v, StepTo(f, v), NEW c \in Client,
           mstate'[c] = mstate[c], watched_keys'[c] = watched_keys[c],
           "MULTI" \in flags[c] => "MULTI" \in flags'[c],
           "DIRTY_CAS" \notin flags'[c] =>
             "DIRTY_CAS" \notin flags[c] /\ DOMAIN watched_keys[c] \cap v = {}
    PROVE  ClientInv(c)'
<1>1. QueueInv(c) /\ WatchInv(c) /\ Guarded(c) /\ StringInv /\ Single
  BY Zenon DEF MultiInv
<1>2. QueueInv(c)'
  BY Zenon, <1>1, QueueKept DEF InMulti
<1>3. WatchInv(c)' /\ Guarded(c)'
  BY Zenon, <1>1, WatchKept
<1> QED BY Zenon, <1>2, <1>3 DEF ClientInv

\* A step that leaves all queues and watches as they are.
LEMMA AllKept ==
    ASSUME PlainNames, MultiInv, NEW f, NEW v, StepTo(f, v), TableInv',
           UNCHANGED <<mstate, watched_keys>>, DOMAIN flags' = Client,
           \A d \in Client :
             /\ "MULTI" \in flags[d] => "MULTI" \in flags'[d]
             /\ "DIRTY_CAS" \notin flags'[d] =>
                  "DIRTY_CAS" \notin flags[d] /\ DOMAIN watched_keys[d] \cap v = {}
    PROVE  MultiInv'
<1>1. \A d \in Client : ClientInv(d)'
  BY Zenon, ClientKept
<1> QED BY Zenon, <1>1, MultiFrame DEF MultiInv

\* A command outside MULTI.
LEMMA CommandStep ==
    ASSUME Counting, PlainNames, Tagging, MultiInv, NEW c \in Client, NEW k, NEW r, Asked(c, k, r),
           Command(c, r), UNCHANGED registryVars, TableInv'
    PROVE  MultiInv'
<1>1. /\ Bounded(Hooked(r), r) /\ Becomes(Executed(r)) /\ flags' = Dirtied(Executed(r))
      /\ UNCHANGED <<mstate, watched_keys>>
  BY Zenon DEF Command, processCommand, touchWatchedKey
<1>2. \E f, v, z : Executed(r) = Srv(f, NoTags, v, z) /\ Seen(db, f, v)
  BY Zenon, <1>1, CommandSeen DEF MultiInv
<1>3. PICK f, v, z : Executed(r) = Srv(f, NoTags, v, z) /\ Seen(db, f, v)
  BY Zenon, <1>2
<1>4. StepTo(f, v)
  BY Zenon, <1>1, <1>3, BecomesStep
<1>5. /\ DOMAIN flags' = Client
      /\ \A d \in Client :
           /\ "MULTI" \in flags[d] => "MULTI" \in flags'[d]
           /\ "DIRTY_CAS" \notin flags'[d] =>
                "DIRTY_CAS" \notin flags[d] /\ DOMAIN watched_keys[d] \cap v = {}
  BY Zenon, <1>1, <1>3, DirtiedFacts
<1> QED BY Zenon, <1>1, <1>4, <1>5, AllKept

\* A command that is turned down.
LEMMA FlagStep ==
    ASSUME Counting, PlainNames, Tagging, NoneLost, MultiInv, NEW c \in Client, NEW k, NEW r, Asked(c, k, r),
           flagTransaction(c, r), UNCHANGED registryVars, TableInv'
    PROVE  MultiInv'
<1>1. PICK g, m : /\ g = Dirtied(Hooked(r)) /\ m = (IF InMulti(c) THEN {"DIRTY_EXEC"} ELSE {})
                  /\ Becomes(Hooked(r)) /\ flags' = [g EXCEPT ![c] = @ \cup m]
                  /\ r.cmd \notin Setting /\ UNCHANGED <<mstate, watched_keys>>
  BY Zenon DEF flagTransaction, NoneLost
<1>2. \E e, u : Hooked(r) = Srv(e, NoTags, u, NULL) /\ Seen(db, e, u)
  BY Zenon, <1>1, HookedSeen DEF MultiInv
<1>3. PICK e, u : Hooked(r) = Srv(e, NoTags, u, NULL) /\ Seen(db, e, u)
  BY Zenon, <1>2
<1>4. StepTo(e, u)
  BY Zenon, <1>1, <1>3, BecomesStep
<1>5. /\ DOMAIN g = Client
      /\ \A d \in Client :
           /\ "MULTI" \in flags[d] => "MULTI" \in g[d]
           /\ "DIRTY_CAS" \notin g[d] =>
                "DIRTY_CAS" \notin flags[d] /\ DOMAIN watched_keys[d] \cap u = {}
  BY Zenon, <1>1, <1>3, DirtiedFacts
<1>6. DOMAIN flags' = Client /\ \A d \in Client : g[d] \subseteq flags'[d]
  BY Zenon, <1>1, <1>5
<1>7. \A d \in Client :
           /\ "MULTI" \in flags[d] => "MULTI" \in flags'[d]
           /\ "DIRTY_CAS" \notin flags'[d] =>
                "DIRTY_CAS" \notin flags[d] /\ DOMAIN watched_keys[d] \cap u = {}
  BY Zenon, <1>5, <1>6
<1> QED BY Zenon, <1>1, <1>4, <1>6, <1>7, AllKept

\* One more element.
LEMMA Longer ==
    ASSUME NEW S, NEW s \in Seq(S), NEW q, NEW t, t = Append(s, q)
    PROVE  /\ t \in Seq({t[i] : i \in DOMAIN t})
           /\ \A i \in DOMAIN t : (i \in DOMAIN s /\ t[i] = s[i]) \/ t[i] = q
<1>1. PICK N \in Nat : N = Len(s) /\ DOMAIN s = 1..N
  OBVIOUS
<1>2. t \in Seq(S \cup {q}) /\ Len(t) = N + 1 /\ DOMAIN t = 1..(N + 1)
  BY <1>1
<1>3. \A i \in 1..(N + 1) : (i \in 1..N /\ t[i] = s[i]) \/ t[i] = q
  BY <1>1
<1>4. ASSUME NEW R, R = {t[i] : i \in DOMAIN t} PROVE t \in Seq(R)
  BY <1>2, <1>4
<1> QED BY Zenon, <1>1, <1>2, <1>3, <1>4

\* A command that is queued.
LEMMA QueueStep ==
    ASSUME Counting, PlainNames, Tagging, NoneLost, MultiInv, NEW c \in Client, NEW k, NEW r, Asked(c, k, r),
           queueMultiCommand(c, r), UNCHANGED registryVars, TableInv'
    PROVE  MultiInv'
<1>1. PICK q : /\ q = Tagged(r) /\ mstate' = [mstate EXCEPT ![c] = Append(@, q)]
               /\ Becomes(Hooked(r)) /\ flags' = Dirtied(Hooked(r))
               /\ InMulti(c) /\ r.cmd \notin Setting /\ watched_keys' = watched_keys
  BY Zenon DEF queueMultiCommand, NoneLost, Works, Setting, touchWatchedKey
<1>2. PICK n \in NS, x \in Names : \E e, u :
        /\ k = Append(n, x) /\ InUse(n, x) /\ GoodRequest(q, n, x) /\ Cleared(e, n, x)
        /\ Hooked(r) = Srv(e, NoTags, u, NULL) /\ Seen(db, e, u)
  BY Zenon, <1>1, HookedSeen DEF MultiInv
<1>3. PICK e, u :
        /\ k = Append(n, x) /\ InUse(n, x) /\ GoodRequest(q, n, x) /\ Cleared(e, n, x)
        /\ Hooked(r) = Srv(e, NoTags, u, NULL) /\ Seen(db, e, u)
  BY Zenon, <1>2
<1>4. StepTo(e, u)
  BY Zenon, <1>1, <1>3, BecomesStep
<1>5. /\ DOMAIN flags' = Client
      /\ \A d \in Client :
           /\ "MULTI" \in flags[d] => "MULTI" \in flags'[d]
           /\ "DIRTY_CAS" \notin flags'[d] =>
                "DIRTY_CAS" \notin flags[d] /\ DOMAIN watched_keys[d] \cap u = {}
  BY Zenon, <1>1, <1>3, DirtiedFacts
<1>6. DOMAIN mstate = Client /\ DOMAIN watched_keys' = Client
  BY Zenon, <1>1 DEF MultiInv
<1>7. ASSUME NEW d \in Client, d # c PROVE ClientInv(d)'
  <2>1. mstate'[d] = mstate[d]
    BY Zenon, <1>1, <1>6, <1>7
  <2> QED BY Zenon, <1>1, <1>4, <1>5, <2>1, ClientKept
<1>8. conn[c] = "open" /\ declared[c][n] # NULL
  <2>1. k \in Key /\ Uses(c, k) /\ TableInv
    BY Zenon DEF Asked, MultiInv, StringInv
  <2>2. kvolve_version_hash_lookup(k) = n
    BY Zenon, <1>3, LookupFacts DEF InUse
  <2> QED BY Zenon, <2>1, <2>2 DEF Uses
<1>9. Pending(c, q)'
  <2>1. /\ versions' = versions /\ prev_ns' = prev_ns /\ next_ns' = next_ns
        /\ conn' = conn /\ declared' = declared /\ type' = type /\ db' = e
    BY Zenon, <1>4 DEF StepTo, registryVars, tableVars
  <2>2. InUse(n, x)'
    BY Zenon, <1>3, <2>1 DEF InUse, Registered
  <2>3. Latest(n)' = Latest(n) /\ Cleared(db, n, x)'
    BY Zenon, <1>3, <2>1 DEF Latest, Cleared
  <2>4. GoodRequest(q, n, x)'
    BY Zenon, <1>3, <2>3 DEF GoodRequest, ArgFits
  <2> QED BY Zenon, <1>8, <2>1, <2>2, <2>3, <2>4 DEF Pending
<1>10. QueueInv(c)'
  <2>1. PICK s, t : s = mstate[c] /\ t = mstate'[c] /\ t = Append(s, q)
    BY Zenon, <1>1, <1>6
  <2>2. s \in Seq({s[i] : i \in DOMAIN s}) /\ \A i \in DOMAIN s : Pending(c, s[i])
    <3>1. QueueInv(c)
      BY Zenon DEF MultiInv
    <3> QED BY Zenon, <2>1, <3>1 DEF QueueInv
  <2>3. /\ t \in Seq({t[i] : i \in DOMAIN t})
        /\ \A i \in DOMAIN t : (i \in DOMAIN s /\ t[i] = s[i]) \/ t[i] = q
    <3>1. PICK S : s \in Seq(S)
      BY Zenon, <2>2
    <3>2. t = Append(s, q)
      BY Zenon, <2>1
    <3> HIDE <2>1, <2>2
    <3> QED BY <3>1, <3>2, Longer
  <2>4. ASSUME NEW i \in DOMAIN t PROVE Pending(c, t[i])'
    <3>1. PICK y : y = t[i]
      BY Zenon
    <3>2. Pending(c, y)'
      BY Zenon, <1>4, <1>9, <2>2, <2>3, <3>1, PendingKept
    <3> QED BY Zenon, <3>1, <3>2
  <2>5. InMulti(c)'
    BY Zenon, <1>1, <1>5 DEF InMulti
  <2> QED BY Zenon, <2>1, <2>3, <2>4, <2>5 DEF QueueInv
<1>11. ClientInv(c)'
  <2>1. StringInv /\ Single /\ WatchInv(c) /\ Guarded(c)
    BY Zenon DEF MultiInv
  <2>2. WatchInv(c)' /\ Guarded(c)'
    BY Zenon, <1>1, <1>4, <1>5, <2>1, WatchKept
  <2> QED BY Zenon, <1>10, <2>2 DEF ClientInv
<1>12. DOMAIN mstate' = Client
  BY Zenon, <1>1, <1>6
<1> QED BY Zenon, <1>4, <1>5, <1>6, <1>7, <1>11, <1>12, MultiFrame

\* The end of a transaction.
LEMMA EndStep ==
    ASSUME PlainNames, MultiInv, NEW c \in Client, NEW f, NEW v, StepTo(f, v), TableInv', NEW g,
           discardTransaction(c, g), DOMAIN g = Client,
           \A d \in Client :
             /\ "MULTI" \in flags[d] => "MULTI" \in g[d]
             /\ "DIRTY_CAS" \notin g[d] =>
                  "DIRTY_CAS" \notin flags[d] /\ DOMAIN watched_keys[d] \cap v = {}
    PROVE  MultiInv'
<1>1. /\ flags' = [g EXCEPT ![c] = {}]
      /\ mstate' = [mstate EXCEPT ![c] = << >>]
      /\ watched_keys' = [watched_keys EXCEPT ![c] = << >>]
      /\ DOMAIN mstate = Client /\ DOMAIN watched_keys = Client
  BY Zenon DEF discardTransaction, MultiInv
<1>2. ASSUME NEW d \in Client, d # c PROVE ClientInv(d)'
  <2>1. mstate'[d] = mstate[d] /\ watched_keys'[d] = watched_keys[d] /\ flags'[d] = g[d]
    BY Zenon, <1>1, <1>2
  <2> QED BY Zenon, <2>1, ClientKept
<1>3. mstate'[c] = << >> /\ DOMAIN watched_keys'[c] = {}
  BY <1>1
<1>4. ClientInv(c)'
  BY Zenon, <1>3, ClientReset DEF ClientInv
<1>5. DOMAIN flags' = Client /\ DOMAIN mstate' = Client /\ DOMAIN watched_keys' = Client
  BY Zenon, <1>1
<1> QED BY Zenon, <1>2, <1>4, <1>5, MultiFrame

\* EXEC.
LEMMA ExecStep ==
    ASSUME Counting, PlainNames, MultiInv, NEW c \in Client, execCommand(c), UNCHANGED registryVars, TableInv'
    PROVE  MultiInv'
<1>1. PICK rs, after : rs = mstate[c] /\ after = calls(Settled, rs)
  BY Zenon
<1>2. CASE /\ \A n \in DOMAIN rs : Bounded(after[n - 1], rs[n])
           /\ Becomes(after[Len(rs)])
           /\ discardTransaction(c, Dirtied(after[Len(rs)]))
  <2>0. QueueInv(c)
    BY Zenon DEF MultiInv
  <2>1. PICK N \in Nat : N = Len(rs) /\ DOMAIN rs = 1..N
    <3>1. rs \in Seq({rs[i] : i \in DOMAIN rs})
      BY Zenon, <1>1, <2>0 DEF QueueInv
    <3>2. PICK S : rs \in Seq(S)
      BY Zenon, <3>1
    <3> QED BY <3>2
  <2>2. \A n \in 1..N : Ready(rs[n], db) /\ Bounded(calls(Settled, rs)[n - 1], rs[n])
    BY Zenon, <1>1, <1>2, <2>0, <2>1 DEF QueueInv, Pending, Ready
  <2>3. \E f, v, z : after[N] = Srv(f, NoTags, v, z) /\ Seen(db, f, v)
    BY <1>1, <2>1, <2>2, ExecSeen DEF MultiInv
  <2>4. PICK f, v, z : after[N] = Srv(f, NoTags, v, z) /\ Seen(db, f, v)
    BY Zenon, <2>3
  <2>5. PICK s, g : s = after[N] /\ g = Dirtied(s)
    BY Zenon
  <2>6. StepTo(f, v)
    BY Zenon, <1>2, <2>1, <2>4, <2>5, BecomesStep
  <2>7. /\ DOMAIN g = Client
        /\ \A d \in Client :
             /\ "MULTI" \in flags[d] => "MULTI" \in g[d]
             /\ "DIRTY_CAS" \notin g[d] =>
                  "DIRTY_CAS" \notin flags[d] /\ DOMAIN watched_keys[d] \cap v = {}
    BY <2>4, <2>5, DirtiedFacts
  <2>8. discardTransaction(c, g)
    BY Zenon, <1>2, <2>1, <2>5
  <2> QED BY Zenon, <2>6, <2>7, <2>8, EndStep
<1>3. CASE Becomes(Settled) /\ discardTransaction(c, flags)
  <2>1. StepTo(db, {}) /\ DOMAIN flags = Client
    BY Zenon, <1>3, SettlesStep DEF MultiInv
  <2> QED BY <1>3, <2>1, EndStep
<1> QED BY Zenon, <1>1, <1>2, <1>3 DEF execCommand

\* MULTI.
LEMMA MultiStep ==
    ASSUME PlainNames, MultiInv, NEW c \in Client, multiCommand(c), UNCHANGED registryVars, TableInv'
    PROVE  MultiInv'
<1>1. Becomes(Settled) /\ UNCHANGED <<mstate, watched_keys>> /\ DOMAIN flags = Client
  BY Zenon DEF multiCommand, Settles, MultiInv
<1>2. flags' = [flags EXCEPT ![c] = @ \cup {"MULTI"}]
  BY Zenon DEF multiCommand
<1>3. StepTo(db, {})
  BY Zenon, <1>1, SettlesStep DEF MultiInv
<1>4. DOMAIN flags' = Client /\ \A d \in Client : flags[d] \subseteq flags'[d]
  BY Zenon, <1>1, <1>2
<1> QED BY <1>1, <1>3, <1>4, AllKept

\* DISCARD.
LEMMA DiscardStep ==
    ASSUME PlainNames, MultiInv, NEW c \in Client, discardCommand(c), UNCHANGED registryVars, TableInv'
    PROVE  MultiInv'
<1>1. StepTo(db, {}) /\ DOMAIN flags = Client
  BY Zenon, SettlesStep DEF MultiInv, discardCommand, Settles
<1> QED BY <1>1, EndStep DEF discardCommand

\* UNWATCH.
LEMMA UnwatchStep ==
    ASSUME PlainNames, MultiInv, NEW c \in Client, unwatchCommand(c), UNCHANGED registryVars, TableInv'
    PROVE  MultiInv'
<1>1. StepTo(db, {}) /\ DOMAIN flags = Client /\ DOMAIN mstate = Client /\ DOMAIN watched_keys = Client
  BY Zenon, SettlesStep DEF MultiInv, unwatchCommand, Settles
<1>2. /\ watched_keys' = [watched_keys EXCEPT ![c] = << >>]
      /\ flags' = [flags EXCEPT ![c] = @ \ {"DIRTY_CAS"}]
      /\ mstate' = mstate /\ ~InMulti(c)
  BY Zenon DEF unwatchCommand
<1>3. ASSUME NEW d \in Client, d # c PROVE ClientInv(d)'
  <2>1. mstate'[d] = mstate[d] /\ watched_keys'[d] = watched_keys[d] /\ flags'[d] = flags[d]
    BY Zenon, <1>1, <1>2, <1>3
  <2> QED BY <1>1, <2>1, ClientKept
<1>4. mstate'[c] = << >> /\ DOMAIN watched_keys'[c] = {}
  <2>1. QueueInv(c)
    BY Zenon DEF MultiInv
  <2>2. mstate[c] = << >>
    BY Zenon, <1>2, <2>1 DEF QueueInv
  <2> QED BY <1>1, <1>2, <2>2
<1>5. ClientInv(c)'
  BY Zenon, <1>4, ClientReset DEF ClientInv
<1>6. DOMAIN flags' = Client /\ DOMAIN mstate' = Client /\ DOMAIN watched_keys' = Client
  BY Zenon, <1>1, <1>2
<1> QED BY Zenon, <1>1, <1>3, <1>5, <1>6, MultiFrame

\* WATCH: what is stored is noted under all the names it may have.
LEMMA WatchStep ==
    ASSUME PlainNames, MultiInv, NEW c \in Client, NEW k \in Key, Uses(c, k), watchCommand(c, k),
           UNCHANGED registryVars, TableInv'
    PROVE  MultiInv'
<1>1. StepTo(db, {}) /\ DOMAIN flags = Client /\ DOMAIN mstate = Client /\ DOMAIN watched_keys = Client
  BY Zenon, SettlesStep DEF MultiInv, watchCommand, Settles
<1>2. PICK w, o : /\ w = watched_keys[c] /\ o = ContentOf(k)
                  /\ watched_keys' = [watched_keys EXCEPT ![c] =
                        [l \in DOMAIN w \cup {k} |-> IF l = k THEN o ELSE w[l]]]
                  /\ flags' = flags /\ mstate' = mstate
  <2>1. PICK w, o : w = watched_keys[c] /\ o = ContentOf(k)
    BY Zenon
  <2>2. /\ watched_keys' = [watched_keys EXCEPT ![c] = [l \in DOMAIN watched_keys[c] \cup {k} |->
                              IF l = k THEN ContentOf(k) ELSE watched_keys[c][l]]]
        /\ flags' = flags /\ mstate' = mstate
    BY Zenon DEF watchCommand
  <2> QED BY Zenon, <2>1, <2>2
<1>3. ASSUME NEW d \in Client, d # c PROVE ClientInv(d)'
  <2>1. mstate'[d] = mstate[d] /\ watched_keys'[d] = watched_keys[d] /\ flags'[d] = flags[d]
    BY Zenon, <1>1, <1>2, <1>3
  <2> QED BY <1>1, <2>1, ClientKept
<1>4. QueueInv(c)'
  <2>1. mstate'[c] = mstate[c] /\ QueueInv(c)
    BY Zenon, <1>2 DEF MultiInv
  <2> QED BY Zenon, <1>1, <1>2, <2>1, QueueKept DEF InMulti
<1>5. /\ DOMAIN watched_keys'[c] = DOMAIN w \cup {k}
      /\ \A l \in DOMAIN w \cup {k} : watched_keys'[c][l] = IF l = k THEN o ELSE w[l]
  BY Zenon, <1>1, <1>2
<1>6. ASSUME NEW l \in DOMAIN w \cup {k}
      PROVE  \E n \in NS, x \in Names :
               l = Append(n, x) /\ conn[c] = "open" /\ declared[c][n] # NULL /\ Registered(n)
  <2>1. CASE l = k
    <3>1. PICK n \in NS, x \in Names :
            k = Append(n, x) /\ kvolve_version_hash_lookup(k) = n /\ Registered(n)
      BY Zenon, UsesFacts DEF MultiInv, StringInv
    <3> QED BY Zenon, <2>1, <3>1 DEF Uses
  <2>2. CASE l # k
    <3>1. PICK n \in NS, x \in Names : l = Append(n, x) /\ conn[c] = "open" /\ declared[c][n] # NULL
      BY Zenon, <1>2, <1>6, <2>2 DEF MultiInv, WatchInv
    <3>2. Registered(n)
      BY Zenon, <3>1 DEF MultiInv, StringInv, TableInv, TableConsistent
    <3> QED BY Zenon, <3>1, <3>2
  <2> QED BY Zenon, <2>1, <2>2
<1>7. conn' = conn /\ declared' = declared /\ db' = db /\ UNCHANGED registryVars
  BY Zenon, <1>1 DEF StepTo, registryVars
<1>8. WatchInv(c)'
  BY Zenon, <1>5, <1>6, <1>7 DEF WatchInv
<1>9. ASSUME "DIRTY_CAS" \notin flags[c], NEW l \in DOMAIN w \cup {k}
      PROVE  watched_keys'[c][l] = ContentOf(l)'
  <2>1. watched_keys'[c][l] = ContentOf(l)
    BY Zenon, <1>2, <1>5, <1>9 DEF MultiInv, Guarded
  <2>2. PICK n \in NS, x \in Names : l = Append(n, x) /\ Registered(n)
    BY Zenon, <1>6, <1>9
  <2>3. ContentOf(l)' = ContentOf(l)
    BY Zenon, <1>7, <2>2, ContentFacts DEF MultiInv, StringInv
  <2> QED BY Zenon, <2>1, <2>3
<1>10. Guarded(c)'
  BY Zenon, <1>2, <1>5, <1>9 DEF Guarded
<1>11. DOMAIN flags' = Client /\ DOMAIN mstate' = Client /\ DOMAIN watched_keys' = Client
  BY Zenon, <1>1, <1>2
<1>12. ClientInv(c)'
  BY Zenon, <1>4, <1>8, <1>10 DEF ClientInv
<1> QED BY Zenon, <1>1, <1>3, <1>11, <1>12, MultiFrame

\* KEYS, whose hook brings all listed keys to the present name.
LEMMA KeysStep ==
    ASSUME Counting, PlainNames, MultiInv, NEW c \in Client, NEW n \in NS, keys(c, n),
           flags' = Dirtied(Listed(n)), UNCHANGED <<mstate, watched_keys>>,
           UNCHANGED registryVars, TableInv', AllOrdered
    PROVE  MultiInv'
<1>1. Becomes(Listed(n)) /\ conn[c] = "open" /\ declared[c][n] # NULL
  BY Zenon DEF keys
<1>2. PICK f, v, z : Listed(n) = Srv(f, NoTags, v, z) /\ Tidied(db, f)
  BY Zenon, <1>1, KeysOutcome DEF MultiInv
<1>3. Seen(db, f, v)
  <2>1. Told(db, f, v)
    BY Zenon, <1>2, SameTold DEF Tidied, MultiInv, StringInv
  <2> QED BY Zenon, <1>2, <2>1 DEF Seen, Tidied
<1>4. StepTo(f, v)
  BY Zenon, <1>1, <1>2, <1>3, BecomesStep
<1>5. /\ DOMAIN flags' = Client
      /\ \A d \in Client :
           /\ "MULTI" \in flags[d] => "MULTI" \in flags'[d]
           /\ "DIRTY_CAS" \notin flags'[d] =>
                "DIRTY_CAS" \notin flags[d] /\ DOMAIN watched_keys[d] \cap v = {}
  BY Zenon, <1>2, DirtiedFacts
<1> QED BY Zenon, <1>4, <1>5, AllKept

\* A command of a client, in a transaction or outside.
LEMMA MultiInvData ==
    ASSUME Counting, PlainNames, Tagging, NoneLost, MultiInv, NEW c \in Client, TransactionStep(c),
           UNCHANGED registryVars, TableInv', AllOrdered
    PROVE  MultiInv'
<1>1. ASSUME NEW k, NEW r, Asked(c, k, r), Command(c, r) \/ queueMultiCommand(c, r) \/ flagTransaction(c, r)
      PROVE  MultiInv'
  BY Zenon, <1>1, CommandStep, QueueStep, FlagStep
<1>2. CASE OneKey(c, LAMBDA r : Command(c, r) \/ queueMultiCommand(c, r) \/ flagTransaction(c, r))
  BY Zenon, <1>1, <1>2 DEF OneKey, Asked
<1>3. CASE multiCommand(c) \/ discardCommand(c) \/ execCommand(c) \/ unwatchCommand(c)
  BY Zenon, <1>3, MultiStep, DiscardStep, ExecStep, UnwatchStep
<1>4. ASSUME NEW k \in Key, Uses(c, k), watchCommand(c, k) PROVE MultiInv'
  BY Zenon, <1>4, WatchStep
<1>5. ASSUME NEW n \in NS, keys(c, n), touchWatchedKey(Listed(n)), UNCHANGED <<mstate, watched_keys>>
      PROVE  MultiInv'
  BY Zenon, <1>5, KeysStep DEF touchWatchedKey
<1> QED BY Zenon, <1>2, <1>3, <1>4, <1>5 DEF TransactionStep

\* The other clients, when one connects, goes away, declares or updates: what
\* they have declared stays, and they are connected as before or not any more.
LEMMA OthersKept ==
    ASSUME RegistryTypeOK, NEW c \in Client, ConnectionStep(c) \/ RegistryStep(c),
           NEW d \in Client, d # c
    PROVE  declared'[d] = declared[d] /\ (conn'[d] = conn[d] \/ conn'[d] = "closed")
<1>1. DOMAIN declared = Client /\ DOMAIN conn = Client
  BY Zenon DEF RegistryTypeOK
<1>2. CASE ConnectionStep(c)
  BY Zenon, <1>1, <1>2 DEF ConnectionStep, connect, freeClient
<1>3. ASSUME NEW l, kvolve_check_version(c, l)
      PROVE  declared'[d] = declared[d] /\ conn'[d] = conn[d]
  <2>1. PICK o, e : conn' = [conn EXCEPT ![c] = o] /\ declared' = [declared EXCEPT ![c] = e]
    BY Zenon, <1>3 DEF kvolve_check_version
  <2> QED BY Zenon, <1>1, <2>1
<1>4. ASSUME NEW u, kvolve_load_update(c, u)
      PROVE  declared'[d] = declared[d] /\ (conn'[d] = conn[d] \/ conn'[d] = "closed")
  <2>1. CASE upd_spec_new_ns(c, u)
    <3>1. PICK e : declared' = declared \/ declared' = [declared EXCEPT ![c] = e]
      BY Zenon, <2>1 DEF upd_spec_new_ns
    <3>2. PICK L, keep : conn' = ConnAfterKill(c, L, keep)
      BY Zenon, <2>1 DEF upd_spec_new_ns
    <3> QED BY Zenon, <1>1, <3>1, <3>2 DEF ConnAfterKill
  <2>2. CASE upd_spec_same_ns(c, u)
    <3>1. PICK e : declared' = declared \/ declared' = [declared EXCEPT ![c] = e]
      BY Zenon, <2>2 DEF upd_spec_same_ns
    <3>2. PICK L, keep : conn' = ConnAfterKill(c, L, keep)
      BY Zenon, <2>2 DEF upd_spec_same_ns
    <3> QED BY Zenon, <1>1, <3>1, <3>2 DEF ConnAfterKill
  <2>3. CASE upd_spec_rejected(c, u)
    BY Zenon, <2>3 DEF upd_spec_rejected, registryVars
  <2> QED BY Zenon, <1>4, <2>1, <2>2, <2>3 DEF kvolve_load_update
<1> QED BY Zenon, <1>2, <1>3, <1>4 DEF RegistryStep

\* A sequence without elements.
LEMMA EmptySeq == ASSUME NEW S, NEW s \in Seq(S), DOMAIN s = {} PROVE s = << >>
<1>1. PICK N \in Nat : N = Len(s)
  OBVIOUS
<1>2. 1..N = {}
  BY <1>1
<1>3. N = 0
  BY <1>2
<1> QED BY <1>1, <1>3

\* The client itself has no transaction then.
LEMMA OwnReset ==
    ASSUME MultiInv, NEW c \in Client, RegistryChange(c)
    PROVE  mstate'[c] = << >> /\ DOMAIN watched_keys'[c] = {}
<1>1. QueueInv(c) /\ WatchInv(c) /\ DOMAIN conn = Client
  BY Zenon DEF MultiInv, StringInv, TableInv, RegistryTypeOK
<1>2. /\ mstate'[c] = IF conn'[c] = "closed" THEN << >> ELSE mstate[c]
      /\ watched_keys'[c] = IF conn'[c] = "closed" THEN << >> ELSE watched_keys[c]
  BY Zenon DEF RegistryChange, Ended
<1>3. CASE connect(c)
  <2>0. conn[c] # "open"
    BY Zenon, <1>3 DEF connect
  <2>1. DOMAIN mstate[c] = {} /\ DOMAIN watched_keys[c] = {}
    <3>1. \A i \in DOMAIN mstate[c] : Pending(c, mstate[c][i])
      BY Zenon, <1>1 DEF QueueInv
    <3>2. \A q : ~Pending(c, q)
      BY Zenon, <2>0 DEF Pending
    <3>3. DOMAIN watched_keys[c] = {}
      BY Zenon, <1>1, <2>0 DEF WatchInv
    <3> QED BY Zenon, <3>1, <3>2, <3>3
  <2>2. PICK T : mstate[c] \in Seq(T)
    <3>1. mstate[c] \in Seq({mstate[c][i] : i \in DOMAIN mstate[c]})
      BY Zenon, <1>1 DEF QueueInv
    <3> QED BY Zenon, <3>1
  <2>3. mstate[c] = << >>
    BY Zenon, <2>1, <2>2, EmptySeq
  <2> QED BY Zenon, <1>2, <2>1, <2>3
<1>4. CASE freeClient(c)
  <2>1. conn'[c] = "closed"
    BY Zenon, <1>1, <1>4 DEF freeClient
  <2> QED BY <1>2, <2>1
<1>5. CASE flags[c] = {} /\ watched_keys[c] = << >>
  <2>1. mstate[c] = << >>
    BY Zenon, <1>1, <1>5 DEF QueueInv, InMulti
  <2> QED BY <1>2, <1>5, <2>1
<1> QED BY Zenon, <1>3, <1>4, <1>5 DEF RegistryChange, ConnectionStep

\* A client that stays connected finds its requests and watches as they were: the
\* namespaces it has declared are not updated, and get no other name.
LEMMA OtherInv ==
    ASSUME PlainNames, MultiInv, StringInv', Grows, RootsKept, db' = db, type' = type,
           NEW d \in Client, declared'[d] = declared[d], conn'[d] = conn[d],
           flags'[d] = flags[d], mstate'[d] = mstate[d], watched_keys'[d] = watched_keys[d]
    PROVE  ClientInv(d)'
<1>1. QueueInv(d) /\ WatchInv(d) /\ Guarded(d) /\ StringInv
  BY Zenon DEF MultiInv
<1>2. ASSUME NEW n \in NS, conn[d] = "open", declared[d][n] # NULL
      PROVE  /\ Registered(n) /\ Registered(n)' /\ next_ns'[n] = NULL
             /\ Latest(n)' = Latest(n) /\ prev_ns'[n] = prev_ns[n]
  <2>1. /\ Registered(n) /\ declared[d][n] = Latest(n)
    BY Zenon, <1>1, <1>2 DEF StringInv, TableInv, NoStaleClient, Stale, TableConsistent
  <2>2. Registered(n)' /\ declared'[d][n] = Latest(n)' /\ next_ns'[n] = NULL
    BY Zenon, <1>2 DEF StringInv, TableInv, NoStaleClient, Stale, TableConsistent
  <2> QED BY Zenon, <2>1, <2>2 DEF Grows
<1>3. ASSUME NEW q, Pending(d, q) PROVE Pending(d, q)'
  <2>1. PICK n \in NS, x \in Names :
          /\ conn[d] = "open" /\ declared[d][n] # NULL
          /\ InUse(n, x) /\ GoodRequest(q, n, x) /\ Cleared(db, n, x)
    BY Zenon, <1>3 DEF Pending
  <2>2. /\ Registered(n)' /\ next_ns'[n] = NULL
        /\ Latest(n)' = Latest(n) /\ prev_ns'[n] = prev_ns[n]
    BY Zenon, <1>2, <2>1
  <2>3. InUse(n, x)'
    BY Zenon, <2>1, <2>2 DEF InUse
  <2>4. GoodRequest(q, n, x)'
    BY Zenon, <2>1, <2>2 DEF GoodRequest, ArgFits
  <2>5. Cleared(db, n, x)'
    BY Zenon, <2>1, <2>2 DEF Cleared
  <2> QED BY Zenon, <2>1, <2>3, <2>4, <2>5 DEF Pending
<1>4. QueueInv(d)'
  <2> PICK s : s = mstate[d] /\ s = mstate'[d]
    BY Zenon
  <2>2. \A i \in DOMAIN s : Pending(d, s[i])
    BY Zenon, <1>1 DEF QueueInv
  <2>3. \A i \in DOMAIN s : Pending(d, s[i])'
    <3> SUFFICES ASSUME NEW i \in DOMAIN s PROVE Pending(d, s[i])'
      BY Zenon
    <3> PICK q : q = s[i]
      BY Zenon
    <3>2. Pending(d, q)'
      BY Zenon, <1>3, <2>2
    <3> QED BY Zenon, <3>2
  <2>4. InMulti(d)' <=> InMulti(d)
    BY Zenon DEF InMulti
  <2>5. (~InMulti(d) => s = << >>) /\ s \in Seq({s[i] : i \in DOMAIN s})
    BY Zenon, <1>1 DEF QueueInv
  <2> QED BY Zenon, <2>3, <2>4, <2>5 DEF QueueInv
<1>5. WatchInv(d)'
  BY Zenon, <1>1 DEF WatchInv
<1>6. ASSUME "DIRTY_CAS" \notin flags[d], NEW k \in DOMAIN watched_keys[d]
      PROVE  watched_keys[d][k] = ContentOf(k)'
  <2>1. PICK n \in NS, x \in Names : k = Append(n, x) /\ conn[d] = "open" /\ declared[d][n] # NULL
    BY Zenon, <1>1, <1>6 DEF WatchInv
  <2>2. Registered(n) /\ Registered(n)' /\ TableInv
    BY Zenon, <1>1, <1>2, <2>1 DEF StringInv
  <2> PICK i : i = ItemOf(k)
    BY Zenon
  <2>4. i \in Item /\ ItemOf(k)' = i
    <3>1. ItemOf(Append(n, x)) = <<Root(n), x>> /\ ItemOf(Append(n, x))' = ItemOf(Append(n, x))
      BY Zenon, <2>2, ItemFacts, ItemKept
    <3>2. Root(n) \in NS
      BY Zenon, <2>2, Roots DEF MultiInv
    <3> QED BY <2>1, <3>1, <3>2 DEF Item
  <2>5. Stored(i)' = Stored(i)
    BY Zenon, <1>1, <2>4, StoredKept
  <2> QED BY Zenon, <1>1, <1>6, <2>4, <2>5 DEF Guarded, ContentOf
<1>7. Guarded(d)'
  BY Zenon, <1>6 DEF Guarded
<1> QED BY Zenon, <1>4, <1>5, <1>7 DEF ClientInv

\* Connections, declarations and updates.
LEMMA MultiInvRegistry ==
    ASSUME PlainNames, MultiInv, NEW c \in Client, RegistryChange(c), TableInv', Grows, RootsKept, Single'
    PROVE  MultiInv'
<1>1. StringInv /\ (ConnectionStep(c) \/ RegistryStep(c))
  BY Zenon DEF MultiInv, RegistryChange
<1>2. StringInv'
  BY Zenon, <1>1, StringInvRegistry
<1>3. db' = db /\ type' = type
  <2>1. CASE ConnectionStep(c)
    BY Zenon, <2>1 DEF ConnectionStep, dataVars
  <2>2. CASE RegistryStep(c)
    BY <1>1, <2>2, SettledIs, ServerFacts DEF RegistryStep, Becomes
  <2> QED BY Zenon, <1>1, <2>1, <2>2
<1>4. ASSUME NEW d \in Client, d # c PROVE ClientInv(d)'
  <2>1. declared'[d] = declared[d] /\ (conn'[d] = conn[d] \/ conn'[d] = "closed")
    <3>1. RegistryTypeOK
      BY Zenon, <1>1 DEF StringInv, TableInv
    <3> QED BY Zenon, <1>1, <1>4, <3>1, OthersKept
  <2>2. CASE conn'[d] = "closed"
    <3>1. mstate'[d] = << >> /\ watched_keys'[d] = << >>
      BY Zenon, <2>2 DEF RegistryChange, Ended
    <3>2. DOMAIN watched_keys'[d] = {}
      BY <3>1
    <3> QED BY Zenon, <3>1, <3>2, ClientReset DEF ClientInv
  <2>3. CASE conn'[d] # "closed"
    <3>1. flags'[d] = flags[d] /\ mstate'[d] = mstate[d] /\ watched_keys'[d] = watched_keys[d]
      BY Zenon, <2>3 DEF RegistryChange, Ended
    <3> QED BY Zenon, <1>2, <1>3, <2>1, <2>3, <3>1, OtherInv
  <2> QED BY Zenon, <2>2, <2>3
<1>5. ClientInv(c)'
  BY Zenon, OwnReset, ClientReset DEF ClientInv
<1>6. DOMAIN flags' = Client /\ DOMAIN mstate' = Client /\ DOMAIN watched_keys' = Client
  BY Zenon DEF RegistryChange
<1> QED BY Zenon, <1>2, <1>4, <1>5, <1>6 DEF MultiInv, ClientInv


\* At the start nothing is queued or watched.
LEMMA MultiInvInit ==
    ASSUME MultiInit, StringInv, Single
    PROVE  MultiInv
<1>1. /\ DOMAIN flags = Client /\ DOMAIN mstate = Client /\ DOMAIN watched_keys = Client
      /\ \A c \in Client : mstate[c] = << >> /\ watched_keys[c] = << >>
  BY Zenon DEF MultiInit
<1>2. ASSUME NEW c \in Client PROVE QueueInv(c) /\ WatchInv(c) /\ Guarded(c)
  <2>1. PICK q, w : q = mstate[c] /\ w = watched_keys[c] /\ q = << >> /\ w = << >>
    BY Zenon, <1>1
  <2>2. DOMAIN q = {} /\ DOMAIN w = {}
    BY <2>1
  <2>3. q \in Seq({q[i] : i \in DOMAIN q})
    BY <2>1
  <2>4. QueueInv(c)
    BY <2>1, <2>2, <2>3, Zenon DEF QueueInv
  <2> QED BY Zenon, <2>1, <2>2, <2>4 DEF WatchInv, Guarded
<1> QED BY Zenon, <1>1, <1>2 DEF MultiInv

\* Where nothing happens the invariant is kept.
LEMMA MultiInvStays ==
    ASSUME PlainNames, MultiInv, UNCHANGED allVars, TableInv'
    PROVE  MultiInv'
<1> PICK f, v : f = db /\ v = {}
  BY Zenon
<1>2. Seen(f, f, v)
  BY Zenon, SeenSame DEF MultiInv, StringInv
<1>3. StepTo(f, v)
  BY Zenon, <1>2 DEF StepTo, allVars, kvolveVars, dataVars, MultiInv, StringInv
<1>4. UNCHANGED <<mstate, watched_keys>> /\ flags' = flags
  BY Zenon DEF allVars, multiVars
<1>5. DOMAIN flags = Client
  BY Zenon DEF MultiInv
<1> QED BY <1>3, <1>4, <1>5, AllKept

-----------------------------------------------------------------------------
(* Transactions that their own hooks abort *)

\* A string that was moved is there, updated or not.
LEMMA MovedThere ==
    ASSUME TableInv, NEW cmd, NEW d, NEW n \in NS, NEW x \in Names, DataInv(d), next_ns[n] = NULL,
           ToMove(d, n, x), cmd \notin Setting
    PROVE  HookDb(cmd, d, n, x)[Append(n, x)] # NULL
<1> PICK m, k, o : m = Moved(d, n, x) /\ k = Append(n, x) /\ o = m[k]
  BY Zenon
<1>1. o # NULL
  BY MovedFacts DEF ToMove, DataInv, AllFit
<1>2. Fits(o, n) /\ OnKeys(m) /\ k \in Key
  BY Zenon, MovedKeeps, IsKey DEF Keeps, DataInv, AllFit
<1>3. Fresh(o, n) # NULL
  BY Zenon, <1>1, <1>2, FreshSame
<1>4. Refreshed(d, n, x)[k] = Fresh(o, n)
  BY Zenon, <1>2 DEF Refreshed, At, OnKeys
<1> QED BY Zenon, <1>1, <1>3, <1>4 DEF HookDb

\* The client is told by its own hook if it moves the key the client watches, and
\* then there is a value where there was none.
LEMMA QueueProgress ==
    ASSUME Counting, PlainNames, Tagging, MultiInv, NEW c \in Client, NEW k, NEW r, Asked(c, k, r),
           queueMultiCommand(c, r), UNCHANGED registryVars, "DIRTY_CAS" \in flags'[c] \ flags[c]
    PROVE  \E l \in DOMAIN watched_keys[c] : Behind(l)' < Behind(l)
<1>1. TableInv /\ DataInv(db) /\ StringInv /\ WatchInv(c)
  BY Zenon DEF MultiInv, StringInv
<1>2. PICK n \in NS, x \in Names : \E e, u : k = Append(n, x) /\ HookOf(r, n, x, e, u)
  BY Zenon, <1>1, HookedFacts
<1>3. PICK e, u : k = Append(n, x) /\ HookOf(r, n, x, e, u)
  BY Zenon, <1>2
<1>4. db' = e /\ DOMAIN watched_keys[c] \cap u # {}
  <2>1. Hooked(r).db = e /\ Hooked(r).touched = u
    BY <1>3, ServerFacts DEF HookOf
  <2> QED BY <2>1 DEF queueMultiCommand, Becomes, touchWatchedKey, Dirtied
<1>5. /\ ToMove(db, n, x) /\ r.cmd \notin Setting /\ next_ns[n] = NULL
      /\ u = {Append(prev_ns[n], x), k} /\ e = HookDb(r.cmd, db, n, x)
  BY Zenon, <1>3, <1>4 DEF HookOf, InUse, HookTouched, Touched, Signalled
<1>6. k \in DOMAIN watched_keys[c]
  <2>1. PICK l \in DOMAIN watched_keys[c] : l \in {Append(prev_ns[n], x), k}
    BY Zenon, <1>4, <1>5
  <2>2. PICK m \in NS, y \in Names : l = Append(m, y) /\ conn[c] = "open" /\ declared[c][m] # NULL
    BY Zenon, <1>1 DEF WatchInv
  <2>3. next_ns[m] = NULL
    BY <1>1, <2>2 DEF TableInv, NoStaleClient, Stale
  <2>4. prev_ns[n] \in NS /\ next_ns[prev_ns[n]] = n /\ n # NULL
    BY <1>1, <1>5, RegistryAssumption DEF ToMove, TableInv, RegistryTypeOK, DocHistory, LinksOf
  <2>5. l # Append(prev_ns[n], x)
    BY Zenon, <2>2, <2>3, <2>4, KeyInjective
  <2> QED BY Zenon, <2>1, <2>5
<1>7. Behind(k) = 2
  BY Zenon, <1>3, <1>5 DEF Behind, ToMove
<1>8. db'[k] # NULL
  BY Zenon, <1>1, <1>3, <1>4, <1>5, MovedThere
<1>9. Behind(k)' \in {0, 1}
  BY Zenon, <1>8 DEF Behind
<1> QED BY <1>6, <1>7, <1>9

\* What AbortsMakeProgress says of a step.
ProgressStep ==
    \A c \in Client :
        mstate'[c] # mstate[c] /\ "DIRTY_CAS" \in flags'[c] \ flags[c]
        => \E k \in DOMAIN watched_keys[c] : Behind(k)' < Behind(k)

\* No other command that changes what a client has queued tells the client so.
LEMMA ProgressData ==
    ASSUME Counting, PlainNames, Tagging, MultiInv, NEW c \in Client, TransactionStep(c),
           UNCHANGED registryVars
    PROVE  ProgressStep
<1> SUFFICES ASSUME NEW d \in Client, mstate'[d] # mstate[d], "DIRTY_CAS" \in flags'[d] \ flags[d]
             PROVE  \E k \in DOMAIN watched_keys[d] : Behind(k)' < Behind(k)
  BY Zenon DEF ProgressStep
<1>1. DOMAIN mstate = Client /\ DOMAIN flags = Client
  BY Zenon DEF MultiInv
<1>2. ASSUME NEW k, NEW r, Asked(c, k, r), queueMultiCommand(c, r)
      PROVE  \E l \in DOMAIN watched_keys[d] : Behind(l)' < Behind(l)
  <2>1. d = c
    BY Zenon, <1>1, <1>2 DEF queueMultiCommand
  <2> QED BY Zenon, <1>2, <2>1, QueueProgress
<1>3. ASSUME NEW g, discardTransaction(c, g), DOMAIN g = Client PROVE FALSE
  BY Zenon, <1>1, <1>3 DEF discardTransaction
<1>4. ASSUME NEW s, DOMAIN Dirtied(s) # Client PROVE FALSE
  BY Zenon, <1>4 DEF Dirtied
<1>5. mstate' # mstate
  BY Zenon
<1>6. CASE OneKey(c, LAMBDA r : Command(c, r) \/ queueMultiCommand(c, r) \/ flagTransaction(c, r))
  <2>1. PICK k, r : Asked(c, k, r) /\ (Command(c, r) \/ queueMultiCommand(c, r) \/ flagTransaction(c, r))
    BY Zenon, <1>6 DEF OneKey, Asked
  <2>2. queueMultiCommand(c, r)
    BY Zenon, <1>5, <2>1 DEF Command, flagTransaction
  <2> QED BY Zenon, <1>2, <2>1, <2>2
<1>7. CASE discardCommand(c) \/ execCommand(c)
  BY Zenon, <1>1, <1>3, <1>4, <1>7 DEF discardCommand, execCommand
<1> QED BY Zenon, <1>5, <1>6, <1>7 DEF TransactionStep, multiCommand, unwatchCommand, watchCommand

\* Nor does the end of its connection.
LEMMA ProgressRegistry ==
    ASSUME DOMAIN flags = Client, NEW c \in Client, RegistryChange(c) PROVE ProgressStep
BY Zenon DEF ProgressStep, RegistryChange
=============================================================================
