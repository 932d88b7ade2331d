-------------------------- MODULE KvolveDataProofs --------------------------
(***************************************************************************)
(* What the commands on strings, each after its hook, do to the data: it   *)
(* stays in order, and only those that are meant to change it do.          *)
(***************************************************************************)
EXTENDS KvolveHooksProofs

-----------------------------------------------------------------------------
(* What is stored for an item, under any of its names *)

\* Stored is what is stored in db.
LEMMA StoredFacts == \A i \in Item : Stored(i) = StoredIn(db, i)
<1> SUFFICES ASSUME NEW i \in Item PROVE Stored(i) = StoredIn(db, i)
  BY Zenon
<1>1. {l \in Used : ItemOf(l) = i} = KeysOf(db, i)
  BY Zenon DEF Used, KeysOf
<1> QED BY Zenon, <1>1 DEF Stored, StoredIn

\* What is replaced by the like of it, under the same name, is the same data.
LEMMA SameUnder ==
    ASSUME NEW d, NEW k, NEW o, OnKeys(d), k \in Key, d[k] # NULL, o # NULL,
           Converted(o, Garbled) = Converted(d[k], Garbled)
    PROVE  SameData(d, At(d, k, o))
<1> PICK e : e = At(d, k, o)
  BY Zenon
<1>2. e[k] = o /\ \A l \in Key : l # k => e[l] = d[l]
  BY Zenon DEF At, OnKeys
<1>3. ASSUME NEW i PROVE KeysOf(e, i) = KeysOf(d, i)
  BY Zenon, <1>2 DEF KeysOf
<1>4. \A l \in Key : Converted(e[l], Garbled) = Converted(d[l], Garbled)
  BY Zenon, <1>2
<1>5. ASSUME NEW i PROVE StoredIn(e, i) = StoredIn(d, i)
  <2>1. \A l \in KeysOf(d, i) : l \in Key
    BY Zenon DEF KeysOf
  <2> QED BY Zenon, <1>3, <1>4, <2>1 DEF StoredIn
<1> QED BY Zenon, <1>5 DEF SameData

\* What is moved to another name of the same item is the same data.
LEMMA SameShifted ==
    ASSUME NEW d, NEW from, NEW to, OnKeys(d), from \in Key, to \in Key, from # to,
           d[from] # NULL, d[to] = NULL, ItemOf(from) = ItemOf(to)
    PROVE  SameData(d, Shifted(d, from, to))
<1> PICK e : e = Shifted(d, from, to)
  BY Zenon
<1>2. e[to] = d[from] /\ e[from] = NULL /\ \A l \in Key : l # from /\ l # to => e[l] = d[l]
  BY Zenon DEF Shifted, OnKeys
<1>3. ASSUME NEW i, NEW z \in StoredIn(d, i) PROVE z \in StoredIn(e, i)
  <2>1. PICK l : l \in KeysOf(d, i) /\ z = Converted(d[l], Garbled)
    BY Zenon, <1>3 DEF StoredIn
  <2>2. CASE l = from
    <3>1. to \in KeysOf(e, i) /\ z = Converted(e[to], Garbled)
      BY Zenon, <1>2, <2>1, <2>2 DEF KeysOf
    <3> QED BY Zenon, <3>1 DEF StoredIn
  <2>3. CASE l # from
    <3>1. l \in KeysOf(e, i) /\ z = Converted(e[l], Garbled)
      BY Zenon, <1>2, <2>1, <2>3 DEF KeysOf
    <3> QED BY Zenon, <3>1 DEF StoredIn
  <2> QED BY Zenon, <2>2, <2>3
<1>4. ASSUME NEW i, NEW z \in StoredIn(e, i) PROVE z \in StoredIn(d, i)
  <2>1. PICK l : l \in KeysOf(e, i) /\ z = Converted(e[l], Garbled)
    BY Zenon, <1>4 DEF StoredIn
  <2>2. CASE l = to
    <3>1. from \in KeysOf(d, i) /\ z = Converted(d[from], Garbled)
      BY Zenon, <1>2, <2>1, <2>2 DEF KeysOf
    <3> QED BY Zenon, <3>1 DEF StoredIn
  <2>3. CASE l # to
    <3>1. l \in KeysOf(d, i) /\ z = Converted(d[l], Garbled)
      BY Zenon, <1>2, <2>1, <2>3 DEF KeysOf
    <3> QED BY Zenon, <3>1 DEF StoredIn
  <2> QED BY Zenon, <2>2, <2>3
<1>5. ASSUME NEW i PROVE StoredIn(e, i) = StoredIn(d, i)
  BY <1>3, <1>4
<1> QED BY Zenon, <1>5 DEF SameData

\* A string brought up to date is the same but for its schema.
LEMMA FreshSame ==
    ASSUME TableInv, NEW o, NEW n \in NS, Fits(o, n), o # NULL
    PROVE  Fresh(o, n) # NULL /\ Converted(Fresh(o, n), Garbled) = Converted(o, Garbled)
<1>1. CASE o.enc = "int"
  BY Zenon, <1>1 DEF Fresh
<1>2. CASE o.enc # "int"
  <2>1. PICK p, j : j \in 1..Len(versions[n]) /\ o = Raw(p, versions[n][j]) /\ p \in Payload
    <3>1. \A i : Num(i).enc = "int"
      BY Zenon DEF Num
    <3> QED BY Zenon, <1>2, <3>1 DEF Fits
  <2> PICK v : v = versions[n][j]
    BY Zenon
  <2>3. v \in Vers /\ Latest(n) \in Vers
    <3>1. Registered(n) /\ versions[n] \in Seq(Vers) /\ RegistryTypeOK
      BY Zenon DEF TableInv, RegistryTypeOK, Fits
    <3> QED BY <2>1, <3>1, LatestFacts
  <2>4. Fresh(o, n) = Raw(p, Latest(n))
    BY <1>2, <2>1, ObjectFacts DEF Fresh
  <2>5. ASSUME NEW w \in Vers
        PROVE  /\ Converted(Raw(p, w), Garbled) = createObject("string", "raw", Datum(p, Garbled))
               /\ Raw(p, w) # NULL
    <3>1. Raw(p, w).type = "string" /\ Raw(p, w).ptr = Datum(p, w) /\ Raw(p, w) # NULL
      <4>1. Raw(p, w) \in StringObject
        BY Zenon, <2>1 DEF Raw, Datum, StringObject
      <4> QED BY <4>1, ObjectFacts, NullAssumption
    <3>2. Convert(Datum(p, w), Garbled) = Datum(p, Garbled)
      BY Zenon, HooksAssumption DEF Convert, IsNumber, Datum
    <3> QED BY Zenon, <3>1, <3>2 DEF Converted
  <2> QED BY Zenon, <2>1, <2>3, <2>4, <2>5
<1> QED BY Zenon, <1>1, <1>2

\* Moving a string changes no data.
LEMMA MovedSame ==
    ASSUME PlainNames, TableInv, NEW d, NEW n \in NS, NEW x \in Names, DataInv(d)
    PROVE  SameData(d, Moved(d, n, x))
<1>1. CASE ~ToMove(d, n, x)
  BY Zenon, <1>1 DEF Moved, SameData
<1>2. CASE ToMove(d, n, x)
  <2> PICK p, from, to : p = prev_ns[n] /\ from = Append(p, x) /\ to = Append(n, x)
    BY Zenon
  <2>2. p \in NS /\ p # n /\ Registered(p) /\ Registered(n)
    BY <1>2 DEF ToMove, TableInv, RegistryTypeOK, TableConsistent, DocHistory, LinksOf
  <2>3. Root(n) = Root(p)
    BY Zenon, <1>2, RootStep DEF ToMove, TableInv
  <2>4. ItemOf(from) = ItemOf(to)
    BY Zenon, <2>2, <2>3, ItemFacts
  <2>5. from \in Key /\ to \in Key /\ from # to
    BY Zenon, <2>2, IsKey, KeysDiffer
  <2>6. d[from] # NULL /\ d[to] = NULL /\ OnKeys(d)
    BY Zenon, <1>2 DEF ToMove, DataInv, AllFit
  <2>7. SameData(d, Shifted(d, from, to))
    BY Zenon, <2>4, <2>5, <2>6, SameShifted
  <2> QED BY Zenon, <1>2, <2>7 DEF Moved
<1> QED BY Zenon, <1>1, <1>2

\* Nor does any hook but the one of SET and MSET.
LEMMA HookSame ==
    ASSUME PlainNames, TableInv, NEW cmd, NEW d, NEW n \in NS, NEW x \in Names,
           DataInv(d), next_ns[n] = NULL, cmd \notin Setting
    PROVE  SameData(d, HookDb(cmd, d, n, x))
<1> PICK e, k : e = Moved(d, n, x) /\ k = Append(n, x)
  BY Zenon
<1>2. SameData(d, e) /\ DataInv(e)
  BY Zenon, MovedSame, MovedKeeps DEF Keeps
<1> PICK f : f = At(e, k, Fresh(e[k], n))
  BY Zenon
<1>4. SameData(e, f)
  <2>1. k \in Key /\ OnKeys(e) /\ Fits(e[k], n)
    BY Zenon, <1>2, IsKey DEF DataInv, AllFit
  <2>2. CASE e[k] = NULL
    <3>1. f = e
      BY Zenon, <2>1, <2>2 DEF Fresh, At, OnKeys
    <3> QED BY Zenon, <3>1 DEF SameData
  <2>3. CASE e[k] # NULL
    <3> PICK o : o = Fresh(e[k], n)
      BY Zenon
    <3>2. o # NULL /\ Converted(o, Garbled) = Converted(e[k], Garbled)
      BY Zenon, <2>1, <2>3, FreshSame
    <3>3. SameData(e, At(e, k, o))
      BY Zenon, <2>1, <2>3, <3>2, SameUnder
    <3> QED BY Zenon, <3>3
  <2> QED BY Zenon, <2>2, <2>3
<1>5. SameData(d, f)
  BY Zenon, <1>2, <1>4 DEF SameData
<1> QED BY Zenon, <1>2, <1>5 DEF HookDb, Refreshed

-----------------------------------------------------------------------------
(* The hooks and the commands they are for *)

\* A program uses a key of a namespace in the table that has not been renamed,
\* and is written for its last version.
LEMMA UsesFacts ==
    ASSUME PlainNames, TableInv, NEW c \in Client, NEW k \in Key, Uses(c, k)
    PROVE  \E n \in NS, x \in Names :
             /\ k = Append(n, x) /\ kvolve_version_hash_lookup(k) = n
             /\ Registered(n) /\ next_ns[n] = NULL /\ declared[c][n] = Latest(n)
<1>1. PICK n \in NS, x \in Names : k = Append(n, x)
  BY DEF Key
<1>2. kvolve_version_hash_lookup(k) = (IF Registered(n) THEN n ELSE NULL)
  BY Zenon, <1>1, LookupFacts
<1>3. Registered(n) /\ kvolve_version_hash_lookup(k) = n
  BY Zenon, <1>2 DEF Uses
<1>4. conn[c] = "open" /\ declared[c][n] # NULL
  BY Zenon, <1>3 DEF Uses
<1>5. next_ns[n] = NULL /\ declared[c][n] = Latest(n)
  BY Zenon, <1>4 DEF TableInv, NoStaleClient, Stale
<1> QED BY Zenon, <1>1, <1>3, <1>5

\* kvolve_process_command for a command with one key.
LEMMA OneKeyHook ==
    ASSUME Counting, PlainNames, TableInv, NEW d, NEW w, NEW q, NEW r, NEW n \in NS, NEW x \in Names,
           AllFit(d), Registered(n), r.cmd \in StringCommands, r.keys = <<Append(n, x)>>
    PROVE  kvolve_process_command(Srv(d, NoTags, w, q), r) =
             Srv(HookDb(r.cmd, d, n, x), NoTags, HookTouched(r.cmd, d, w, n, x), q)
<1> PICK k, s : k = Append(n, x) /\ s = Srv(d, NoTags, w, q)
  BY Zenon
<1>2. r.keys[1] = k /\ r.keys = <<k>> /\ kvolve_version_hash_lookup(k) = n /\ n # NULL
  BY LookupFacts, RegistryAssumption
<1>3. kvolve_process_command(s, r) = kvolve_commands(s, r)
  BY Zenon, <1>2, PrevcallNothing DEF kvolve_process_command, AllFit
<1>4. CASE r.cmd \in {"get", "getset", "set", "del"}
  <2>1. kvolve_commands(s, r) = EachKey(r.cmd, s, <<k>>, n)
    BY Zenon, <1>2, <1>4 DEF kvolve_commands
  <2>2. kvolve_commands(s, r) = OnKey(r.cmd, s, k, n)
    BY Zenon, <2>1, LoopOne
  <2> QED BY <1>3, <1>4, <2>2, OnKeyFacts DEF Updating, Setting
<1>5. CASE r.cmd \in {"setnx", "setxx", "incr"}
  <2>1. kvolve_commands(s, r) = MovedServer(d, NoTags, w, q, n, x)
    BY <1>2, <1>5, SetnxIncr DEF kvolve_commands, TableInv
  <2> QED BY Zenon, <1>3, <1>5, <2>1 DEF MovedServer, HookDb, HookTouched, Updating, Setting
<1> QED BY Zenon, <1>4, <1>5 DEF StringCommands

\* A command with one key.
LEMMA CallOne ==
    ASSUME TableInv, NEW d, NEW t, NEW w, NEW r, NEW q, NEW n \in NS, NEW x \in Names,
           OnKeys(d), Registered(n), Fits(d[Append(n, x)], n), GoodRequest(q, n, x),
           Bounded(Srv(d, t, w, r), q)
    PROVE  \E e, u, z :
             /\ call(Srv(d, t, w, r), q) = Srv(e, t, u, z)
             /\ Writes(d, w, e, u, n, x)
             /\ ReadOnly(q.cmd, z) => e = d
             /\ q.cmd = "set" => Append(n, x) \in u
<1>1. PICK k, s : k = Append(n, x) /\ s = Srv(d, t, w, r)
  BY Zenon
<1>2. q.keys = <<k>> /\ q.keys[1] = k /\ s.db = d
  BY <1>1, ServerFacts DEF GoodRequest
<1>3. CASE q.cmd = "get"
  <2>1. PICK z : mgetCommand(s, <<k>>) = Reply(s, z)
    BY Zenon DEF mgetCommand
  <2>2. call(s, q) = Srv(d, t, w, z)
    BY <1>1, <1>2, <1>3, <2>1, ReplyFacts DEF call
  <2> QED BY Zenon, <1>1, <1>3, <2>2 DEF Writes
<1>4. CASE q.cmd \in {"set", "setxx"}
  <2>1. q.args = <<q.args[1]>> /\ ArgFits(q.args[1], n) /\ q.tag = Latest(n)
    BY Zenon, <1>4 DEF GoodRequest
  <2>2. PICK o : o = tryObjectEncoding(q.args[1], Latest(n))
    BY Zenon
  <2>3. Fits(o, n)
    BY Zenon, <2>1, <2>2, EncodingFits
  <2>4. DOMAIN q.args = 1..1
    <3>1. PICK b : q.args = <<b>>
      BY Zenon, <2>1
    <3> QED BY <3>1
  <2>5. \E flag : call(s, q) = setGenericCommand(s, k, o, flag) /\ (q.cmd = "set" => flag \notin {"nx", "xx"})
    <3>1. [i \in DOMAIN q.args |-> tryObjectEncoding(q.args[i], q.tag)][1] = o
      BY <2>1, <2>2, <2>4
    <3>2. CASE q.cmd = "set"
      <4>1. call(s, q) = setGenericCommand(s, k, o, "")
        BY Zenon, <1>2, <3>1, <3>2 DEF call
      <4>2. "" \notin {"nx", "xx"}
        BY Zenon
      <4> QED BY Zenon, <4>1, <4>2
    <3>3. CASE q.cmd = "setxx"
      BY Zenon, <1>2, <3>1, <3>3 DEF call
    <3> QED BY Zenon, <1>4, <3>2, <3>3
  <2>6. PICK e, u, z : /\ call(s, q) = Srv(e, t, u, z) /\ Writes(d, w, e, u, n, x)
                       /\ z = [bool |-> FALSE] => e = d
                       /\ q.cmd = "set" => k \in u
    <3>1. PICK flag : call(s, q) = setGenericCommand(s, k, o, flag) /\ (q.cmd = "set" => flag \notin {"nx", "xx"})
      BY Zenon, <2>5
    <3>2. \E e, u, z :
            /\ setGenericCommand(Srv(d, t, w, r), Append(n, x), o, flag) = Srv(e, t, u, z)
            /\ Writes(d, w, e, u, n, x)
            /\ z = [bool |-> FALSE] => e = d
            /\ flag \notin {"nx", "xx"} => Append(n, x) \in u
      BY <2>3, SetWrites
    <3> QED BY Zenon, <1>1, <3>1, <3>2
  <2>7. ReadOnly(q.cmd, z) => e = d
    BY Zenon, <1>4, <2>6 DEF ReadOnly
  <2> QED BY Zenon, <1>1, <2>6, <2>7
<1>5. CASE q.cmd = "incr"
  <2>1. call(s, q) = incrDecrCommand(s, k)
    BY Zenon, <1>2, <1>5 DEF call
  <2>2. IF d[k] = NULL THEN 1 \in Numbers ELSE IsNumber(d[k].ptr) => d[k].ptr.val + 1 \in Numbers
    BY Zenon, <1>1, <1>2, <1>5 DEF Bounded
  <2>3. PICK e, u, z : call(s, q) = Srv(e, t, u, z) /\ Writes(d, w, e, u, n, x) /\ (z = [bool |-> FALSE] => e = d)
    BY <1>1, <2>1, <2>2, IncrWrites
  <2>4. ReadOnly(q.cmd, z) => e = d
    BY Zenon, <1>5, <2>3 DEF ReadOnly
  <2> QED BY Zenon, <1>1, <1>5, <2>3, <2>4
<1>6. CASE q.cmd = "del"
  <2>1. call(s, q) = delCommand(s, <<k>>)
    BY Zenon, <1>2, <1>6 DEF call
  <2>2. PICK e, u, z : call(s, q) = Srv(e, t, u, z) /\ Writes(d, w, e, u, n, x)
    BY <1>1, <2>1, DelWrites
  <2>3. ~ReadOnly(q.cmd, z)
    BY Zenon, <1>6 DEF ReadOnly
  <2> QED BY Zenon, <1>1, <1>6, <2>2, <2>3
<1> QED BY Zenon, <1>3, <1>4, <1>5, <1>6 DEF GoodRequest

-----------------------------------------------------------------------------
(* Steps of programs that use strings, and tag what they write: SETNX and  *)
(* GETSET do not.                                                          *)

\* It is a good request.
LEMMA AskedFacts ==
    ASSUME PlainNames, Tagging, TableInv, OnlyStrings, NEW c \in Client, NEW k, NEW r, Asked(c, k, r)
    PROVE  \E n \in NS, x \in Names :
             /\ k = Append(n, x) /\ type[x] = "string" /\ Registered(n) /\ next_ns[n] = NULL
             /\ r.keys = <<k>> /\ r.cmd \in StringCommands
             /\ Tagged(r).keys = <<k>> /\ Tagged(r).cmd = r.cmd
             /\ GoodRequest(Tagged(r), n, x)
<1>1. PICK n \in NS, x \in Names :
        /\ k = Append(n, x) /\ kvolve_version_hash_lookup(k) = n
        /\ Registered(n) /\ next_ns[n] = NULL /\ declared[c][n] = Latest(n)
  BY Zenon, UsesFacts DEF Asked
<1>2. k[Len(k)] = x
  BY Zenon, <1>1, KeyFacts
<1>3. PICK cmd, bs, at : /\ cmd \in Commands \cap CommandsOf(TypeOf(k)) /\ bs \in ArgsOf(c, cmd, k)
                         /\ r = Request(cmd, <<k>>, bs, at)
  BY Zenon DEF Asked
<1>4. type[x] = "string" /\ cmd \in {"get", "set", "setxx", "incr", "del"}
  <2>1. type[x] \in {"string", "none"} /\ TypeOf(k) = type[x]
    BY Zenon, <1>2 DEF OnlyStrings, TypeOf
  <2>2. type[x] = "string"
    BY Zenon, <1>3, <2>1 DEF CommandsOf
  <2> QED BY Zenon, <1>3, <2>1, <2>2 DEF CommandsOf, StringCommands, Tagging
<1>5. r.cmd = cmd /\ r.keys = <<k>> /\ r.args = bs /\ r.keys[1] = k
  BY Zenon, <1>3 DEF Request
<1>6. ASSUME cmd \in {"set", "setxx"} PROVE bs = <<bs[1]>> /\ ArgFits(bs[1], n)
  <2>1. PICK b \in Written(c, k) : bs = <<b>>
    BY Zenon, <1>3, <1>6 DEF ArgsOf, WithoutData
  <2>2. ArgFits(b, n)
    BY Zenon, <1>1, <2>1 DEF Written, ArgFits, Datum
  <2> QED BY Zenon, <2>1, <2>2
<1>7. CASE cmd \in {"set", "setxx"}
  <2>1. Tagged(r) = [r EXCEPT !.tag = Latest(n)]
    BY Zenon, <1>1, <1>5, <1>7 DEF Tagged
  <2>2. /\ Tagged(r).tag = Latest(n) /\ Tagged(r).cmd = r.cmd /\ Tagged(r).keys = r.keys
        /\ Tagged(r).args = r.args
    BY Zenon, <1>3, <2>1 DEF Request
  <2> QED BY Zenon, <1>1, <1>4, <1>5, <1>6, <1>7, <2>2 DEF GoodRequest, StringCommands
<1>8. CASE cmd \in {"get", "incr", "del"}
  <2>1. Tagged(r) = r
    BY Zenon, <1>5, <1>8 DEF Tagged
  <2> QED BY Zenon, <1>1, <1>4, <1>5, <1>8, <2>1 DEF GoodRequest, StringCommands
<1> QED BY Zenon, <1>4, <1>7, <1>8

\* A change to a name in use for strings leaves strings.
LEMMA StringsKept ==
    ASSUME NEW d, NEW e, NEW n, NEW x, InUse(n, x), Strings(d), Elsewhere(d, e, n, x)
    PROVE  Strings(e)
BY Zenon DEF InUse, Strings, Elsewhere

\* A hook, at once or when the command is queued.
LEMMA HookedFacts ==
    ASSUME Counting, PlainNames, Tagging, StringInv, NEW c \in Client, NEW k, NEW r, Asked(c, k, r)
    PROVE  \E n \in NS, x \in Names : \E e, u : k = Append(n, x) /\ HookOf(r, n, x, e, u)
<1>1. PICK n \in NS, x \in Names :
             /\ k = Append(n, x) /\ type[x] = "string" /\ Registered(n) /\ next_ns[n] = NULL
             /\ r.keys = <<k>> /\ r.cmd \in StringCommands
             /\ Tagged(r).keys = <<k>> /\ Tagged(r).cmd = r.cmd
             /\ GoodRequest(Tagged(r), n, x)
  BY Zenon, AskedFacts DEF StringInv
<1> PICK e, u : e = HookDb(r.cmd, db, n, x) /\ u = HookTouched(r.cmd, db, {}, n, x)
  BY Zenon
<1>3. Hooked(r) = Srv(e, NoTags, u, NULL)
  <2>1. Server = Srv(db, NoTags, {}, NULL)
    BY Zenon, ServerIs DEF StringInv
  <2> PICK d, w, q : d = db /\ w = {} /\ q = NULL
    BY Zenon
  <2>3. TableInv /\ AllFit(d) /\ r.keys = <<Append(n, x)>>
    BY Zenon, <1>1 DEF StringInv, DataInv
  <2>4. kvolve_process_command(Srv(d, NoTags, w, q), r) =
          Srv(HookDb(r.cmd, d, n, x), NoTags, HookTouched(r.cmd, d, w, n, x), q)
    <3>1. Registered(n) /\ r.cmd \in StringCommands
      BY Zenon, <1>1
    <3> QED BY <2>3, <3>1, OneKeyHook
  <2> QED BY Zenon, <2>1, <2>4 DEF Hooked
<1>4. Keeps(db, e, n, x)
  <2> PICK d : d = db
    BY Zenon
  <2>2. Keeps(d, HookDb(r.cmd, d, n, x), n, x)
    BY Zenon, <1>1, HookKeeps DEF StringInv
  <2> QED BY Zenon, <2>2
<1>5. InUse(n, x)
  BY Zenon, <1>1 DEF InUse
<1>6. Strings(e)
  BY Zenon, <1>4, <1>5, StringsKept DEF Keeps, StringInv
<1>7. HookOf(r, n, x, e, u)
  BY Zenon, <1>1, <1>3, <1>4, <1>5, <1>6 DEF HookOf
<1> QED BY Zenon, <1>1, <1>7

\* A command is executed after its hook.
LEMMA ExecutedFacts ==
    ASSUME TableInv, NEW r, NEW n, NEW x, NEW e, NEW u, HookOf(r, n, x, e, u), Bounded(Hooked(r), r)
    PROVE  \E f, v, z : CallOf(r, n, x, e, u, f, v, z)
<1> USE DEF HookOf, InUse
<1>1. DataInv(e) /\ Cleared(e, n, x) /\ OnKeys(e) /\ Fits(e[Append(n, x)], n)
  BY Zenon DEF Keeps, DataInv, AllFit
<1>2. PICK q : q = Tagged(r)
  BY Zenon
<1>3. Bounded(Srv(e, NoTags, u, NULL), q)
  <2>1. q.keys = r.keys /\ q.cmd = r.cmd /\ q.cmd \in StringCommands
    BY Zenon, <1>2 DEF GoodRequest
  <2> QED BY Zenon, <2>1 DEF Bounded, StringCommands
<1>4. \E f, v, z :
        /\ call(Srv(e, NoTags, u, NULL), q) = Srv(f, NoTags, v, z)
        /\ Writes(e, u, f, v, n, x)
        /\ ReadOnly(q.cmd, z) => f = e
        /\ q.cmd = "set" => Append(n, x) \in v
  <2>1. PICK w : w = NULL
    BY Zenon
  <2>2. n \in NS /\ x \in Names /\ Registered(n) /\ GoodRequest(q, n, x) /\ Bounded(Srv(e, NoTags, u, w), q)
    BY Zenon, <1>2, <1>3, <2>1
  <2>3. PICK g : g = NoTags
    BY Zenon
  <2>4. \E f, v, z :
          /\ call(Srv(e, g, u, w), q) = Srv(f, g, v, z)
          /\ Writes(e, u, f, v, n, x)
          /\ ReadOnly(q.cmd, z) => f = e
          /\ q.cmd = "set" => Append(n, x) \in v
    BY <1>1, <2>2, <2>3, CallOne
  <2> QED BY Zenon, <2>1, <2>3, <2>4
<1>5. PICK f, v, z :
        /\ call(Srv(e, NoTags, u, NULL), q) = Srv(f, NoTags, v, z)
        /\ Writes(e, u, f, v, n, x)
        /\ ReadOnly(q.cmd, z) => f = e
        /\ q.cmd = "set" => Append(n, x) \in v
  BY Zenon, <1>4
<1>6. Executed(r) = Srv(f, NoTags, v, z)
  BY Zenon, <1>2, <1>5 DEF Executed
<1>7. DataInv(f)
  BY Zenon, <1>1, <1>5, WritesKeeps
<1>8. Strings(f)
  <2>1. Elsewhere(e, f, n, x)
    <3>1. CASE f = e
      BY Zenon, <3>1 DEF Elsewhere
    <3>2. CASE \E o : Fits(o, n) /\ f = At(e, Append(n, x), o)
      <4>1. OnlyAt(e, f, n, x)
        BY Zenon, <1>1, <3>2, WriteKeeps
      <4> QED BY Zenon, <4>1 DEF OnlyAt, Elsewhere
    <3> QED BY Zenon, <1>5, <3>1, <3>2 DEF Writes
  <2> QED BY Zenon, <2>1, StringsKept
<1> QED BY Zenon, <1>2, <1>5, <1>6, <1>7, <1>8 DEF CallOf

-----------------------------------------------------------------------------
(* MGET, MSET and DEL with two keys *)

\* A keyspace stays in order without some of its keys.
LEMMA DeletedKeeps ==
    ASSUME RegistryTypeOK, NEW d, NEW gone, DataInv(d)
    PROVE  /\ DataInv(Deleted(d, gone)) /\ (Strings(d) => Strings(Deleted(d, gone)))
           /\ \A k \in Key \ gone : Deleted(d, gone)[k] = d[k]
<1> PICK e : e = Deleted(d, gone)
  BY Zenon
<1>2. /\ OnKeys(e) /\ \A k \in Key : e[k] = NULL \/ e[k] = d[k]
      /\ \A k \in Key \ gone : e[k] = d[k]
  BY Zenon DEF Deleted, OnKeys
<1>3. \A n \in NS, x \in Names : e[Append(n, x)] = NULL \/ e[Append(n, x)] = d[Append(n, x)]
  BY Zenon, <1>2, IsKey
<1>4. AllFit(e)
  BY Zenon, <1>2, <1>3 DEF AllFit, DataInv, Fits
<1>5. OneName(e)
  <2> SUFFICES ASSUME NEW n \in NS, NEW x \in Names, prev_ns[n] # NULL
               PROVE  e[Append(n, x)] = NULL \/ e[Append(prev_ns[n], x)] = NULL
    BY Zenon DEF OneName
  <2>1. prev_ns[n] \in NS
    BY Zenon DEF RegistryTypeOK
  <2> QED BY Zenon, <1>3, <2>1 DEF DataInv, OneName
<1>6. Strings(d) => Strings(e)
  BY Zenon, <1>3 DEF Strings
<1> QED BY Zenon, <1>2, <1>4, <1>5, <1>6 DEF DataInv

\* What the programs ask for is of this kind.
LEMMA PairFacts ==
    ASSUME PlainNames, TableInv, OnlyStrings, NEW c \in Client, NEW ks, NEW r, AskedPair(c, ks, r)
    PROVE  \E n \in NS, x, y \in Names : PairOf(r, n, x, y)
<1>1. ks \in Key \X Key /\ ks[1] # ks[2] /\ Uses(c, ks[1]) /\ Uses(c, ks[2])
      /\ TypeOf(ks[1]) = "string" /\ TypeOf(ks[2]) = "string"
      /\ kvolve_version_hash_lookup(ks[1]) = kvolve_version_hash_lookup(ks[2])
  BY Zenon DEF AskedPair, KeyPairs
<1>2. PICK k \in Key, l \in Key : ks = <<k, l>>
  BY <1>1
<1>3. PICK n \in NS, x \in Names :
        /\ k = Append(n, x) /\ kvolve_version_hash_lookup(k) = n
        /\ Registered(n) /\ next_ns[n] = NULL /\ declared[c][n] = Latest(n)
  BY Zenon, <1>1, <1>2, UsesFacts
<1>4. PICK m \in NS, y \in Names : l = Append(m, y) /\ kvolve_version_hash_lookup(l) = m
  BY Zenon, <1>1, <1>2, UsesFacts
<1>5. m = n /\ x # y
  BY Zenon, <1>1, <1>2, <1>3, <1>4
<1>6. k[Len(k)] = x /\ l[Len(l)] = y
  BY Zenon, <1>3, <1>4, KeyFacts
<1>7. type[x] = "string" /\ type[y] = "string"
  BY Zenon, <1>1, <1>2, <1>6 DEF TypeOf
<1>8. PICK cmd, bs : /\ cmd \in {"mget", "mset", "mdel"} /\ r = Request(cmd, ks, bs, NULL)
                     /\ cmd = "mset" => bs \in Written(c, ks[1]) \X Written(c, ks[2])
  BY Zenon DEF AskedPair
<1>9. r.cmd = cmd /\ r.keys = ks /\ r.args = bs
  BY Zenon, <1>8 DEF Request
<1>10. ASSUME cmd = "mset" PROVE DOMAIN bs = {1, 2} /\ ArgFits(bs[1], n) /\ ArgFits(bs[2], n)
  <2>1. PICK a \in Written(c, k), b \in Written(c, l) : bs = <<a, b>>
    BY <1>2, <1>8, <1>10
  <2>2. ArgFits(a, n) /\ ArgFits(b, n)
    BY Zenon, <1>3, <1>4, <1>5 DEF Written, ArgFits, Datum
  <2> QED BY <2>1, <2>2
<1>11. InUse(n, x) /\ InUse(n, y)
  BY Zenon, <1>3, <1>7 DEF InUse
<1>12. r.keys = <<Append(n, x), Append(n, y)>>
  BY Zenon, <1>2, <1>3, <1>4, <1>5, <1>9
<1>13. PairOf(r, n, x, y)
  BY Zenon, <1>5, <1>8, <1>9, <1>10, <1>11, <1>12 DEF PairOf
<1> QED BY Zenon, <1>13

\* kvolve_process_command for two keys: the hook for each.
LEMMA PairHook ==
    ASSUME Counting, PlainNames, TableInv, NEW d, NEW w, NEW q, NEW r, NEW n \in NS, NEW x \in Names, NEW y \in Names,
           DataInv(d), PairOf(r, n, x, y)
    PROVE  \E e, u :
             /\ kvolve_process_command(Srv(d, NoTags, w, q), r) =
                  Srv(HookDb(r.cmd, e, n, y), NoTags, HookTouched(r.cmd, e, u, n, y), q)
             /\ e = HookDb(r.cmd, d, n, x) /\ u = HookTouched(r.cmd, d, w, n, x)
             /\ Keeps(d, e, n, x) /\ Keeps(e, HookDb(r.cmd, e, n, y), n, y)
<1>1. PICK k, l, s : k = Append(n, x) /\ l = Append(n, y) /\ s = Srv(d, NoTags, w, q)
  BY Zenon
<1>2. /\ Registered(n) /\ next_ns[n] = NULL /\ r.keys = <<k, l>> /\ r.keys[1] = k
      /\ r.cmd \in {"mget", "mset", "mdel"}
  BY <1>1 DEF PairOf, InUse
<1>3. kvolve_version_hash_lookup(k) = n /\ n # NULL
  BY Zenon, <1>1, <1>2, LookupFacts, RegistryAssumption
<1>4. kvolve_process_command(s, r) = kvolve_commands(s, r)
  BY Zenon, <1>1, <1>2, <1>3, PrevcallNothing DEF kvolve_process_command, AllFit, DataInv
<1>5. kvolve_commands(s, r) = EachKey(r.cmd, s, <<k, l>>, n)
  BY Zenon, <1>2, <1>3 DEF kvolve_commands
<1>6. kvolve_commands(s, r) = OnKey(r.cmd, OnKey(r.cmd, s, k, n), l, n)
  BY <1>5, LoopTwo
<1>7. PICK e, u : e = HookDb(r.cmd, d, n, x) /\ u = HookTouched(r.cmd, d, w, n, x)
  BY Zenon
<1>8. r.cmd \in Updating \cup Setting \cup {"del", "mdel"}
  BY Zenon, <1>2 DEF Updating, Setting
<1>9. OnKey(r.cmd, s, k, n) = Srv(e, NoTags, u, q)
  <2>1. PICK cmd, t : cmd = r.cmd /\ t = NoTags
    BY Zenon
  <2>2. AllFit(d) /\ cmd \in Updating \cup Setting \cup {"del", "mdel"}
    BY Zenon, <1>8, <2>1 DEF DataInv
  <2>3. OnKey(cmd, Srv(d, t, w, q), Append(n, x), n) =
          Srv(HookDb(cmd, d, n, x), t, HookTouched(cmd, d, w, n, x), q)
    BY <2>2, OnKeyFacts
  <2> QED BY Zenon, <1>1, <1>7, <2>1, <2>3
<1>10. Keeps(d, e, n, x)
  BY Zenon, <1>2, <1>7, HookKeeps
<1>11. OnKey(r.cmd, Srv(e, NoTags, u, q), l, n) =
         Srv(HookDb(r.cmd, e, n, y), NoTags, HookTouched(r.cmd, e, u, n, y), q)
  <2>1. PICK cmd, t : cmd = r.cmd /\ t = NoTags
    BY Zenon
  <2>2. AllFit(e) /\ cmd \in Updating \cup Setting \cup {"del", "mdel"}
    BY Zenon, <1>8, <1>10, <2>1 DEF Keeps, DataInv
  <2>3. OnKey(cmd, Srv(e, t, u, q), Append(n, y), n) =
          Srv(HookDb(cmd, e, n, y), t, HookTouched(cmd, e, u, n, y), q)
    BY <2>2, OnKeyFacts
  <2> QED BY Zenon, <1>1, <2>1, <2>3
<1>12. Keeps(e, HookDb(r.cmd, e, n, y), n, y)
  BY Zenon, <1>2, <1>10, HookKeeps DEF Keeps
<1> QED BY Zenon, <1>1, <1>4, <1>6, <1>7, <1>9, <1>10, <1>11, <1>12

\* Nothing is left under the name before of either key.
LEMMA PairCleared ==
    ASSUME TableInv, NEW d, NEW e, NEW f, NEW n \in NS, NEW x \in Names, NEW y \in Names, x # y,
           Keeps(d, e, n, x), Keeps(e, f, n, y)
    PROVE  DataInv(f) /\ Cleared(f, n, x) /\ Cleared(f, n, y)
<1>1. prev_ns[n] # NULL => prev_ns[n] \in NS
  BY Zenon DEF TableInv, RegistryTypeOK
<1>2. prev_ns[n] # NULL => f[Append(prev_ns[n], x)] = e[Append(prev_ns[n], x)]
  BY Zenon, <1>1 DEF Keeps, Elsewhere
<1> QED BY Zenon, <1>2 DEF Keeps, Cleared

\* MSET writes what fits under both keys.
LEMMA PairWritten ==
    ASSUME TableInv, NEW d, NEW o, NEW p, NEW n \in NS, NEW x \in Names, NEW y \in Names, x # y,
           InUse(n, x), InUse(n, y), Fits(o, n), Fits(p, n),
           DataInv(d), Cleared(d, n, x), Cleared(d, n, y)
    PROVE  /\ DataInv(At(At(d, Append(n, x), o), Append(n, y), p))
           /\ Strings(d) => Strings(At(At(d, Append(n, x), o), Append(n, y), p))
<1> PICK e, f : e = At(d, Append(n, x), o) /\ f = At(e, Append(n, y), p)
  BY Zenon
<1>2. DataInv(e) /\ OnlyAt(d, e, n, x)
  BY Zenon, WriteKeeps DEF InUse
<1>3. Cleared(e, n, y)
  <2>1. prev_ns[n] # NULL => prev_ns[n] \in NS
    BY Zenon DEF TableInv, RegistryTypeOK
  <2> QED BY Zenon, <1>2, <2>1 DEF Cleared, OnlyAt
<1>4. DataInv(f) /\ OnlyAt(e, f, n, y)
  BY Zenon, <1>2, <1>3, WriteKeeps DEF InUse
<1>5. Strings(d) => Strings(f)
  BY <1>2, <1>4 DEF Strings, InUse, OnlyAt
<1> QED BY Zenon, <1>4, <1>5

\* The command with two keys, after its hook.
LEMMA CallPair ==
    ASSUME PlainNames, TableInv, NEW d, NEW t, NEW w, NEW q, NEW r, DataInv(d), Strings(d),
           \E n \in NS, x \in Names, y \in Names :
               PairOf(r, n, x, y) /\ Cleared(d, n, x) /\ Cleared(d, n, y)
    PROVE  \E e, u, z :
             /\ call(Srv(d, t, w, q), Tagged(r)) = Srv(e, t, u, z)
             /\ DataInv(e) /\ Strings(e)
             /\ ReadOnly(r.cmd, z) => e = d
<1>0. PICK n \in NS, x \in Names, y \in Names :
             PairOf(r, n, x, y) /\ Cleared(d, n, x) /\ Cleared(d, n, y)
  BY Zenon
<1>1. PICK k, l, s : k = Append(n, x) /\ l = Append(n, y) /\ s = Srv(d, t, w, q)
  BY Zenon
<1>2. r.keys = <<k, l>> /\ r.cmd \in {"mget", "mset", "mdel"} /\ r.keys[1] = k /\ InUse(n, x) /\ InUse(n, y)
      /\ x # y
  <2>1. r.keys = <<k, l>> /\ r.cmd \in {"mget", "mset", "mdel"} /\ InUse(n, x) /\ InUse(n, y) /\ x # y
    BY Zenon, <1>0, <1>1 DEF PairOf
  <2> QED BY <2>1
<1>3. OnKeys(d) /\ RegistryTypeOK
  BY Zenon DEF DataInv, AllFit, TableInv
<1>4. CASE r.cmd = "mget"
  <2>1. Tagged(r) = r
    BY Zenon, <1>4 DEF Tagged
  <2>2. PICK z : call(s, r) = Reply(s, z)
    BY Zenon, <1>4 DEF call, mgetCommand
  <2>3. call(s, Tagged(r)) = Srv(d, t, w, z)
    BY <1>1, <2>1, <2>2, ReplyFacts
  <2> QED BY Zenon, <1>1, <2>3
<1>5. CASE r.cmd = "mdel"
  <2>1. Tagged(r) = r
    BY Zenon, <1>5 DEF Tagged
  <2>2. call(s, r) = delCommand(s, r.keys)
    BY Zenon, <1>5 DEF call
  <2>3. PICK ks, gone : ks = r.keys /\ gone = Gone(d, ks)
    BY Zenon
  <2>4. \E z : delCommand(s, ks) = Srv(Deleted(d, gone), t, Joined(w, gone), z)
    BY <1>1, <1>3, <2>3, DelFacts
  <2>5. PICK z : call(s, Tagged(r)) = Srv(Deleted(d, gone), t, Joined(w, gone), z)
    BY Zenon, <2>1, <2>2, <2>3, <2>4
  <2>6. DataInv(Deleted(d, gone)) /\ Strings(Deleted(d, gone))
    BY Zenon, <1>3, DeletedKeeps
  <2>7. ~ReadOnly(r.cmd, z)
    BY Zenon, <1>5 DEF ReadOnly
  <2> QED BY Zenon, <1>1, <2>5, <2>6, <2>7
<1>6. CASE r.cmd = "mset"
  <2>1. kvolve_version_hash_lookup(k) = n
    BY Zenon, <1>1, <1>2, LookupFacts DEF InUse
  <2>2. PICK g : g = Tagged(r)
    BY Zenon
  <2>3. g.cmd = r.cmd /\ g.keys = r.keys /\ g.args = r.args /\ g.tag = Latest(n)
    BY Zenon, <1>0, <1>2, <1>6, <2>1, <2>2 DEF Tagged, PairOf, Request
  <2>4. PICK os : os = [i \in DOMAIN g.args |-> tryObjectEncoding(g.args[i], g.tag)]
    BY Zenon
  <2>5. call(s, g) = msetGenericCommand(s, <<k, l>>, os)
    BY Zenon, <1>2, <1>6, <2>3, <2>4 DEF call
  <2>6. DOMAIN g.args = {1, 2} /\ ArgFits(g.args[1], n) /\ ArgFits(g.args[2], n)
    BY Zenon, <1>0, <1>6, <2>3 DEF PairOf
  <2>7. os[1] = tryObjectEncoding(g.args[1], Latest(n)) /\ os[2] = tryObjectEncoding(g.args[2], Latest(n))
    BY Zenon, <2>3, <2>4, <2>6
  <2>8. Fits(os[1], n) /\ Fits(os[2], n)
    BY Zenon, <1>2, <2>6, <2>7, EncodingFits DEF InUse
  <2>9. k \in Key /\ l \in Key /\ k # l
    BY Zenon, <1>1, <1>2, IsKey, KeysDiffer
  <2>10. PICK z : call(s, g) = Srv(At(At(d, k, os[1]), l, os[2]), t, Plus(Plus(w, k), l), z)
    <3>1. \E z : msetGenericCommand(Srv(d, t, w, q), <<k, l>>, os) =
                   Srv(At(At(d, k, os[1]), l, os[2]), t, Plus(Plus(w, k), l), z)
      BY <1>3, <2>9, MsetFacts
    <3> QED BY Zenon, <1>1, <2>5, <3>1
  <2>11. PICK o, p : o = os[1] /\ p = os[2]
    BY Zenon
  <2>12. DataInv(At(At(d, k, o), l, p)) /\ Strings(At(At(d, k, o), l, p))
    BY Zenon, <1>0, <1>1, <1>2, <2>8, <2>11, PairWritten
  <2>13. ~ReadOnly(r.cmd, z)
    BY Zenon, <1>6 DEF ReadOnly
  <2> QED BY Zenon, <1>1, <2>2, <2>10, <2>11, <2>12, <2>13
<1> QED BY Zenon, <1>2, <1>4, <1>5, <1>6

-----------------------------------------------------------------------------
(* What a command comes to *)

\* A command with one key.
LEMMA CommandOutcome ==
    ASSUME Counting, PlainNames, Tagging, StringInv, NEW c \in Client, NEW k, NEW r, Asked(c, k, r),
           Bounded(Hooked(r), r)
    PROVE  Outcome(Executed(r), r.cmd)
<1>0. PICK n \in NS, x \in Names : \E e, u : HookOf(r, n, x, e, u)
  BY Zenon, HookedFacts
<1>1. PICK e, u : HookOf(r, n, x, e, u)
  BY Zenon, <1>0
<1>2. PICK f, v, z : CallOf(r, n, x, e, u, f, v, z)
  BY Zenon, <1>1, ExecutedFacts DEF StringInv
<1> PICK d, cmd : d = db /\ cmd = r.cmd
  BY Zenon
<1>4. cmd \notin Setting => SameData(d, e)
  <2>1. e = HookDb(cmd, d, n, x) /\ next_ns[n] = NULL /\ DataInv(d) /\ TableInv
    BY Zenon, <1>1 DEF HookOf, InUse, StringInv
  <2> QED BY Zenon, <2>1, HookSame
<1>5. ReadOnly(cmd, z) => cmd \notin Setting
  BY Zenon DEF ReadOnly, Setting
<1> QED BY Zenon, <1>2, <1>4, <1>5 DEF CallOf, Outcome

\* A command that is turned down after its hook.
LEMMA RejectedOutcome ==
    ASSUME Counting, PlainNames, Tagging, StringInv, NEW c \in Client, NEW k, NEW r, Asked(c, k, r)
    PROVE  \E e, u : Hooked(r) = Srv(e, NoTags, u, NULL) /\ DataInv(e) /\ Strings(e)
BY Zenon, HookedFacts DEF HookOf, Keeps

\* A command with two keys.
LEMMA PairOutcome ==
    ASSUME Counting, PlainNames, StringInv, NEW c \in Client, NEW ks, NEW r, AskedPair(c, ks, r)
    PROVE  Outcome(Executed(r), r.cmd)
<1>1. PICK n \in NS, x \in Names, y \in Names : PairOf(r, n, x, y)
  BY Zenon, PairFacts DEF StringInv
<1> PICK d, w, q, cmd : d = db /\ w = {} /\ q = NULL /\ cmd = r.cmd
  BY Zenon
<1>3. TableInv /\ DataInv(d) /\ Strings(d)
  BY Zenon DEF StringInv
<1>4. \E e, u :
        /\ kvolve_process_command(Srv(d, NoTags, w, q), r) =
             Srv(HookDb(r.cmd, e, n, y), NoTags, HookTouched(r.cmd, e, u, n, y), q)
        /\ e = HookDb(r.cmd, d, n, x) /\ u = HookTouched(r.cmd, d, w, n, x)
        /\ Keeps(d, e, n, x) /\ Keeps(e, HookDb(r.cmd, e, n, y), n, y)
  BY <1>1, <1>3, PairHook
<1>5. PICK e, g, u :
        /\ Hooked(r) = Srv(g, NoTags, u, q)
        /\ e = HookDb(cmd, d, n, x) /\ g = HookDb(cmd, e, n, y)
        /\ Keeps(d, e, n, x) /\ Keeps(e, g, n, y)
  BY Zenon, <1>4, ServerIs DEF Hooked, StringInv
<1>6. DataInv(g) /\ Cleared(g, n, x) /\ Cleared(g, n, y)
  BY Zenon, <1>1, <1>3, <1>5, PairCleared DEF PairOf
<1>7. InUse(n, x) /\ InUse(n, y) /\ DataInv(e)
  BY Zenon, <1>1, <1>5 DEF PairOf, Keeps
<1>8. Strings(g)
  <2>1. Strings(e)
    BY Zenon, <1>3, <1>5, <1>7, StringsKept DEF Keeps
  <2> QED BY Zenon, <1>5, <1>7, <2>1, StringsKept DEF Keeps
<1> PICK t : t = NoTags
  BY Zenon
<1>10. \E f, v, z : /\ call(Srv(g, t, u, q), Tagged(r)) = Srv(f, t, v, z)
                    /\ DataInv(f) /\ Strings(f)
                    /\ ReadOnly(r.cmd, z) => f = g
  BY <1>1, <1>3, <1>6, <1>8, CallPair
<1>11. PICK f, v, z : /\ Executed(r) = Srv(f, NoTags, v, z)
                      /\ DataInv(f) /\ Strings(f)
                      /\ ReadOnly(cmd, z) => f = g
  BY <1>5, <1>10 DEF Executed
<1>12. cmd \notin Setting => SameData(d, g)
  <2>1. next_ns[n] = NULL
    BY Zenon, <1>7 DEF InUse
  <2>2. cmd \notin Setting => SameData(d, e)
    BY Zenon, <1>3, <1>5, <2>1, HookSame
  <2>3. cmd \notin Setting => SameData(e, g)
    BY Zenon, <1>3, <1>5, <1>7, <2>1, HookSame
  <2> QED BY Zenon, <2>2, <2>3 DEF SameData
<1>13. ReadOnly(cmd, z) => cmd \notin Setting
  BY Zenon DEF ReadOnly, Setting
<1> QED BY Zenon, <1>11, <1>12, <1>13 DEF Outcome

-----------------------------------------------------------------------------
(* KEYS *)

\* A change under the names x of n and of the namespace before leaves nothing under
\* the old names of others, and hooks leave nothing under that of n.
LEMMA ClearedKept ==
    ASSUME TableInv, NEW d, NEW e, NEW n \in NS, NEW x \in Names, next_ns[n] = NULL,
           Elsewhere(d, e, n, x), Cleared(e, n, x)
    PROVE  StaysCleared(d, e)
<1> SUFFICES ASSUME NEW m \in NS, NEW y \in Names, next_ns[m] = NULL, Cleared(d, m, y),
                    m # n \/ y # x, prev_ns[m] # NULL
             PROVE  e[Append(prev_ns[m], y)] = NULL
  BY Zenon DEF StaysCleared, Cleared
<1>1. PICK p \in NS : p = prev_ns[m]
  BY Zenon DEF TableInv, RegistryTypeOK
<1>2. next_ns[p] = m /\ m # NULL
  BY Zenon, <1>1, RegistryAssumption DEF TableInv, DocHistory, LinksOf
<1>3. prev_ns[n] # NULL => next_ns[prev_ns[n]] = n
  BY Zenon DEF TableInv, DocHistory, LinksOf
<1>4. y # x \/ (p # n /\ p # prev_ns[n])
  BY Zenon, <1>1, <1>2, <1>3
<1>5. e[Append(p, y)] = d[Append(p, y)]
  BY Zenon, <1>4 DEF Elsewhere
<1> QED BY Zenon, <1>1, <1>5 DEF Cleared

\* A move of a string keeps strings.
LEMMA MovedStrings ==
    ASSUME TableInv, NEW d, NEW n \in NS, NEW x \in Names, DataInv(d), Strings(d), next_ns[n] = NULL
    PROVE  Strings(Moved(d, n, x))
<1>1. CASE ~ToMove(d, n, x)
  BY Zenon, <1>1 DEF Moved
<1>2. CASE ToMove(d, n, x)
  <2> PICK e : e = Moved(d, n, x)
    BY Zenon
  <2>2. prev_ns[n] \in NS
    BY Zenon, <1>2 DEF ToMove, TableInv, RegistryTypeOK
  <2>3. type[x] = "string"
    BY Zenon, <1>2, <2>2 DEF ToMove, Strings
  <2>4. Elsewhere(d, e, n, x)
    BY Zenon, MovedKeeps DEF Keeps
  <2> QED BY Zenon, <2>3, <2>4 DEF Strings, Elsewhere
<1> QED BY Zenon, <1>1, <1>2

\* One round.
LEMMA RenameRound ==
    ASSUME PlainNames, TableInv, NEW d, NEW e, NEW t, NEW w, NEW q, NEW n \in NS, NEW y \in Names,
           Registered(n), prev_ns[n] # NULL, next_ns[n] = NULL, Tidied(d, e)
    PROVE  \E f, u : Rename(Srv(e, t, w, q), Append(n, y)) = Srv(f, t, u, q) /\ Tidied(d, f)
<1>1. kvolve_version_hash_lookup(Append(n, y)) = n
  BY Zenon, LookupFacts
<1>2. Rename(Srv(e, t, w, q), Append(n, y)) = Srv(Moved(e, n, y), t, Touched(e, w, n, y), q)
  BY <1>1, NamespaceUpdate DEF Rename, MovedServer, TableInv
<1>3. PICK f : f = Moved(e, n, y)
  BY Zenon
<1>4. DataInv(e) /\ Strings(e) /\ SameData(d, e) /\ StaysCleared(d, e)
  BY Zenon DEF Tidied
<1>5. Keeps(e, f, n, y) /\ Strings(f) /\ SameData(e, f)
  BY Zenon, <1>3, <1>4, MovedKeeps, MovedStrings, MovedSame
<1>6. StaysCleared(e, f)
  BY Zenon, <1>5, ClearedKept DEF Keeps
<1>7. Tidied(d, f)
  BY Zenon, <1>4, <1>5, <1>6 DEF Tidied, SameData, StaysCleared, Keeps
<1> QED BY Zenon, <1>2, <1>3, <1>7

\* kvolve_keys, for a namespace that has not been renamed.
LEMMA KeysHook ==
    ASSUME Counting, AllOrdered, PlainNames, TableInv, NEW d, NEW w, NEW q, NEW n \in NS, Registered(n),
           next_ns[n] = NULL, DataInv(d), Strings(d)
    PROVE  \E e, u : kvolve_keys(Srv(d, NoTags, w, q), n) = Srv(e, NoTags, u, q) /\ Tidied(d, e)
<1> PICK s : s = Srv(d, NoTags, w, q)
  BY Zenon
<1> DEFINE entry(k) == kvolve_version_hash_lookup(k)
           renamed == {o \in Key : s.db[o] # NULL /\ entry(o) # NULL /\ next_ns[entry(o)] # NULL}
           new(o) == kvolve_construct_prev_name(o, next_ns[entry(o)])
           S == {new(o) : o \in renamed} \cap Matches(n)
           es == InOrder(S)
           N == Cardinality(S)
           E(f) == [i \in 0..Len(es) |-> IF i = 0 THEN s ELSE Rename(f[i - 1], es[i])]
           after == CHOOSE f : f = E(f)
<1>2. kvolve_keys(s, n) = after[Len(es)]
  BY Zenon DEF kvolve_keys, Loop, Rename
<1>3. S \in SUBSET Key
  BY Zenon DEF Matches
<1>4. ASSUME NEW k \in S PROVE prev_ns[n] # NULL /\ \E y \in Names : k = Append(n, y)
  <2>1. PICK y \in Names : k = Append(n, y)
    BY Zenon, <1>4, MatchesFacts
  <2>2. PICK o \in renamed : k = new(o)
    BY Zenon, <1>4
  <2>3. PICK m \in NS, x \in Names : o = Append(m, x)
    BY <2>2 DEF Key
  <2>4. entry(o) = m /\ next_ns[m] # NULL
    <3>1. entry(o) = IF Registered(m) THEN m ELSE NULL
      BY Zenon, <2>3, LookupFacts
    <3>2. entry(o) # NULL /\ next_ns[entry(o)] # NULL
      BY Zenon, <2>2
    <3> QED BY Zenon, <3>1, <3>2
  <2>5. next_ns[m] \in NS /\ prev_ns[next_ns[m]] = m /\ m # NULL
    BY <2>4, RegistryAssumption DEF TableInv, RegistryTypeOK, DocHistory, LinksOf
  <2>6. k = Append(next_ns[m], x)
    <3>1. \A z : kvolve_construct_prev_name(Append(m, x), z) = Append(z, x)
      BY Zenon, KeyFacts
    <3> QED BY Zenon, <2>2, <2>3, <2>4, <3>1
  <2>7. next_ns[m] = n
    <3>1. PICK l \in NS : l = next_ns[m]
      BY Zenon, <2>5
    <3>2. Append(n, y) = Append(l, x)
      BY Zenon, <2>1, <2>6, <3>1
    <3> QED BY Zenon, <3>1, <3>2, KeyInjective
  <2> QED BY Zenon, <2>1, <2>5, <2>7
<1> HIDE DEF S
<1>5. N \in Nat /\ es \in [1..N -> S] /\ Len(es) = N
  BY Zenon, <1>3 DEF AllOrdered, Ordered
<1> HIDE DEF es, N
<1>6. after = E(after)
  <2>1. \E W : RenameRun(W, s, es, N)
    BY Zenon, <1>5, RenameLoop
  <2>2. \E W : W = E(W)
    BY Zenon, <1>5, <2>1 DEF RenameRun
  <2> HIDE DEF E
  <2> QED BY Zenon, <2>2
<1> HIDE DEF after
<1>7. after[0] = s /\ \A i \in 1..N : after[i] = Rename(after[i - 1], es[i])
  <2>1. after = [i \in 0..N |-> IF i = 0 THEN s ELSE Rename(after[i - 1], es[i])]
    BY Zenon, <1>5, <1>6
  <2>2. 0 \in 0..N /\ \A i \in 1..N : i \in 0..N /\ i # 0
    BY <1>5
  <2>3. ASSUME NEW f, f = [i \in 0..N |-> IF i = 0 THEN s ELSE Rename(after[i - 1], es[i])]
        PROVE  f[0] = s /\ \A i \in 1..N : f[i] = Rename(after[i - 1], es[i])
    BY Zenon, <2>2, <2>3
  <2> QED BY Zenon, <2>1, <2>3
<1> HIDE DEF E
<1> DEFINE Good(r) == \E e, u : r = Srv(e, NoTags, u, q) /\ Tidied(d, e)
           T == {i \in 0..N : Good(after[i])}
<1>8. 0 \in T
  <2>1. Tidied(d, d)
    BY Zenon DEF Tidied, SameData, StaysCleared
  <2>2. Good(s)
    BY Zenon, <2>1
  <2> HIDE DEF Good
  <2> QED BY <1>5, <1>7, <2>2
<1>9. ASSUME NEW i \in 1..N, i - 1 \in T PROVE i \in T
  <2>1. es[i] \in S
    BY Zenon, <1>5
  <2>2. PICK y \in Names : es[i] = Append(n, y)
    BY Zenon, <1>4, <2>1
  <2>3. PICK e, u : after[i - 1] = Srv(e, NoTags, u, q) /\ Tidied(d, e)
    BY Zenon, <1>9
  <2> PICK t : t = NoTags
    BY Zenon
  <2>5. prev_ns[n] # NULL /\ Tidied(d, e)
    BY Zenon, <1>4, <2>1, <2>3
  <2>6. \E f, v : Rename(Srv(e, t, u, q), Append(n, y)) = Srv(f, t, v, q) /\ Tidied(d, f)
    BY <2>5, RenameRound
  <2>7. Good(after[i])
    BY Zenon, <1>7, <2>2, <2>3, <2>6
  <2> HIDE DEF Good
  <2> QED BY <1>5, <2>7
<1> HIDE DEF T, Good
<1>10. N \in T
  <2>1. 0..N \subseteq T
    BY Zenon, <1>5, <1>8, <1>9, Rounds
  <2> QED BY <1>5, <2>1
<1>11. Good(after[N])
  BY Zenon, <1>10 DEF T
<1> QED BY Zenon, <1>2, <1>5, <1>11 DEF Good

-----------------------------------------------------------------------------
(* Steps of KVolve keep the data in order *)

\* KEYS.
LEMMA KeysOutcome ==
    ASSUME Counting, PlainNames, StringInv, NEW c \in Client, NEW n \in NS,
           conn[c] = "open", declared[c][n] # NULL, AllOrdered
    PROVE  \E f, v, z : Listed(n) = Srv(f, NoTags, v, z) /\ Tidied(db, f)
<1>1. PICK d, w, q : d = db /\ w = {} /\ q = NULL
  BY Zenon
<1>2. TableInv /\ DataInv(d) /\ Strings(d) /\ Settled = Srv(d, NoTags, w, q)
  BY Zenon, <1>1, SettledIs DEF StringInv
<1>3. next_ns[n] = NULL /\ Registered(n)
  BY Zenon, <1>2 DEF TableInv, NoStaleClient, Stale, TableConsistent
<1>4. \E e, u : kvolve_keys(Srv(d, NoTags, w, q), n) = Srv(e, NoTags, u, q) /\ Tidied(d, e)
  BY <1>2, <1>3, KeysHook
<1>5. PICK e, u : kvolve_keys(Settled, n) = Srv(e, NoTags, u, q) /\ Tidied(d, e)
  BY Zenon, <1>2, <1>4
<1>6. PICK t, z : t = NoTags /\ Listed(n) = Reply(Srv(e, t, u, q), z)
  BY Zenon, <1>5 DEF Listed, keysCommand
<1>7. Listed(n) = Srv(e, NoTags, u, z)
  BY <1>6, ReplyFacts
<1> QED BY Zenon, <1>1, <1>5, <1>7

\* Commands keep the data in order.
LEMMA StringInvData ==
    ASSUME Counting, PlainNames, Tagging, StringInv, NEW c \in Client, DataStep(c), UNCHANGED registryVars,
           TableInv', AllOrdered
    PROVE  StringInv'
<1>1. ASSUME NEW e, NEW v, NEW z, DataInv(e), Strings(e), Becomes(Srv(e, NoTags, v, z))
      PROVE  StringInv'
  <2>1. db' = e /\ tmp_store' = NoTags /\ type' = type
    BY <1>1, ServerFacts DEF Becomes
  <2>2. DataInv(db)' /\ Strings(db)'
    BY Zenon, <1>1, <2>1, DataFrame
  <2> QED BY Zenon, <2>1, <2>2 DEF StringInv, OnlyStrings, NoTags
<1>2. ASSUME NEW k, NEW r, Asked(c, k, r), processCommand(r) PROVE StringInv'
  BY <1>1, <1>2, CommandOutcome DEF Outcome, processCommand
<1>3. ASSUME NEW k, NEW r, Asked(c, k, r), processCommand_rejects(r) PROVE StringInv'
  BY Zenon, <1>1, <1>3, RejectedOutcome DEF processCommand_rejects
<1>4. ASSUME NEW ks, NEW r, AskedPair(c, ks, r), processCommand(r) PROVE StringInv'
  BY Zenon, <1>1, <1>4, PairOutcome DEF Outcome, processCommand
<1>5. ASSUME NEW n \in NS, keys(c, n) PROVE StringInv'
  <2>1. Becomes(Listed(n)) /\ conn[c] = "open" /\ declared[c][n] # NULL
    BY Zenon, <1>5 DEF keys
  <2> QED BY Zenon, <1>1, <2>1, KeysOutcome DEF Tidied
<1>6. CASE OneKey(c, processCommand)
  BY Zenon, <1>2, <1>6 DEF OneKey, Asked
<1>7. CASE OneKey(c, processCommand_rejects)
  BY Zenon, <1>3, <1>7 DEF OneKey, Asked
<1>8. CASE TwoKeys(c, processCommand)
  BY Zenon, <1>4, <1>8 DEF TwoKeys, AskedPair
<1> QED BY Zenon, <1>5, <1>6, <1>7, <1>8 DEF DataStep

-----------------------------------------------------------------------------
(* Reads *)

\* A key of a namespace in the table is found to be of it, after a step as before.
LEMMA LookupNext ==
    (PlainNames =>
        \A n \in NS, x \in Names : Registered(n) => kvolve_version_hash_lookup(Append(n, x)) = n)'
<1>1. PlainNames =>
        \A n \in NS, x \in Names : Registered(n) => kvolve_version_hash_lookup(Append(n, x)) = n
  BY Zenon, LookupFacts
<1> QED BY <1>1, PTL

\* The item of a key depends on the registry alone.
LEMMA ItemNext == ASSUME UNCHANGED registryVars, NEW k PROVE ItemOf(k)' = ItemOf(k)
BY DEF registryVars, ItemOf, Root, Lineage, kvolve_version_hash_lookup, Registered

\* What is stored after a command.
LEMMA StoredNext ==
    ASSUME NEW f, db' = f, UNCHANGED registryVars, NEW i \in Item
    PROVE  Stored(i)' = StoredIn(f, i)
<1>1. {l \in Used : ItemOf(l) = i}' = KeysOf(f, i)
  BY Zenon, ItemNext DEF Used, KeysOf
<1> QED BY Zenon, <1>1 DEF Stored, StoredIn

\* What is stored after a command that leaves the data as it is.
LEMMA StoredSame ==
    ASSUME NEW f, db' = f, SameData(db, f), UNCHANGED registryVars, NEW i \in Item
    PROVE  Stored(i)' = Stored(i)
BY Zenon, StoredNext, StoredFacts DEF SameData

\* The reply to one command names it.
LEMMA AnswerFacts ==
    ASSUME NEW cmd, NEW ks, NEW bs, NEW at, NEW res, Answer(<<Request(cmd, ks, bs, at)>>, TRUE, <<res>>)
    PROVE  /\ DOMAIN reply'.reqs = {1} /\ reply'.reqs[1].cmd = cmd /\ reply'.res[1] = res
           /\ (\A n \in DOMAIN reply'.reqs : ReadOnly(reply'.reqs[n].cmd, reply'.res[n])) => ReadOnly(cmd, res)
<1> PICK r : r = Request(cmd, ks, bs, at)
  BY Zenon
<1>2. OnItems(r).cmd = cmd
  BY Zenon DEF OnItems, Request
<1>3. DOMAIN <<r>> = {1} /\ <<r>>[1] = r /\ <<res>>[1] = res
  OBVIOUS
<1>4. reply'.reqs = [n \in DOMAIN <<r>> |-> OnItems(<<r>>[n])] /\ reply'.res = <<res>>
  BY Zenon DEF Answer
<1>5. DOMAIN reply'.reqs = {1} /\ reply'.reqs[1] = OnItems(r)
  BY Zenon, <1>3, <1>4
<1> QED BY <1>2, <1>3, <1>4, <1>5

\* The commands of KvolveData, without transactions, do so.
LEMMA ReadStepData ==
    ASSUME Counting, PlainNames, Tagging, StringInv, NEW c \in Client, DataStep(c), UNCHANGED registryVars,
           AllOrdered
    PROVE  ReadStep
<1>1. ASSUME NEW s, NEW cmd, NEW ks, NEW bs, NEW at, NEW f, NEW v, NEW z,
             s = Srv(f, NoTags, v, z), ReadOnly(cmd, z) => SameData(db, f),
             Becomes(s), Answer(<<Request(cmd, ks, bs, at)>>, TRUE, <<s.res>>)
      PROVE  ReadStep
  <2>1. db' = f /\ s.res = z
    BY <1>1, ServerFacts DEF Becomes
  <2>2. (\A n \in DOMAIN reply'.reqs : ReadOnly(reply'.reqs[n].cmd, reply'.res[n])) => ReadOnly(cmd, z)
    BY Zenon, <1>1, <2>1, AnswerFacts
  <2> QED BY Zenon, <1>1, <2>1, <2>2, StoredSame DEF ReadStep
<1>2. ASSUME NEW k, NEW r, Asked(c, k, r), processCommand(r) PROVE ReadStep
  <2>1. PICK cmd, bs, at : r = Request(cmd, <<k>>, bs, at)
    BY Zenon, <1>2 DEF Asked
  <2>2. r.cmd = cmd
    BY Zenon, <2>1 DEF Request
  <2>3. /\ Outcome(Executed(r), r.cmd) /\ Becomes(Executed(r))
        /\ Answer(<<r>>, TRUE, <<Executed(r).res>>)
    BY Zenon, <1>2, CommandOutcome DEF processCommand
  <2> QED BY Zenon, <1>1, <2>1, <2>2, <2>3 DEF Outcome
<1>3. ASSUME NEW r, processCommand_rejects(r) PROVE ReadStep
  BY Zenon, <1>3 DEF processCommand_rejects, Answer, ReadStep
<1>4. ASSUME NEW ks, NEW r, AskedPair(c, ks, r), processCommand(r) PROVE ReadStep
  <2>1. PICK cmd, bs, at : r = Request(cmd, ks, bs, at)
    BY Zenon, <1>4 DEF AskedPair
  <2>2. r.cmd = cmd
    BY Zenon, <2>1 DEF Request
  <2>3. /\ Outcome(Executed(r), r.cmd) /\ Becomes(Executed(r))
        /\ Answer(<<r>>, TRUE, <<Executed(r).res>>)
    BY Zenon, <1>4, PairOutcome DEF processCommand
  <2> QED BY Zenon, <1>1, <2>1, <2>2, <2>3 DEF Outcome
<1>5. ASSUME NEW n \in NS, keys(c, n) PROVE ReadStep
  <2>1. Becomes(Listed(n)) /\ conn[c] = "open" /\ declared[c][n] # NULL
    BY Zenon, <1>5 DEF keys
  <2>2. PICK f, v, z : Listed(n) = Srv(f, NoTags, v, z) /\ Tidied(db, f)
    BY Zenon, <2>1, KeysOutcome
  <2>3. db' = f /\ SameData(db, f)
    BY <2>1, <2>2, ServerFacts DEF Becomes, Tidied
  <2> QED BY Zenon, <2>3, StoredSame DEF ReadStep
<1>6. CASE OneKey(c, processCommand)
  BY Zenon, <1>2, <1>6 DEF OneKey, Asked
<1>7. CASE OneKey(c, processCommand_rejects)
  BY Zenon, <1>3, <1>7 DEF OneKey
<1>8. CASE TwoKeys(c, processCommand)
  BY Zenon, <1>4, <1>8 DEF TwoKeys, AskedPair
<1> QED BY Zenon, <1>5, <1>6, <1>7, <1>8 DEF DataStep

\* The item of a key does not depend on registrations and updates: the names in
\* the table keep their first name.
LEMMA ItemKept ==
    ASSUME PlainNames, TableInv, RootsKept, NEW n \in NS, NEW x \in Names,
           Registered(n), Registered(n)'
    PROVE  ItemOf(Append(n, x))' = ItemOf(Append(n, x))
<1>1. ItemOf(Append(n, x)) = <<Root(n), x>>
  BY Zenon, ItemFacts
<1>2. kvolve_version_hash_lookup(Append(n, x))' = n
  BY Zenon, LookupNext DEF PlainNames
<1>3. Append(n, x)[Len(Append(n, x))] = x
  BY Zenon, KeyFacts
<1>4. ItemOf(Append(n, x))' = <<Root(n)', x>>
  BY Zenon, <1>2, <1>3 DEF ItemOf
<1> QED BY Zenon, <1>1, <1>4 DEF RootsKept

\* What is stored for an item does not depend on them either.
LEMMA StoredKept ==
    ASSUME PlainNames, StringInv, StringInv', RootsKept, db' = db, NEW i \in Item
    PROVE  Stored(i)' = Stored(i)
<1>1. ASSUME NEW k \in Used PROVE ItemOf(k)' = ItemOf(k)
  <2>1. PICK n \in NS, x \in Names : k = Append(n, x) /\ Registered(n)
    BY Zenon, UsedFacts
  <2>2. Registered(n)'
    <3>1. k \in Used'
      BY Zenon, <1>1 DEF Used
    <3>2. AllFit(db)' /\ db'[k] # NULL
      BY Zenon, <3>1 DEF StringInv, DataInv, Used
    <3> QED BY Zenon, <2>1, <3>2 DEF AllFit, Fits
  <2> QED BY Zenon, <2>1, <2>2, ItemKept DEF StringInv
<1>2. Used' = Used
  BY Zenon DEF Used
<1>3. {l \in Used : ItemOf(l) = i}' = {l \in Used : ItemOf(l) = i}
  BY Zenon, <1>1, <1>2
<1> QED BY Zenon, <1>3 DEF Stored

-----------------------------------------------------------------------------
(* Names renamed at most once *)

\* A namespace has its own first name, or the one before it.
LEMMA Roots ==
    ASSUME TableInv, Single, NEW n \in NS
    PROVE  /\ Root(n) \in NS
           /\ prev_ns[n] = NULL => Root(n) = n
           /\ prev_ns[n] # NULL => prev_ns[n] \in NS /\ Root(n) = prev_ns[n]
<1>1. CASE prev_ns[n] = NULL
  BY Zenon, <1>1, RootStep DEF TableInv
<1>2. CASE prev_ns[n] # NULL
  <2>1. PICK p \in NS : p = prev_ns[n]
    BY Zenon, <1>2 DEF TableInv, RegistryTypeOK
  <2>2. Root(p) = p /\ Root(n) = Root(p)
    BY Zenon, <1>2, <2>1, RootStep DEF TableInv, Single
  <2> QED BY Zenon, <1>2, <2>1, <2>2
<1> QED BY Zenon, <1>1, <1>2

\* Two namespaces in use are not of the same origin.
LEMMA RootsDiffer ==
    ASSUME TableInv, Single, NEW n \in NS, NEW m \in NS, next_ns[n] = NULL, next_ns[m] = NULL,
           Root(n) = Root(m)
    PROVE  n = m
<1>1. ASSUME NEW l \in NS, prev_ns[l] # NULL PROVE next_ns[prev_ns[l]] = l
  BY Zenon, <1>1 DEF TableInv, DocHistory, LinksOf
<1>2. n # NULL /\ m # NULL
  BY Zenon, RegistryAssumption
<1> QED BY <1>1, <1>2, Roots
=============================================================================
