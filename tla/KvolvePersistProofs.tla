------------------------- MODULE KvolvePersistProofs ------------------------
(***************************************************************************)
(* The server that saves its strings and starts again: the dumps stay in   *)
(* order, and what programs read comes back.                               *)
(***************************************************************************)
EXTENDS KvolvePersist, KvolveHooksProofs

-----------------------------------------------------------------------------
(* What the order says *)

\* A namespace that was renamed has one name before it.
LEMMA OneBefore ==
    ASSUME RenamedOnce, ByRename, RegistryTypeOK, NEW n \in NS, prev_ns[n] # NULL
    PROVE  /\ prev_ns[n] \in NS /\ prev_ns[prev_ns[n]] = NULL
           /\ Root(n) = prev_ns[n] /\ Lineage(n) = {n, prev_ns[n]}
<1>1. PICK p \in NS : p = prev_ns[n]
  BY Zenon DEF RegistryTypeOK
<1>2. prev_ns[p] = NULL
  BY <1>1 DEF ByRename, RenamedOnce
<1>3. Root(p) = p /\ Lineage(p) = {p}
  BY Zenon, <1>2, RootStep, LineageStep
<1>4. Root(n) = Root(p) /\ Lineage(n) = {n} \cup Lineage(p)
  BY Zenon, <1>1, RootStep, LineageStep
<1> QED BY Zenon, <1>1, <1>2, <1>3, <1>4

\* Strings in order are well formed.
LEMMA TypeInOrder == ASSUME PlainNames PROVE StringInv => KvolveTypeOK
<1> SUFFICES ASSUME StringInv PROVE KvolveTypeOK
  BY Zenon
<1>1. tmp_store \in [Key -> Vers \cup {NULL}]
  BY Zenon DEF StringInv, NoTags
<1>2. ASSUME NEW k \in Used
      PROVE  /\ db[k].type = TypeOf(k) /\ db[k].vers \in Vers \cup {0} /\ DataIn(db[k]) # {}
             /\ \A b \in DataIn(db[k]) : \/ b.val \in Payload \cup Fields /\ b.conf \in Vers \cup {Garbled}
                                         \/ b.val \in Numbers \cup Fields /\ b.conf = 0
  <2>1. PICK n \in NS, x \in Names : k[Len(k)] = x /\ type[x] = "string" /\ Fits(db[k], n) /\ db[k] # NULL
    BY Zenon, UsedFacts
  <2> PICK o : o = db[k]
    BY Zenon
  <2>3. /\ o.type = "string" /\ DataIn(o) = {o.ptr}
        /\ \/ o.vers = 0 /\ o.ptr.val \in Numbers /\ o.ptr.conf = 0
           \/ o.ptr.val \in Payload /\ o.ptr.conf = o.vers /\ o.vers \in Vers
    BY Zenon, <2>1, StringFacts DEF StringInv, TableInv
  <2> QED BY Zenon, <2>1, <2>3 DEF TypeOf
<1> QED BY Zenon, <1>1, <1>2 DEF KvolveTypeOK

\* Their tags tell the truth.
LEMMA TruthInOrder == ASSUME PlainNames PROVE StringInv => TagsTruthful
<1> SUFFICES ASSUME StringInv, NEW k \in Used, NEW b \in DataIn(db[k])
             PROVE  IsNumber(b) \/ b.conf = Settled.db[k].vers
  BY Zenon DEF TagsTruthful
<1>1. Settled.db[k] = db[k]
  BY SettledIs, ServerFacts
<1> PICK o : o = db[k]
  BY Zenon
<1>2. PICK n \in NS : Fits(o, n) /\ o # NULL
  BY Zenon, UsedFacts
<1>3. DataIn(o) = {o.ptr} /\ (o.ptr.conf = 0 \/ o.ptr.conf = o.vers)
  BY Zenon, <1>2, StringFacts DEF StringInv, TableInv
<1> QED BY Zenon, <1>1, <1>3 DEF IsNumber

\* However often it was renamed, a namespace has a name its programs use now.
CurrentFound ==
    \A n \in NS : Current(n) \in NS /\ n \in Lineage(Current(n)) /\ next_ns[Current(n)] = NULL

\* There is one copy of each.
LEMMA OneInOrder == ASSUME PlainNames, RenamedOnce PROVE StringInv /\ ByRename => OneCopy
<1> SUFFICES ASSUME StringInv, ByRename, NEW k \in Used, NEW l \in Used, ItemOf(k) = ItemOf(l)
             PROVE  k = l
  BY Zenon DEF OneCopy
<1>1. PICK n \in NS, x \in Names : k = Append(n, x) /\ Registered(n) /\ db[k] # NULL
  BY Zenon, UsedFacts
<1>2. PICK m \in NS, y \in Names : l = Append(m, y) /\ Registered(m) /\ db[l] # NULL
  BY Zenon, UsedFacts
<1>3. Root(n) = Root(m) /\ x = y
  BY <1>1, <1>2, ItemFacts
<1>4. RegistryTypeOK /\ OneName(db) /\ LinksOf(n) /\ LinksOf(m)
  BY Zenon DEF StringInv, TableInv, DocHistory, DataInv
<1>5. CASE prev_ns[n] = NULL /\ prev_ns[m] = NULL
  BY Zenon, <1>1, <1>2, <1>3, <1>4, <1>5, RootStep
<1>6. CASE prev_ns[n] = NULL /\ prev_ns[m] # NULL
  <2>1. prev_ns[m] = n
    BY Zenon, <1>3, <1>4, <1>6, RootStep, OneBefore
  <2> QED BY Zenon, <1>1, <1>2, <1>3, <1>4, <1>6, <2>1 DEF OneName
<1>7. CASE prev_ns[n] # NULL /\ prev_ns[m] = NULL
  <2>1. prev_ns[n] = m
    BY Zenon, <1>3, <1>4, <1>7, RootStep, OneBefore
  <2> QED BY Zenon, <1>1, <1>2, <1>3, <1>4, <1>7, <2>1 DEF OneName
<1>8. CASE prev_ns[n] # NULL /\ prev_ns[m] # NULL
  <2>1. prev_ns[n] = prev_ns[m]
    BY Zenon, <1>3, <1>4, <1>8, OneBefore
  <2>2. n = m
    BY Zenon, <1>4, <1>8, <2>1 DEF LinksOf
  <2> QED BY Zenon, <1>1, <1>2, <1>3, <2>2
<1> QED BY Zenon, <1>5, <1>6, <1>7, <1>8

\* It is found from the name of now.
LEMMA FoundInOrder ==
    ASSUME PlainNames, RenamedOnce, CurrentFound
    PROVE  StringInv /\ ByRename => Reachable
<1> SUFFICES ASSUME StringInv, ByRename, NEW k \in Used
             PROVE  kvolve_get_db_val(Server, Append(Current(kvolve_version_hash_lookup(k)), k[Len(k)]),
                                      Current(kvolve_version_hash_lookup(k))) = k
  BY Zenon DEF Reachable
<1>1. PICK n \in NS, x \in Names : /\ k = Append(n, x) /\ kvolve_version_hash_lookup(k) = n
                                   /\ k[Len(k)] = x /\ db[k] # NULL
  BY Zenon, UsedFacts
<1> PICK v : v = Current(n)
  BY Zenon
<1>3. TableInv /\ RegistryTypeOK /\ OneName(db)
  BY Zenon DEF StringInv, TableInv, DataInv
<1>4. v \in NS /\ n \in Lineage(v)
  BY Zenon DEF CurrentFound
<1>5. Server.db = db
  BY Zenon DEF Server
<1> PICK s : s = Server
  BY Zenon
<1>7. kvolve_get_db_val(s, Append(v, x), v) = FoundAt(s.db, v, x)
  BY Zenon, <1>3, <1>4, GetDbVal
<1>8. n = v \/ (prev_ns[v] # NULL /\ n = prev_ns[v])
  BY <1>3, <1>4, OneBefore, LineageStep
<1>9. FoundAt(db, v, x) = k
  <2>1. CASE n = v
    BY Zenon, <1>1, <2>1 DEF FoundAt
  <2>2. CASE prev_ns[v] # NULL /\ n = prev_ns[v]
    <3>1. db[Append(v, x)] = NULL
      BY Zenon, <1>1, <1>3, <1>4, <2>2 DEF OneName
    <3> QED BY Zenon, <1>1, <2>2, <3>1 DEF FoundAt
  <2> QED BY Zenon, <1>8, <2>1, <2>2
<1> QED BY Zenon, <1>1, <1>5, <1>7, <1>9

-----------------------------------------------------------------------------
(* The file *)

\* A version fits into the byte that rdbSaveType writes.
OneByte == Vers \subseteq 0..255

\* A dump of strings in order, each tagged with its schema.
GoodDump(f) ==
    /\ f.versions \in [NS -> Seq(Vers)] /\ f.late = {} /\ OnKeys(f.db)
    /\ \A n \in NS, x \in Names :
         /\ FitsIn(f.db[Append(n, x)], f.versions[n])
         /\ f.db[Append(n, x)] # NULL => type[x] = "string"
         /\ \/ f.prev_ns[n] = NULL \/ f.db[Append(n, x)] = NULL
            \/ f.db[Append(f.prev_ns[n], x)] = NULL

\* Saving and loading change no string.
LEMMA RoundTrip ==
    ASSUME OneByte, NEW o, NEW vs \in Seq(Vers), FitsIn(o, vs)
    PROVE  rdbSaveKeyValuePair(o) = o /\ rdbLoadObject(o) = o
<1>1. CASE o = NULL
  BY Zenon, <1>1 DEF rdbSaveKeyValuePair, rdbLoadObject
<1>2. ASSUME NEW e, NEW v \in 0..255, NEW q,
             o = [type |-> "string", enc |-> e, vers |-> v, ptr |-> q], o # NULL
      PROVE  rdbSaveKeyValuePair(o) = o /\ rdbLoadObject(o) = o
  <2>1. v % 256 = v
    OBVIOUS
  <2>2. o.vers = v /\ o.type = "string" /\ o.enc = e
    BY Zenon, <1>2
  <2>3. [o EXCEPT !.vers = v] = o /\ [o EXCEPT !.enc = e] = o
    BY <1>2
  <2>4. rdbSaveKeyValuePair(o) = [o EXCEPT !.vers = v]
    BY Zenon, <1>2, <2>1, <2>2 DEF rdbSaveKeyValuePair
  <2>5. rdbLoadObject(o) = [o EXCEPT !.enc = e]
    BY Zenon, <1>2, <2>2 DEF rdbLoadObject
  <2> QED BY Zenon, <2>3, <2>4, <2>5
<1>3. ASSUME o # NULL, NEW i \in Numbers, o = Num(i)
      PROVE  rdbSaveKeyValuePair(o) = o /\ rdbLoadObject(o) = o
  <2>1. 0 \in 0..255
    OBVIOUS
  <2> PICK q : q = Datum(i, 0)
    BY Zenon
  <2>3. o = [type |-> "string", enc |-> "int", vers |-> 0, ptr |-> q]
    BY Zenon, <1>3 DEF Num
  <2> QED BY Zenon, <1>2, <1>3, <2>1, <2>3
<1>4. ASSUME o # NULL, NEW p \in Payload, NEW j \in 1..Len(vs), o = Raw(p, vs[j])
      PROVE  rdbSaveKeyValuePair(o) = o /\ rdbLoadObject(o) = o
  <2>1. vs[j] \in Vers
    BY <1>4
  <2>2. PICK v \in 0..255 : v = vs[j]
    BY Zenon, <2>1 DEF OneByte
  <2> PICK q : q = Datum(p, v)
    BY Zenon
  <2>4. o = [type |-> "string", enc |-> "raw", vers |-> v, ptr |-> q]
    BY Zenon, <1>4, <2>2 DEF Raw
  <2> QED BY Zenon, <1>2, <1>4, <2>4
<1> QED BY Zenon, <1>1, <1>3, <1>4 DEF FitsIn

\* A keyspace whose strings all fit comes through the file as it is.
LEMMA AllRoundTrip ==
    ASSUME OneByte, NEW d, NEW vs \in [NS -> Seq(Vers)], OnKeys(d),
           \A n \in NS, x \in Names : FitsIn(d[Append(n, x)], vs[n])
    PROVE  /\ [k \in Key |-> rdbSaveKeyValuePair(d[k])] = d
           /\ [k \in Key |-> rdbLoadObject(d[k])] = d
<1>1. ASSUME NEW k \in Key PROVE rdbSaveKeyValuePair(d[k]) = d[k] /\ rdbLoadObject(d[k]) = d[k]
  <2>1. PICK n \in NS, x \in Names : k = Append(n, x)
    BY DEF Key
  <2> PICK o, w : o = d[k] /\ w = vs[n]
    BY Zenon
  <2>3. w \in Seq(Vers) /\ FitsIn(o, w)
    BY Zenon, <2>1
  <2> QED BY Zenon, <2>3, RoundTrip
<1> QED BY Zenon, <1>1 DEF OnKeys

\* The fields of a dump.
LEMMA SaveFields ==
    ASSUME NEW s
    PROVE  /\ rdbSave(s).db = [k \in Key |-> rdbSaveKeyValuePair(s.db[k])]
           /\ rdbSave(s).late = start.late \cup {NameOf(k) : k \in {l \in Key : s.db[l] # NULL /\ s.tmp[l] # NULL}}
           /\ rdbSave(s).contents = IF Replayed THEN Contents ELSE start.contents
           /\ rdbSave(s).versions = IF Replayed THEN versions ELSE start.versions
           /\ rdbSave(s).prev_ns = IF Replayed THEN prev_ns ELSE start.prev_ns
BY Zenon DEF rdbSave

-----------------------------------------------------------------------------
(* Restarts *)

\* The inductive invariant of the server and its file: dumps are in order, and
\* the keyspace is the one of the dump, or is in order for the table.
PersistInv ==
    /\ TableInv /\ OnlyStrings /\ tmp_store = NoTags
    /\ GoodDump(rdb_file) /\ GoodDump(start) /\ (rdb_child # NULL => GoodDump(rdb_child))
    /\ db = start.db \/ (Replayed /\ DataInv(db) /\ Strings(db))

\* When the table has been filled again, the data is in order for it.
LEMMA ReplayedInOrder == PersistInv /\ Replayed => StringInv
<1> SUFFICES ASSUME PersistInv, Replayed, db = start.db PROVE DataInv(db) /\ Strings(db)
  BY Zenon DEF PersistInv, StringInv
<1>1. GoodDump(start)
  BY Zenon DEF PersistInv
<1>2. ASSUME NEW n \in NS, NEW x \in Names PROVE Fits(db[Append(n, x)], n)
  <2> PICK o : o = db[Append(n, x)]
    BY Zenon
  <2>2. FitsIn(o, start.versions[n]) /\ start.versions[n] \in Seq(Vers) /\ versions[n] \in Seq(Vers)
    BY Zenon, <1>1 DEF GoodDump, PersistInv, TableInv, RegistryTypeOK
  <2>3. CASE o = NULL
    BY Zenon, <2>3 DEF Fits
  <2>4. CASE start.versions[n] # << >>
    <3>1. /\ Len(start.versions[n]) \in Nat /\ Len(versions[n]) \in Nat /\ Len(start.versions[n]) # 0
          /\ Len(start.versions[n]) <= Len(versions[n])
      BY <2>2, <2>4 DEF Replayed
    <3>2. Registered(n)
      BY <3>1 DEF Registered
    <3>3. \A j \in 1..Len(start.versions[n]) : /\ j \in 1..Len(versions[n])
                                               /\ versions[n][j] = start.versions[n][j]
      BY <2>4, <3>1 DEF Replayed
    <3> QED BY Zenon, <2>2, <3>2, <3>3 DEF FitsIn, Fits
  <2> QED BY Zenon, <2>2, <2>3, <2>4 DEF FitsIn
<1>3. OneName(db)
  <2> SUFFICES ASSUME NEW n \in NS, NEW x \in Names
               PROVE  prev_ns[n] = NULL \/ db[Append(n, x)] = NULL \/ db[Append(prev_ns[n], x)] = NULL
    BY Zenon DEF OneName
  <2>1. CASE start.versions[n] # << >>
    BY <1>1, <2>1 DEF GoodDump, Replayed
  <2>2. CASE start.versions[n] = << >>
    BY Zenon, <1>1, <2>2 DEF GoodDump, FitsIn
  <2> QED BY Zenon, <2>1, <2>2
<1> QED BY Zenon, <1>1, <1>2, <1>3 DEF GoodDump, DataInv, AllFit, Strings

\* No tag waits, so commands find the data as it is.
LEMMA SettledInFile == PersistInv => Settled = Server /\ Server = Srv(db, NoTags, {}, NULL)
<1> SUFFICES ASSUME PersistInv PROVE Settled = Server /\ Server = Srv(db, NoTags, {}, NULL)
  BY Zenon
<1> PICK d, w, q : d = db /\ w = {} /\ q = NULL
  BY Zenon
<1>2. Server = Srv(d, NoTags, w, q) /\ OnKeys(d)
  BY Zenon, ServerIs DEF PersistInv, GoodDump, DataInv, AllFit
<1>3. kvolve_prevcall_check(Srv(d, NoTags, w, q)) = Srv(d, NoTags, w, q)
  BY Zenon, <1>2, PrevcallNothing
<1> QED BY Zenon, <1>2, <1>3 DEF Settled

\* What is saved is a dump in order, of the data as it is.
LEMMA SavedInOrder ==
    ASSUME OneByte, PersistInv
    PROVE  GoodDump(rdbSave(Server)) /\ rdbSave(Server).db = db
<1> PICK s, d, f : s = Server /\ d = db /\ f = rdbSave(s)
  BY Zenon
<1>2. s.db = d /\ s.tmp = NoTags
  BY SettledInFile, ServerFacts
<1>3. /\ f.db = [k \in Key |-> rdbSaveKeyValuePair(d[k])]
      /\ f.late = {}
      /\ f.versions = IF Replayed THEN versions ELSE start.versions
      /\ f.prev_ns = IF Replayed THEN prev_ns ELSE start.prev_ns
  <2>1. {l \in Key : s.db[l] # NULL /\ s.tmp[l] # NULL} = {}
    BY Zenon, <1>2 DEF NoTags
  <2>2. start.late = {}
    BY Zenon DEF PersistInv, GoodDump
  <2>3. f.late = start.late \cup {NameOf(k) : k \in {l \in Key : s.db[l] # NULL /\ s.tmp[l] # NULL}}
    BY Zenon, SaveFields
  <2>4. f.late = {}
    BY Zenon, <2>1, <2>2, <2>3
  <2> QED BY <1>2, <2>4, SaveFields
<1>4. /\ f.versions \in [NS -> Seq(Vers)] /\ OnKeys(d)
      /\ \A n \in NS, x \in Names :
           /\ FitsIn(d[Append(n, x)], f.versions[n])
           /\ d[Append(n, x)] # NULL => type[x] = "string"
           /\ f.prev_ns[n] = NULL \/ d[Append(n, x)] = NULL \/ d[Append(f.prev_ns[n], x)] = NULL
  <2>1. CASE Replayed
    <3>1. StringInv
      BY Zenon, <2>1, ReplayedInOrder
    <3>2. \A o, n : n \in NS /\ Fits(o, n) => FitsIn(o, versions[n])
      BY Zenon DEF Fits, FitsIn, Registered
    <3>3. f.versions = versions /\ f.prev_ns = prev_ns
      BY Zenon, <1>3, <2>1
    <3>4. \A n \in NS, x \in Names : Fits(d[Append(n, x)], n)
      BY Zenon, <3>1 DEF StringInv, DataInv, AllFit
    <3>5. OnKeys(d) /\ OneName(d) /\ Strings(d) /\ versions \in [NS -> Seq(Vers)]
      BY Zenon, <3>1 DEF StringInv, DataInv, AllFit, TableInv, RegistryTypeOK
    <3> QED BY Zenon, <3>2, <3>3, <3>4, <3>5 DEF OneName, Strings
  <2>2. CASE ~Replayed
    BY <1>3, <2>2 DEF PersistInv, GoodDump
  <2> QED BY Zenon, <2>1, <2>2
<1>5. f.db = d
  <2> PICK vs : vs = f.versions
    BY Zenon
  <2>2. [k \in Key |-> rdbSaveKeyValuePair(d[k])] = d
    BY Zenon, <1>4, AllRoundTrip
  <2> QED BY Zenon, <1>3, <2>2
<1>6. GoodDump(f)
  BY <1>3, <1>4, <1>5 DEF GoodDump
<1> QED BY Zenon, <1>5, <1>6

\* The types of the names do not change, so a dump in order stays in order.
LEMMA DumpFrame == ASSUME NEW f, GoodDump(f), type' = type PROVE GoodDump(f)'
BY Zenon DEF GoodDump, FitsIn, OnKeys

\* A server that starts from a dump in order is in order.
LEMMA LoadInOrder ==
    ASSUME OneByte, PersistInv, NEW f, GoodDump(f), rdbLoad(f), rdb_file' \in {f, rdb_file}, TableInv'
    PROVE  PersistInv'
<1>2. db' = f.db
  <2> PICK d, vs : d = f.db /\ vs = f.versions
    BY Zenon
  <2>2. [k \in Key |-> rdbLoadObject(d[k])] = d
    BY AllRoundTrip DEF GoodDump
  <2> QED BY Zenon, <2>2 DEF rdbLoad
<1>3. type' = type /\ start' = f /\ rdb_child' = NULL /\ tmp_store' = NoTags
  BY Zenon DEF rdbLoad, NoTags
<1>4. GoodDump(f)'
  BY Zenon, <1>3, DumpFrame
<1>5. GoodDump(start)'
  BY Zenon, <1>3, <1>4 DEF GoodDump
<1>6. GoodDump(rdb_file)'
  <2>1. CASE rdb_file' = f
    BY Zenon, <1>4, <2>1 DEF GoodDump
  <2>2. CASE rdb_file' = rdb_file
    <3> PICK g : g = rdb_file
      BY Zenon
    <3>2. GoodDump(g)'
      BY Zenon, <1>3, DumpFrame DEF PersistInv
    <3> QED BY Zenon, <2>2, <3>2 DEF GoodDump
  <2> QED BY Zenon, <2>1, <2>2
<1> QED BY Zenon, <1>2, <1>3, <1>5, <1>6 DEF PersistInv, OnlyStrings, NoTags

\* What leaves table, data and types as they are, and the file in order, keeps
\* the server in order.
LEMMA SaveFrame ==
    ASSUME PersistInv, UNCHANGED <<registryVars, db, tmp_store, type, start>>,
           NEW f, NEW g, GoodDump(f), rdb_file' = f, rdb_child' = g, g # NULL => GoodDump(g), TableInv'
    PROVE  PersistInv'
<1>1. Replayed => Replayed'
  BY Zenon DEF Replayed, registryVars
<1>2. GoodDump(f)' /\ (g # NULL => GoodDump(g)')
  BY Zenon, DumpFrame
<1>3. GoodDump(rdb_file)' /\ (rdb_child' # NULL => GoodDump(rdb_child)')
  BY Zenon, <1>2 DEF GoodDump
<1>4. GoodDump(start)'
  <2> PICK h : h = start
    BY Zenon
  <2>2. GoodDump(h)'
    BY Zenon, DumpFrame DEF PersistInv
  <2> QED BY Zenon, <2>2 DEF GoodDump
<1>5. DataInv(db) /\ Strings(db) => DataInv(db)' /\ Strings(db)'
  <2> PICK e : e = db
    BY Zenon
  <2> QED BY Zenon, DataFrame
<1> QED BY Zenon, <1>1, <1>3, <1>4, <1>5 DEF PersistInv, OnlyStrings, NoTags

\* Saving, failing to save, crashing and starting again.
LEMMA PersistSaves ==
    ASSUME OneByte, PersistInv, SaveStep, TableInv'
    PROVE  PersistInv'
<1> PICK f, g, h : f = rdbSave(Server) /\ g = rdb_file /\ h = rdb_child
  BY Zenon
<1>2. GoodDump(f) /\ GoodDump(g) /\ (h # NULL => GoodDump(h)) /\ Settled = Server
  BY Zenon, SavedInOrder, SettledInFile DEF PersistInv
<1>3. Becomes(Settled) => UNCHANGED <<db, tmp_store, type>>
  BY SettledInFile, ServerFacts DEF Becomes, PersistInv
<1>4. CASE serverCron
  <2>1. UNCHANGED <<registryVars, db, tmp_store, type, start>> /\ rdb_file' = g /\ rdb_child' = f
    BY Zenon, <1>4 DEF serverCron, rdbSaveBackground, kvolveVars, dataVars
  <2> QED BY Zenon, <1>2, <2>1, SaveFrame
<1>5. CASE bgsaveCommand
  <2>1. UNCHANGED <<registryVars, db, tmp_store, type, start>> /\ rdb_file' = g /\ rdb_child' = f
    BY Zenon, <1>2, <1>3, <1>5 DEF bgsaveCommand, rdbSaveBackground, Commanded
  <2> QED BY Zenon, <1>2, <2>1, SaveFrame
<1>6. CASE saveCommand
  <2>1. UNCHANGED <<registryVars, db, tmp_store, type, start>> /\ rdb_file' = f /\ rdb_child' = h
    BY Zenon, <1>2, <1>3, <1>6 DEF saveCommand, Commanded
  <2> QED BY Zenon, <1>2, <2>1, SaveFrame
<1>7. CASE backgroundSaveDoneHandler
  <2>1. /\ UNCHANGED <<registryVars, db, tmp_store, type, start>>
        /\ rdb_file' \in {g, h} /\ h # NULL /\ rdb_child' = NULL
    BY Zenon, <1>7 DEF backgroundSaveDoneHandler, kvolveVars, dataVars
  <2> PICK e, q : e = rdb_file' /\ q = NULL
    BY Zenon
  <2> QED BY Zenon, <1>2, <2>1, SaveFrame
<1>8. CASE crash
  BY Zenon, <1>2, <1>8, LoadInOrder DEF crash
<1>9. CASE prepareForShutdown(Server) \/ prepareForShutdown(Settled)
  BY Zenon, <1>2, <1>9, LoadInOrder DEF prepareForShutdown
<1> QED BY Zenon, <1>4, <1>5, <1>6, <1>7, <1>8, <1>9 DEF SaveStep

\* The table only grows, so once it has been filled again it stays so.
LEMMA ReplayedKept ==
    ASSUME PersistInv, RegistryTypeOK', Grows, Replayed, start' = start
    PROVE  Replayed'
<1> SUFFICES ASSUME NEW n \in NS, start.versions[n] # << >>
             PROVE  /\ Len(start.versions[n]) <= Len(versions'[n])
                    /\ \A i \in 1..Len(start.versions[n]) : versions'[n][i] = start.versions[n][i]
                    /\ prev_ns'[n] = start.prev_ns[n]
  BY Zenon DEF Replayed
<1>1. /\ Len(start.versions[n]) \in Nat /\ Len(start.versions[n]) # 0
      /\ Len(versions[n]) \in Nat /\ Len(versions'[n]) \in Nat
  <2>1. start.versions[n] \in Seq(Vers)
    BY Zenon DEF PersistInv, GoodDump
  <2>2. versions[n] \in Seq(Vers) /\ versions'[n] \in Seq(Vers)
    BY Zenon DEF PersistInv, TableInv, RegistryTypeOK
  <2> QED BY <2>1, <2>2
<1>2. /\ Len(start.versions[n]) <= Len(versions[n])
      /\ \A i \in 1..Len(start.versions[n]) : versions[n][i] = start.versions[n][i]
      /\ prev_ns[n] = start.prev_ns[n]
  BY Zenon DEF Replayed
<1>3. Registered(n)
  BY <1>1, <1>2 DEF Registered
<1>4. /\ Len(versions'[n]) >= Len(versions[n]) /\ prev_ns'[n] = prev_ns[n]
      /\ \A i \in 1..Len(versions[n]) : versions'[n][i] = versions[n][i]
  BY Zenon, <1>3 DEF Grows
<1>5. \A i \in 1..Len(start.versions[n]) : i \in 1..Len(versions[n])
  BY <1>1, <1>2
<1> QED BY <1>1, <1>2, <1>4, <1>5

\* Where the dumps and the types stay, only the data counts.
LEMMA PersistFrame ==
    ASSUME PersistInv, TableInv', tmp_store' = NoTags, UNCHANGED <<type, rdb_file, rdb_child, start>>,
           db' = start.db \/ (Replayed' /\ DataInv(db)' /\ Strings(db)')
    PROVE  PersistInv'
<1> PICK f, g, h : f = rdb_file /\ g = rdb_child /\ h = start
  BY Zenon
<1>2. GoodDump(f) /\ GoodDump(h) /\ (g # NULL => GoodDump(g))
  BY Zenon DEF PersistInv
<1>3. GoodDump(f)' /\ GoodDump(h)' /\ (g # NULL => GoodDump(g)')
  BY Zenon, <1>2, DumpFrame
<1>4. GoodDump(rdb_file)' /\ GoodDump(start)' /\ (rdb_child' # NULL => GoodDump(rdb_child)')
  BY Zenon, <1>3 DEF GoodDump
<1> QED BY Zenon, <1>4 DEF PersistInv, OnlyStrings, NoTags

\* Connections, declarations and updates.
LEMMA PersistRegistry ==
    ASSUME PersistInv, NEW c \in Client, ConnectionStep(c) \/ RegistryStep(c), UNCHANGED persistVars,
           TableInv', Grows
    PROVE  PersistInv'
<1>2. db' = db /\ tmp_store' = NoTags /\ type' = type
  <2>1. CASE ConnectionStep(c)
    BY Zenon, <2>1 DEF ConnectionStep, dataVars, PersistInv
  <2>2. CASE RegistryStep(c)
    BY <2>2, SettledInFile, ServerFacts DEF RegistryStep, Becomes
  <2> QED BY Zenon, <2>1, <2>2
<1>3. UNCHANGED <<rdb_file, rdb_child, start>>
  BY Zenon DEF persistVars
<1>4. CASE Replayed
  <2>1. DataInv(db)' /\ Strings(db)'
    BY Zenon, <1>4, ReplayedInOrder, StringInvRegistry DEF StringInv
  <2>2. Replayed'
    BY Zenon, <1>3, <1>4, ReplayedKept DEF TableInv
  <2> QED BY Zenon, <1>2, <1>3, <2>1, <2>2, PersistFrame
<1>5. CASE ~Replayed
  <2>1. db' = start.db
    BY Zenon, <1>2, <1>5 DEF PersistInv
  <2> QED BY Zenon, <1>2, <1>3, <2>1, PersistFrame
<1> QED BY Zenon, <1>4, <1>5

\* Commands, once the table has been filled again.
LEMMA PersistCommands ==
    ASSUME PersistInv, Replayed, NEW c \in Client, DataStep(c),
           UNCHANGED <<registryVars, rdb_file, rdb_child, start>>, StringInv => StringInv'
    PROVE  PersistInv'
<1>1. StringInv'
  BY Zenon, ReplayedInOrder
<1>2. type' = type
  BY Zenon DEF DataStep, OneKey, TwoKeys, processCommand, processCommand_rejects, keys, Becomes
<1>3. Replayed'
  BY Zenon DEF Replayed, registryVars, tableVars
<1> QED BY Zenon, <1>1, <1>2, <1>3, PersistFrame DEF StringInv

\* The first server has no file.
LEMMA PersistStart == ASSUME StringPrograms, PersistInit, TableInv PROVE PersistInv
<1>1. StringInv
  BY Zenon, StringInvInit DEF PersistInit
<1>2. \A n \in NS, x \in Names : NoFile.db[Append(n, x)] = NULL
  BY Zenon, IsKey DEF NoFile
<1>3. GoodDump(NoFile)
  <2>1. /\ NoFile.versions \in [NS -> Seq(Vers)] /\ NoFile.late = {} /\ OnKeys(NoFile.db)
        /\ \A n \in NS : NoFile.prev_ns[n] = NULL
    BY DEF NoFile, OnKeys
  <2> QED BY Zenon, <1>2, <2>1 DEF GoodDump, FitsIn
<1>4. db = start.db
  BY Zenon DEF PersistInit, KvolveInit, NoFile
<1> QED BY Zenon, <1>1, <1>3, <1>4 DEF PersistInit, PersistInv, StringInv

\* A string that fits a history tells the truth.
LEMMA TruthIn ==
    ASSUME NEW o, NEW vs, FitsIn(o, vs), o # NULL
    PROVE  TellsTruth(o)
<1>1. o.type = "string" /\ (o.ptr.conf = 0 \/ o.ptr.conf = o.vers)
  <2>1. ASSUME NEW i, o = Num(i) PROVE o.type = "string" /\ o.ptr.conf = 0
    BY Zenon, <2>1, ObjectFacts
  <2>2. ASSUME NEW p, NEW v, o = Raw(p, v) PROVE o.type = "string" /\ o.ptr.conf = o.vers
    BY <2>2, ObjectFacts
  <2> QED BY Zenon, <2>1, <2>2 DEF FitsIn
<1>2. DataIn(o) = {o.ptr}
  BY Zenon, <1>1 DEF DataIn
<1> QED BY Zenon, <1>1, <1>2 DEF TellsTruth, IsNumber

\* What commands find tells the truth, before and after the table is filled.
LEMMA LoadedInOrder == PersistInv => RestartTagsTruthful
<1> SUFFICES ASSUME PersistInv, NEW k \in Used PROVE TellsTruth(Settled.db[k])
  BY Zenon DEF RestartTagsTruthful
<1>1. PICK n \in NS, x \in Names : k = Append(n, x)
  BY DEF Used, Key
<1> PICK o : o = db[k]
  BY Zenon
<1>3. Settled.db[k] = o /\ o # NULL
  BY SettledInFile, ServerFacts DEF Used
<1>4. FitsIn(o, start.versions[n]) \/ Fits(o, n)
  BY Zenon, <1>1 DEF PersistInv, GoodDump, DataInv, AllFit
<1>5. PICK vs : FitsIn(o, vs)
  BY Zenon, <1>4 DEF Fits, FitsIn, Registered
<1> QED BY Zenon, <1>3, <1>5, TruthIn

\* What is in a dump tells the truth.
LEMMA DumpInOrder ==
    ASSUME PersistInv, NEW f \in {rdb_file, rdb_child} \ {NULL}
    PROVE  f.late = {} /\ \A k \in Key : f.db[k] # NULL => TellsTruth(f.db[k])
<1>1. GoodDump(f) /\ f.late = {}
  BY DEF PersistInv, GoodDump
<1>2. ASSUME NEW k \in Key, f.db[k] # NULL PROVE TellsTruth(f.db[k])
  <2>1. PICK n \in NS, x \in Names : k = Append(n, x)
    BY DEF Key
  <2>2. PICK o, vs : o = f.db[k] /\ vs = f.versions[n]
    BY Zenon
  <2>3. FitsIn(o, vs) /\ o # NULL
    BY Zenon, <1>1, <1>2, <2>1, <2>2 DEF GoodDump
  <2> QED BY Zenon, <2>2, <2>3, TruthIn
<1> QED BY Zenon, <1>1, <1>2

-----------------------------------------------------------------------------
(* What programs read *)

\* What a read returns is in the last schema.
LEMMA PlainFresh ==
    ASSUME RegistryTypeOK, NEW o, NEW n \in NS, Fits(o, n)
    PROVE  Plain(Fresh(o, n)) = Converted(o, Latest(n))
<1>1. CASE o = NULL
  BY Zenon, <1>1 DEF Fresh, Plain, Converted
<1>2. ASSUME o # NULL, NEW i \in Numbers, o = Num(i) PROVE Plain(Fresh(o, n)) = Converted(o, Latest(n))
  <2>1. o.type = "string" /\ o.enc = "int" /\ o.ptr = Datum(i, 0)
    BY Zenon, <1>2, ObjectFacts
  <2>2. Plain(Fresh(o, n)) = Text(i, 0)
    BY Zenon, <1>2, <2>1 DEF Fresh, Plain, Text
  <2> QED BY Zenon, <1>2, <2>1, <2>2, TextConverted
<1>3. ASSUME o # NULL, Registered(n), NEW p \in Payload, NEW j \in 1..Len(versions[n]), o = Raw(p, versions[n][j])
      PROVE  Plain(Fresh(o, n)) = Converted(o, Latest(n))
  <2>1. PICK v \in Vers : v = versions[n][j]
    BY <1>3 DEF RegistryTypeOK
  <2>2. o.type = "string" /\ o.enc = "raw" /\ o.ptr = Datum(p, v) /\ o.ptr.val = p
    BY <1>3, <2>1, ObjectFacts
  <2>3. PICK w, t : w = Latest(n) /\ w \in Vers /\ t = Raw(p, w)
    BY Zenon, <1>3, LatestFacts
  <2>4. t.type = "string" /\ t.ptr = Datum(p, w) /\ t # NULL
    <3>1. t \in StringObject
      BY Zenon, <2>3 DEF Raw, Datum, StringObject
    <3> QED BY <2>3, <3>1, ObjectFacts, NullAssumption
  <2>5. Fresh(o, n) = t
    BY Zenon, <1>3, <2>2, <2>3 DEF Fresh
  <2>6. Plain(t) = Text(p, w)
    BY Zenon, <2>4 DEF Plain, Text
  <2>7. Converted(o, w) = Text(p, w)
    <3>1. v # 0
      BY Zenon, HooksAssumption
    <3> QED BY <1>3, <2>2, <3>1, TextConverted
  <2> QED BY Zenon, <2>3, <2>5, <2>6, <2>7
<1> QED BY Zenon, <1>1, <1>2, <1>3 DEF Fits

\* The name of now is the first name, or follows it.
LEMMA CurrentIs ==
    ASSUME TableInv, Single, CurrentFound, NEW r \in NS, IsRoot(r)
    PROVE  /\ Current(r) \in NS /\ Registered(Current(r)) /\ next_ns[Current(r)] = NULL
           /\ Current(r) = r \/ prev_ns[Current(r)] = r
<1> PICK n : n = Current(r)
  BY Zenon
<1>2. n \in NS /\ r \in Lineage(n) /\ next_ns[n] = NULL
  BY Zenon DEF CurrentFound
<1>3. n = r \/ prev_ns[n] = r
  <2>1. CASE prev_ns[n] = NULL
    BY <1>2, <2>1, LineageStep DEF TableInv
  <2>2. CASE prev_ns[n] # NULL
    <3>1. PICK p \in NS : p = prev_ns[n]
      BY Zenon, <1>2, <2>2 DEF TableInv, RegistryTypeOK
    <3>2. Lineage(p) = {p} /\ Lineage(n) = {n} \cup Lineage(p)
      BY Zenon, <1>2, <2>2, <3>1, LineageStep DEF TableInv, Single
    <3> QED BY Zenon, <1>2, <3>1, <3>2
  <2> QED BY Zenon, <2>1, <2>2
<1>4. Registered(n)
  <2>1. CASE n = r
    BY Zenon, <2>1 DEF IsRoot
  <2>2. CASE prev_ns[n] = r
    <3>1. r # NULL
      BY Zenon, RegistryAssumption
    <3>2. /\ versions[r] \in Seq(Vers) /\ versions[n] \in Seq(Vers)
          /\ Len(versions[r]) < Len(versions[n])
      BY Zenon, <1>2, <2>2, <3>1 DEF TableInv, RegistryTypeOK, DocHistory, LinksOf
    <3> QED BY <3>2 DEF Registered
  <2> QED BY Zenon, <1>3, <2>1, <2>2
<1> QED BY Zenon, <1>2, <1>3, <1>4

\* Reading all of a container that does not exist, under any name, changes
\* nothing.
LEMMA ReadNothing ==
    ASSUME PlainNames, TableInv, NEW s, NEW n \in NS, NEW x \in Names, FoundAt(s.db, n, x) = NULL
    PROVE  kvolve_update_all(s, Append(n, x), n) = s
<1> PICK k : k = Append(n, x)
  BY Zenon
<1> DEFINE update(at) ==
             IF at = NULL THEN s
             ELSE IF s.db[at].vers = Latest(n) \/ s.db[at].enc = "skiplist" THEN s
             ELSE With(With(s.db[at], LAMBDA o : UpdateElements(s, k, n, o)),
                       LAMBDA t : [t EXCEPT !.db[IF t.db[at] = NULL THEN k ELSE at].vers = Latest(n)])
<1>2. kvolve_get_db_val(s, k, n) = NULL
  BY Zenon, GetDbVal DEF TableInv
<1>3. kvolve_update_all(s, k, n) = With(NULL, update)
  BY Zenon, <1>2 DEF kvolve_update_all
<1>4. update(NULL) = s
  BY Zenon
<1> HIDE DEF update
<1>5. With(NULL, update) = s
  BY Zenon, <1>4 DEF With
<1> QED BY Zenon, <1>3, <1>5

\* What programs read now.
LEMMA StoreFacts ==
    ASSUME Counting, PlainNames, StringInv, Single, CurrentFound, NEW r \in NS, NEW x \in Names, IsRoot(r)
    PROVE  StoreNow[<<r, x>>] = Converted(Held(db, Current(r), x), Latest(Current(r)))
<1>1. PICK n, k, d, w, q : n = Current(r) /\ k = Append(n, x) /\ d = db /\ w = {} /\ q = NULL
  BY Zenon
<1>2. n \in NS /\ Registered(n) /\ next_ns[n] = NULL
  BY Zenon, <1>1, CurrentIs DEF StringInv
<1>3. PICK s : s = Srv(d, NoTags, w, q) /\ s = Settled
  BY Zenon, <1>1, SettledIs
<1>4. s.db = d /\ TableInv /\ DataInv(d) /\ AllFit(d) /\ Strings(d)
  BY <1>1, <1>3, ServerFacts DEF StringInv, DataInv
<1>5. StoreNow[<<r, x>>] = Read(s, k, n)
  <2>1. <<r, x>> \in Item /\ <<r, x>>[1] = r /\ <<r, x>>[2] = x
    BY Zenon DEF Item
  <2>2. PICK i : i = <<r, x>> /\ i \in Item /\ i[1] = r /\ i[2] = x
    BY Zenon, <2>1
  <2> DEFINE ReadUnder(t, v) == Read(t, Append(v, i[2]), v)
             ReadFrom(t) == With(Current(i[1]), LAMBDA v : ReadUnder(t, v))
  <2>3. StoreNow[i] = With(Settled, ReadFrom)
    BY Zenon, <2>2 DEF StoreNow, ReadNow
  <2>4. ReadUnder(s, n) = Read(s, k, n)
    BY Zenon, <1>1, <2>2
  <2> HIDE DEF ReadUnder
  <2>5. ReadFrom(s) = ReadUnder(s, n)
    BY Zenon, <1>1, <2>2 DEF With
  <2> HIDE DEF ReadFrom
  <2>6. With(s, ReadFrom) = ReadFrom(s)
    BY Zenon DEF With
  <2> QED BY Zenon, <1>3, <2>2, <2>3, <2>4, <2>5, <2>6
<1>6. Fits(Held(d, n, x), n)
  BY Zenon, <1>2, <1>4, HeldFacts
<1>7. CASE type[x] = "string"
  <2>1. TypeOf(k) = "string"
    BY Zenon, <1>1, <1>2, <1>7, KeyFacts DEF TypeOf
  <2>2. PICK e : e = Refreshed(d, n, x) /\ kvolve_check_update_kv_pair(s, k, n).db = e
    BY <1>1, <1>2, <1>3, <1>4, CheckUpdate, ServerFacts
  <2>3. e[k] = Fresh(Held(d, n, x), n)
    <3>1. PICK m : m = Moved(d, n, x)
      BY Zenon
    <3>2. OnKeys(m) /\ k \in Key
      BY Zenon, <1>1, <1>2, <1>4, <3>1, MovedKeeps, IsKey DEF Keeps, DataInv, AllFit
    <3> QED BY Zenon, <1>1, <2>2, <3>1, <3>2 DEF Refreshed, Held, At, OnKeys
  <2>4. Read(s, k, n) = Plain(Fresh(Held(d, n, x), n))
    BY Zenon, <2>1, <2>2, <2>3 DEF Read
  <2>5. PICK o : o = Held(d, n, x)
    BY Zenon
  <2>6. Plain(Fresh(o, n)) = Converted(o, Latest(n))
    BY Zenon, <1>2, <1>4, <1>6, <2>5, PlainFresh DEF TableInv
  <2> QED BY Zenon, <1>1, <1>5, <2>4, <2>5, <2>6
<1>8. CASE type[x] # "string"
  <2>1. TypeOf(k) # "string"
    BY Zenon, <1>1, <1>2, <1>8, KeyFacts DEF TypeOf
  <2>2. d[k] = NULL /\ (prev_ns[n] # NULL => d[Append(prev_ns[n], x)] = NULL)
    BY <1>1, <1>2, <1>4, <1>8 DEF Strings, TableInv, RegistryTypeOK
  <2>3. kvolve_update_all(s, k, n) = s
    <3>1. FoundAt(d, n, x) = NULL
      BY Zenon, <1>1, <2>2 DEF FoundAt
    <3> QED BY Zenon, <1>1, <1>2, <1>4, <3>1, ReadNothing
  <2>4. Read(s, k, n) = NULL
    BY Zenon, <1>4, <2>1, <2>2, <2>3 DEF Read, Plain
  <2>5. Held(d, n, x) = NULL
    BY <1>1, <1>2, <1>4, <2>2, HeldFacts
  <2> QED BY Zenon, <1>1, <1>5, <2>4, <2>5 DEF Converted
<1> QED BY Zenon, <1>7, <1>8

-----------------------------------------------------------------------------
(* What programs read after a restart *)

\* The names of a namespace of the dump f whose first name is r.
NamesIn(f, r) == {n \in NS : n = r \/ f.prev_ns[n] = r}
\* The dump f says that programs read for x of r what it holds under one of the
\* names, and nothing only where it holds nothing.
Shows(f, r, x) ==
    \E n \in NamesIn(f, r) :
        /\ f.contents[<<r, x>>] = Converted(f.db[Append(n, x)], Garbled)
        /\ f.db[Append(n, x)] = NULL => \A m \in NamesIn(f, r) : f.db[Append(m, x)] = NULL
\* What the dump f says that programs read agrees with what it holds.
TrueDump(f) ==
    /\ \A n \in NS : f.prev_ns[n] # NULL =>
         f.prev_ns[n] \in NS /\ f.versions[n] # << >> /\ f.versions[f.prev_ns[n]] # << >>
    /\ \A r \in NS, x \in Names :
         IF f.versions[r] # << >> /\ f.prev_ns[r] = NULL THEN Shows(f, r, x)
         ELSE f.contents[<<r, x>>] = NULL

\* A dump taken when the table is filled is such.
LEMMA TrueNow ==
    ASSUME Counting, PlainNames, StringInv, Single, CurrentFound, NEW f, f.db = db, f.contents = Contents,
           f.versions = versions, f.prev_ns = prev_ns
    PROVE  TrueDump(f)
<1>1. TableInv /\ DataInv(db) /\ RegistryTypeOK
  BY Zenon DEF StringInv, TableInv
<1>2. ASSUME NEW n \in NS, prev_ns[n] # NULL
      PROVE  /\ prev_ns[n] \in NS /\ next_ns[prev_ns[n]] = n
             /\ versions[n] # << >> /\ versions[prev_ns[n]] # << >>
  <2>1. PICK p \in NS : p = prev_ns[n]
    BY Zenon, <1>1, <1>2 DEF RegistryTypeOK
  <2>2. next_ns[p] = n /\ Registered(p) /\ Len(versions[p]) < Len(versions[n])
    BY Zenon, <1>1, <1>2, <2>1 DEF TableInv, DocHistory, LinksOf
  <2>3. versions[n] \in Seq(Vers) /\ versions[p] \in Seq(Vers)
    BY Zenon, <1>1 DEF RegistryTypeOK
  <2> QED BY <2>1, <2>2, <2>3 DEF Registered
<1>3. ASSUME NEW r \in NS, NEW x \in Names
      PROVE  Contents[<<r, x>>] = Converted(StoreNow[<<r, x>>], Garbled)
  BY Zenon DEF Contents, Item
<1>4. ASSUME NEW r \in NS, NEW x \in Names, IsRoot(r) PROVE Shows(f, r, x)
  <2>1. PICK n, o : n = Current(r) /\ o = Held(db, n, x)
    BY Zenon
  <2>2. n \in NS /\ Registered(n) /\ next_ns[n] = NULL /\ (n = r \/ prev_ns[n] = r)
    BY Zenon, <1>1, <1>4, <2>1, CurrentIs
  <2>3. /\ Fits(o, n)
        /\ o = IF db[Append(n, x)] # NULL \/ prev_ns[n] = NULL THEN db[Append(n, x)]
               ELSE db[Append(prev_ns[n], x)]
    BY <1>1, <2>1, <2>2, HeldFacts
  <2>4. Contents[<<r, x>>] = Converted(o, Garbled)
    <3>1. PICK v, vs : v = Latest(n) /\ v \in Vers /\ vs = versions[n] /\ vs \in Seq(Vers)
      BY Zenon, <1>1, <2>2, LatestFacts DEF RegistryTypeOK
    <3>2. FitsIn(o, vs)
      BY Zenon, <2>3, <3>1 DEF Fits, FitsIn, Registered
    <3>3. StoreNow[<<r, x>>] = Converted(o, v)
      BY Zenon, <1>4, <2>1, <3>1, StoreFacts
    <3> QED BY <1>3, <3>1, <3>2, <3>3, ConvertedTwice
  <2>5. r # NULL /\ prev_ns[r] = NULL
    BY Zenon, <1>4, RegistryAssumption DEF IsRoot
  <2>6. ASSUME NEW m \in NamesIn(f, r) PROVE m \in NS /\ (m = r \/ m = n)
    <3>1. m \in NS /\ (m = r \/ prev_ns[m] = r) /\ m # NULL
      BY Zenon, RegistryAssumption DEF NamesIn
    <3>2. prev_ns[m] = r => next_ns[r] = m
      BY Zenon, <1>2, <2>5, <3>1
    <3>3. prev_ns[n] = r => next_ns[r] = n
      BY Zenon, <1>2, <2>2, <2>5
    <3> QED BY Zenon, <2>2, <3>1, <3>2, <3>3
  <2>7. r \in NamesIn(f, r) /\ n \in NamesIn(f, r)
    BY Zenon, <2>2 DEF NamesIn
  <2>8. PICK l \in NamesIn(f, r) : /\ o = db[Append(l, x)]
                                   /\ o = NULL => db[Append(r, x)] = NULL /\ db[Append(n, x)] = NULL
    <3>1. CASE n = r
      BY Zenon, <2>3, <2>5, <2>7, <3>1
    <3>2. CASE prev_ns[n] = r
      <4>1. o = IF db[Append(n, x)] # NULL THEN db[Append(n, x)] ELSE db[Append(r, x)]
        <5>1. prev_ns[n] # NULL
          BY Zenon, <2>5, <3>2
        <5> QED BY Zenon, <2>3, <3>2, <5>1
      <4> QED BY Zenon, <2>7, <4>1
    <3> QED BY Zenon, <2>2, <3>1, <3>2
  <2> QED BY Zenon, <2>4, <2>6, <2>8 DEF Shows
<1>5. ASSUME NEW r \in NS, NEW x \in Names, ~IsRoot(r) PROVE Contents[<<r, x>>] = NULL
  <2>0. <<r, x>> \in Item /\ <<r, x>>[1] = r
    BY Zenon DEF Item
  <2>1. PICK i : i = <<r, x>> /\ i \in Item /\ i[1] = r
    BY Zenon, <2>0
  <2>2. StoreNow[i] = IF IsRoot(i[1]) THEN ReadNow(i) ELSE NULL
    BY <2>1, Zenon DEF StoreNow
  <2>3. ~IsRoot(i[1])
    BY Zenon, <1>5, <2>1
  <2> QED BY Zenon, <1>3, <2>1, <2>2, <2>3 DEF Converted
<1>6. ASSUME NEW r \in NS PROVE IsRoot(r) <=> f.versions[r] # << >> /\ f.prev_ns[r] = NULL
  BY Zenon DEF IsRoot, Registered
<1> QED BY Zenon, <1>2, <1>4, <1>5, <1>6 DEF TrueDump

\* A dump taken before the table is filled says what the one before has said.
LEMMA TrueStill ==
    ASSUME NEW f, NEW g, TrueDump(f), g.db = f.db, g.contents = f.contents, g.versions = f.versions,
           g.prev_ns = f.prev_ns
    PROVE  TrueDump(g)
<1>1. ASSUME NEW r, NEW x, Shows(f, r, x) PROVE Shows(g, r, x)
  BY <1>1 DEF Shows, NamesIn
<1> QED BY <1>1 DEF TrueDump

\* The second inductive invariant: what the dumps say that programs read is
\* true, and until a command is sent the keyspace is the one of the dump.
RestartInv ==
    /\ PersistInv /\ ByRename
    /\ TrueDump(rdb_file) /\ TrueDump(start) /\ (rdb_child # NULL => TrueDump(rdb_child))
    /\ fresh => db = start.db

\* It is what RestartRestores follows from.
LEMMA RestoresNow ==
    ASSUME Counting, PlainNames, RenamedOnce, RestartInv, CurrentFound
    PROVE  RestartRestores
<1> SUFFICES ASSUME fresh, Replayed, NEW i \in Item, IsRoot(i[1])
             PROVE  StoreNow[i] = Converted(start.contents[i], SchemaNow[i[1]])
  BY Zenon DEF RestartRestores
<1>1. PICK r \in NS, x \in Names : i = <<r, x>> /\ IsRoot(r) /\ i[1] = r
  BY DEF Item
<1>2. PersistInv /\ StringInv /\ TableInv /\ RegistryTypeOK /\ db = start.db /\ TrueDump(start)
  BY Zenon, ReplayedInOrder DEF RestartInv, StringInv, TableInv
<1>3. Single
  BY Zenon, <1>2, SingleFacts DEF RestartInv
<1>4. PICK n, o, v : n = Current(r) /\ o = Held(db, n, x) /\ v = Latest(n)
  BY Zenon
<1>5. n \in NS /\ Registered(n) /\ next_ns[n] = NULL /\ (n = r \/ prev_ns[n] = r)
  BY Zenon, <1>1, <1>2, <1>3, <1>4, CurrentIs
<1>6. StoreNow[i] = Converted(o, v) /\ SchemaNow[i[1]] = v
  <2>1. StoreNow[<<r, x>>] = Converted(o, v)
    BY Zenon, <1>1, <1>2, <1>3, <1>4, StoreFacts
  <2>2. SchemaNow[r] = v
    BY Zenon, <1>1, <1>4 DEF SchemaNow
  <2> QED BY Zenon, <1>1, <2>1, <2>2
<1>7. /\ Fits(o, n)
      /\ o = IF db[Append(n, x)] # NULL \/ prev_ns[n] = NULL THEN db[Append(n, x)]
             ELSE db[Append(prev_ns[n], x)]
  BY <1>2, <1>4, <1>5, HeldFacts DEF StringInv
<1>8. r # NULL /\ prev_ns[r] = NULL /\ n # NULL
  BY Zenon, <1>1, <1>5, RegistryAssumption DEF IsRoot
<1>9. ASSUME NEW m \in NS, start.versions[m] = << >> PROVE db[Append(m, x)] = NULL
  <2>1. FitsIn(db[Append(m, x)], start.versions[m])
    BY Zenon, <1>2 DEF PersistInv, GoodDump
  <2> QED BY Zenon, <1>9, <2>1 DEF FitsIn
<1>10. CASE start.versions[r] = << >>
  <2>1. start.contents[i] = NULL
    BY Zenon, <1>1, <1>2, <1>10 DEF TrueDump
  <2>2. n # r => start.versions[n] = << >>
    BY <1>2, <1>5, <1>8, <1>10 DEF TrueDump, Replayed
  <2>3. db[Append(r, x)] = NULL /\ db[Append(n, x)] = NULL
    BY Zenon, <1>5, <1>9, <1>10, <2>2
  <2>4. o = NULL
    BY Zenon, <1>5, <1>7, <1>8, <2>3
  <2> QED BY Zenon, <1>6, <2>1, <2>4 DEF Converted
<1>11. CASE start.versions[r] # << >>
  <2>1. start.prev_ns[r] = NULL
    BY Zenon, <1>8, <1>11 DEF Replayed
  <2>2. PICK l \in NamesIn(start, r) :
          /\ start.contents[<<r, x>>] = Converted(db[Append(l, x)], Garbled)
          /\ db[Append(l, x)] = NULL => \A m \in NamesIn(start, r) : db[Append(m, x)] = NULL
    BY Zenon, <1>2, <1>11, <2>1 DEF TrueDump, Shows
  <2>3. ASSUME NEW m \in NamesIn(start, r), m # r
        PROVE  m \in NS /\ prev_ns[m] = r /\ m = n
    <3>1. m \in NS /\ start.prev_ns[m] = r
      BY Zenon, <2>3 DEF NamesIn
    <3>2. start.versions[m] # << >>
      BY Zenon, <1>2, <1>8, <3>1 DEF TrueDump
    <3>3. prev_ns[m] = r
      BY Zenon, <3>1, <3>2 DEF Replayed
    <3>4. next_ns[r] = m
      BY Zenon, <1>2, <1>8, <3>1, <3>3 DEF TableInv, DocHistory, LinksOf
    <3>5. prev_ns[n] = r => next_ns[r] = n
      BY Zenon, <1>2, <1>5, <1>8 DEF TableInv, DocHistory, LinksOf
    <3> QED BY Zenon, <1>5, <1>8, <3>1, <3>3, <3>4, <3>5, RegistryAssumption
  <2>4. n # r /\ n \notin NamesIn(start, r) => db[Append(n, x)] = NULL
    <3> SUFFICES ASSUME n # r, n \notin NamesIn(start, r), start.versions[n] # << >> PROVE FALSE
      BY Zenon, <1>5, <1>9
    <3> QED BY Zenon, <1>5 DEF Replayed, NamesIn
  <2>5. OneName(db)
    BY Zenon, <1>2 DEF StringInv, DataInv
  <2>6. r \in NamesIn(start, r)
    BY Zenon DEF NamesIn
  <2>7. o = db[Append(l, x)]
    <3>1. CASE n = r
      <4>1. l = r
        BY Zenon, <2>3, <3>1
      <4> QED BY Zenon, <1>7, <1>8, <3>1, <4>1
    <3>2. CASE n # r
      <4>1. prev_ns[n] = r /\ o = IF db[Append(n, x)] # NULL THEN db[Append(n, x)] ELSE db[Append(r, x)]
        BY Zenon, <1>5, <1>7, <1>8, <3>2
      <4>2. db[Append(n, x)] = NULL \/ db[Append(r, x)] = NULL
        BY Zenon, <1>5, <1>8, <2>5, <4>1 DEF OneName
      <4>3. l = r \/ l = n
        BY Zenon, <2>3
      <4> QED BY Zenon, <2>2, <2>4, <2>6, <3>2, <4>1, <4>2, <4>3
    <3> QED BY Zenon, <3>1, <3>2
  <2>8. Converted(Converted(o, Garbled), v) = Converted(o, v)
    <3>1. PICK vs : vs = versions[n] /\ vs \in Seq(Vers)
      BY Zenon, <1>2, <1>5 DEF RegistryTypeOK
    <3>2. FitsIn(o, vs)
      BY Zenon, <1>7, <3>1 DEF Fits, FitsIn, Registered
    <3> QED BY Zenon, <3>1, <3>2, ConvertedTwice
  <2> QED BY Zenon, <1>1, <1>6, <2>2, <2>7, <2>8
<1> QED BY Zenon, <1>10, <1>11

\* What is saved says what programs read.
LEMMA TrueSaved ==
    ASSUME Counting, PlainNames, OneByte, RenamedOnce, RestartInv, CurrentFound
    PROVE  TrueDump(rdbSave(Server))
<1> PICK s, f : s = Server /\ f = rdbSave(s)
  BY Zenon
<1>2. PersistInv /\ TrueDump(start) /\ ByRename /\ RegistryTypeOK
  BY Zenon DEF RestartInv, PersistInv, TableInv
<1>3. f.db = db
  BY Zenon, <1>2, SavedInOrder
<1>4. /\ f.contents = IF Replayed THEN Contents ELSE start.contents
      /\ f.versions = IF Replayed THEN versions ELSE start.versions
      /\ f.prev_ns = IF Replayed THEN prev_ns ELSE start.prev_ns
  BY Zenon, SaveFields
<1>5. CASE Replayed
  <2>1. StringInv /\ Single
    BY Zenon, <1>2, <1>5, ReplayedInOrder, SingleFacts
  <2>2. TrueDump(f)
    BY Zenon, <1>3, <1>4, <1>5, <2>1, TrueNow
  <2> QED BY Zenon, <2>2
<1>6. CASE ~Replayed
  <2> PICK g : g = start
    BY Zenon
  <2>2. g.db = db
    BY Zenon, <1>2, <1>6 DEF PersistInv
  <2>3. TrueDump(f)
    BY Zenon, <1>2, <1>3, <1>4, <1>6, <2>2, TrueStill
  <2> QED BY Zenon, <2>3
<1> QED BY Zenon, <1>5, <1>6

\* Saving, failing to save, crashing and starting again.
LEMMA RestartSaves ==
    ASSUME Counting, PlainNames, OneByte, RenamedOnce, RestartInv, CurrentFound, SaveStep, TableInv', ByRename'
    PROVE  RestartInv'
<1>1. PICK f, g, h, a : f = rdbSave(Server) /\ g = rdb_file /\ h = rdb_child /\ a = start
  BY Zenon
<1>2. TrueDump(f) /\ TrueDump(g) /\ TrueDump(a) /\ (h # NULL => TrueDump(h))
  BY Zenon, <1>1, TrueSaved DEF RestartInv
<1>3. PersistInv' /\ Settled = Server
  BY Zenon, PersistSaves, SettledInFile DEF RestartInv
<1>4. ASSUME NEW b, NEW c, NEW e, TrueDump(b), TrueDump(c), e # NULL => TrueDump(e),
             rdb_file' = b, start' = c, rdb_child' = e, fresh' => db' = c.db
      PROVE  RestartInv'
  <2>1. TrueDump(rdb_file)' /\ TrueDump(start)' /\ (rdb_child' # NULL => TrueDump(rdb_child)')
    BY Zenon, <1>4
  <2> QED BY Zenon, <1>3, <1>4, <2>1 DEF RestartInv
<1>5. ASSUME UNCHANGED <<db, start, fresh>>, NEW b, NEW e, TrueDump(b), e # NULL => TrueDump(e),
             rdb_file' = b, rdb_child' = e
      PROVE  RestartInv'
  BY Zenon, <1>1, <1>2, <1>4, <1>5 DEF RestartInv
<1>6. Becomes(Settled) => UNCHANGED db
  BY SettledInFile, ServerFacts DEF Becomes, RestartInv
<1>7. CASE serverCron
  <2>1. UNCHANGED <<db, start, fresh>> /\ rdb_file' = g /\ rdb_child' = f
    BY Zenon, <1>1, <1>7 DEF serverCron, rdbSaveBackground, kvolveVars, dataVars
  <2> QED BY Zenon, <1>2, <1>5, <2>1
<1>8. CASE bgsaveCommand
  <2>1. UNCHANGED <<db, start, fresh>> /\ rdb_file' = g /\ rdb_child' = f
    BY Zenon, <1>1, <1>3, <1>6, <1>8 DEF bgsaveCommand, rdbSaveBackground, Commanded
  <2> QED BY Zenon, <1>2, <1>5, <2>1
<1>9. CASE saveCommand
  <2>1. UNCHANGED <<db, start, fresh>> /\ rdb_file' = f /\ rdb_child' = h
    BY Zenon, <1>1, <1>3, <1>6, <1>9 DEF saveCommand, Commanded
  <2> QED BY Zenon, <1>2, <1>5, <2>1
<1>10. CASE backgroundSaveDoneHandler
  <2>1. /\ UNCHANGED <<db, start, fresh>>
        /\ rdb_file' \in {g, h} /\ h # NULL /\ rdb_child' = NULL
    BY Zenon, <1>1, <1>10 DEF backgroundSaveDoneHandler, kvolveVars, dataVars
  <2>2. PICK e, q : e = rdb_file' /\ q = NULL
    BY Zenon
  <2> QED BY Zenon, <1>2, <1>5, <2>1, <2>2
<1>11. ASSUME NEW b, TrueDump(b), GoodDump(b), rdbLoad(b), rdb_file' \in {b, g} PROVE RestartInv'
  <2>1. db' = b.db
    <3>1. PICK d, vs : d = b.db /\ vs = b.versions
      BY Zenon
    <3>2. [k \in Key |-> rdbLoadObject(d[k])] = d
      BY <1>11, <3>1, AllRoundTrip DEF GoodDump
    <3> QED BY Zenon, <1>11, <3>1, <3>2 DEF rdbLoad
  <2>2. start' = b /\ rdb_child' = NULL
    BY Zenon, <1>11 DEF rdbLoad
  <2>3. PICK e, q : e = rdb_file' /\ q = NULL
    BY Zenon
  <2> QED BY Zenon, <1>2, <1>4, <1>11, <2>1, <2>2, <2>3
<1>12. CASE crash
  BY Zenon, <1>1, <1>2, <1>11, <1>12 DEF crash, RestartInv, PersistInv
<1>13. CASE prepareForShutdown(Server) \/ prepareForShutdown(Settled)
  <2>1. GoodDump(f)
    BY Zenon, <1>1, SavedInOrder DEF RestartInv
  <2> QED BY Zenon, <1>1, <1>2, <1>3, <1>11, <1>13, <2>1 DEF prepareForShutdown
<1> QED BY Zenon, <1>7, <1>8, <1>9, <1>10, <1>12, <1>13 DEF SaveStep

\* Steps that leave the file.
LEMMA RestartSteps ==
    ASSUME RestartInv, PersistInv', ByRename', UNCHANGED <<rdb_file, rdb_child, start>>,
           fresh' => fresh /\ db' = db
    PROVE  RestartInv'
<1>1. PICK g, h, a : g = rdb_file /\ h = rdb_child /\ a = start
  BY Zenon
<1>2. TrueDump(g) /\ TrueDump(a) /\ (h # NULL => TrueDump(h)) /\ (fresh => db = a.db)
  BY Zenon, <1>1 DEF RestartInv
<1>3. TrueDump(rdb_file)' /\ TrueDump(start)' /\ (rdb_child' # NULL => TrueDump(rdb_child)')
  BY Zenon, <1>1, <1>2
<1> QED BY Zenon, <1>1, <1>2, <1>3 DEF RestartInv

\* The first server has no file.
LEMMA RestartStart == ASSUME PersistInit, PersistInv, ByRename PROVE RestartInv
<1>1. /\ \A n \in NS : NoFile.versions[n] = << >> /\ NoFile.prev_ns[n] = NULL
      /\ \A r \in NS, x \in Names : NoFile.contents[<<r, x>>] = NULL
  BY Zenon DEF NoFile, Item
<1>2. TrueDump(NoFile)
  BY Zenon, <1>1 DEF TrueDump
<1>3. db = start.db
  BY Zenon DEF PersistInit, KvolveInit, NoFile
<1> QED BY Zenon, <1>2, <1>3 DEF RestartInv, PersistInit
=============================================================================
