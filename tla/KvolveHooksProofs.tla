------------------------- MODULE KvolveHooksProofs --------------------------
(***************************************************************************)
(* What the hooks of KVolve do to the data, where the registry is in order *)
(* and no namespace is inside another.                                     *)
(***************************************************************************)
EXTENDS KvolveStrings, TLAPS

\* What an entry of a history is.
LEMMA EntryFacts ==
    ASSUME RegistryTypeOK, HistoryAligned, NEW n \in NS, NEW i \in 2..Len(versions[n])
    PROVE  /\ info[n][i] \in UpdInfo /\ info[n][i] # NULL
           /\ info[n][i].from_ns \in NS /\ info[n][i].to_vers = versions[n][i]
<1>1. info[n] \in Seq(UpdInfo \cup {NULL}) /\ Len(info[n]) = Len(versions[n]) /\ Len(versions[n]) \in Nat
  BY DEF RegistryTypeOK, HistoryAligned
<1>2. i \in 1..Len(info[n]) /\ i # 1
  BY <1>1
<1>3. info[n][i] # NULL /\ info[n][i].to_vers = versions[n][i]
  BY Zenon, <1>2 DEF HistoryAligned
<1>4. info[n][i] \in UpdInfo \cup {NULL}
  BY <1>1, <1>2
<1> QED BY Zenon, <1>3, <1>4 DEF UpdInfo

-----------------------------------------------------------------------------
(* Names and keys *)

\* Prefixes of a sequence, with and without a further element.
LEMMA PrefixFacts ==
    ASSUME NEW S, NEW n \in Seq(S), NEW x \in S
    PROVE  /\ Append(n, x) \in Seq(S) /\ Len(Append(n, x)) = Len(n) + 1 /\ Len(n) \in Nat
           /\ Append(n, x)[Len(n) + 1] = x
           /\ \A j \in 0..Len(n) : SubSeq(Append(n, x), 1, j) = SubSeq(n, 1, j)
           /\ SubSeq(n, 1, Len(n)) = n
<1> DEFINE k == Append(n, x)
<1>1. k \in Seq(S) /\ Len(k) = Len(n) + 1 /\ k[Len(n) + 1] = x /\ \A i \in 1..Len(n) : k[i] = n[i]
  OBVIOUS
<1>2. Len(n) \in Nat
  OBVIOUS
<1> HIDE DEF k
<1>3. ASSUME NEW j \in 0..Len(n) PROVE SubSeq(k, 1, j) = SubSeq(n, 1, j)
  <2>1. SubSeq(k, 1, j) = [i \in 1..j |-> k[i]]
    BY <1>1, <1>2
  <2>2. SubSeq(n, 1, j) = [i \in 1..j |-> n[i]]
    BY <1>2
  <2>3. \A i \in 1..j : i \in 1..Len(n)
    BY <1>2
  <2> QED BY Zenon, <1>1, <2>1, <2>2, <2>3
<1>4. SubSeq(n, 1, Len(n)) = n
  <2>1. SubSeq(n, 1, Len(n)) = [i \in 1..Len(n) |-> n[i]]
    BY <1>2
  <2>2. n = [i \in 1..Len(n) |-> n[i]]
    OBVIOUS
  <2> QED BY Zenon, <2>1, <2>2
<1> QED BY Zenon, <1>1, <1>2, <1>3, <1>4 DEF k

\* A key is the name of its namespace and a last segment, and these are all that
\* kvolve_construct_prev_name looks at.
LEMMA KeyFacts ==
    ASSUME NEW n \in NS, NEW x \in Names
    PROVE  /\ Append(n, x) \in Key /\ Len(Append(n, x)) = Len(n) + 1 /\ Len(n) \in Nat \ {0}
           /\ Append(n, x)[Len(Append(n, x))] = x
           /\ SubSeq(Append(n, x), 1, Len(n)) = n
           /\ \A m : kvolve_construct_prev_name(Append(n, x), m) = Append(m, x)
<1>1. n \in Seq(STRING) /\ n # << >> /\ x \in STRING
  BY Zenon, HooksAssumption
<1>2. Len(n) \in Nat \ {0}
  BY <1>1
<1>3. Len(Append(n, x)) = Len(n) + 1 /\ Append(n, x)[Len(n) + 1] = x
  <2> DEFINE S == STRING
  <2>1. n \in Seq(S) /\ x \in S
    BY Zenon, <1>1
  <2> HIDE DEF S
  <2> QED BY <2>1, PrefixFacts
<1>4. SubSeq(Append(n, x), 1, Len(n)) = n
  <2> DEFINE S == STRING
  <2>1. n \in Seq(S) /\ x \in S
    BY Zenon, <1>1
  <2> HIDE DEF S
  <2>2. Len(n) \in 0..Len(n)
    BY <1>2
  <2> QED BY <2>1, <2>2, PrefixFacts
<1> QED BY <1>2, <1>3, <1>4 DEF Key, kvolve_construct_prev_name

\* So it is a key, and there is one.
LEMMA IsKey ==
    ASSUME NEW n \in NS, NEW x \in Names
    PROVE  Append(n, x) \in Key /\ Append(n, x) # NULL
<1>1. Append(n, x) \in Key
  BY DEF Key
<1> QED BY Zenon, <1>1, NullAssumption

\* No key is in two namespaces.
LEMMA KeyInjective ==
    ASSUME NEW n \in NS, NEW x \in Names, NEW m \in NS, NEW y \in Names, Append(n, x) = Append(m, y)
    PROVE  n = m /\ x = y
<1> DEFINE k == Append(n, x)
<1>1. Len(k) = Len(n) + 1 /\ Len(n) \in Nat /\ k[Len(k)] = x /\ SubSeq(k, 1, Len(n)) = n
  BY Zenon, KeyFacts
<1>2. Len(k) = Len(m) + 1 /\ Len(m) \in Nat /\ k[Len(k)] = y /\ SubSeq(k, 1, Len(m)) = m
  BY Zenon, KeyFacts
<1> HIDE DEF k
<1>3. \A i, j \in Nat : i + 1 = j + 1 => i = j
  OBVIOUS
<1>4. Len(n) = Len(m)
  BY Zenon, <1>1, <1>2, <1>3
<1> QED BY Zenon, <1>1, <1>2, <1>4

\* kvolve_version_hash_lookup finds the namespace of a key, if it is there.
LEMMA LookupFacts ==
    ASSUME PlainNames, NEW n \in NS, NEW x \in Names
    PROVE  kvolve_version_hash_lookup(Append(n, x)) = IF Registered(n) THEN n ELSE NULL
<1> DEFINE k == Append(n, x)
           found == {m \in NS : Registered(m) /\ Len(m) < Len(k) /\ SubSeq(k, 1, Len(m)) = m}
<1>1. Len(k) = Len(n) + 1 /\ Len(k) # 1 /\ Len(n) \in Nat
  BY KeyFacts
<1>2. ASSUME NEW m \in NS, Len(m) < Len(k), SubSeq(k, 1, Len(m)) = m PROVE m = n
  <2>1. m \in Seq(STRING) /\ n \in Seq(STRING) /\ x \in STRING
    BY Zenon, HooksAssumption
  <2>2. Len(m) <= Len(n) /\ Len(m) \in Nat
    <3>1. Len(m) \in Nat
      BY <2>1
    <3> QED BY <1>1, <1>2, <3>1
  <2>3. SubSeq(n, 1, Len(m)) = SubSeq(k, 1, Len(m))
    <3> DEFINE S == STRING
    <3>1. n \in Seq(S) /\ x \in S
      BY Zenon, <2>1
    <3> HIDE DEF S
    <3>2. Len(m) \in 0..Len(n)
      BY <1>1, <2>2
    <3> QED BY <3>1, <3>2, PrefixFacts
  <2> QED BY Zenon, <1>2, <2>2, <2>3 DEF PlainNames
<1>3. Len(n) < Len(k) /\ SubSeq(k, 1, Len(n)) = n
  BY <1>1, KeyFacts
<1>4. found = IF Registered(n) THEN {n} ELSE {}
  BY Zenon, <1>2, <1>3
<1> DEFINE F == IF Len(k) = 1 THEN {<<"*">>} \cap {m \in NS : Registered(m)} ELSE found
<1>5. kvolve_version_hash_lookup(k) =
        IF F = {} THEN NULL ELSE CHOOSE m \in F : \A l \in F : Len(l) <= Len(m)
  BY Zenon DEF kvolve_version_hash_lookup
<1>8. F = found
  BY Zenon, <1>1
<1> HIDE DEF k, found, F
<1>6. CASE Registered(n)
  <2>1. found = {n} /\ n \in found
    BY Zenon, <1>4, <1>6
  <2>2. (CHOOSE m \in found : \A l \in found : Len(l) <= Len(m)) \in found
    BY <1>1, <2>1
  <2> QED BY <1>5, <1>6, <1>8, <2>1, <2>2 DEF k
<1>7. CASE ~Registered(n)
  BY Zenon, <1>4, <1>5, <1>7, <1>8 DEF k
<1> QED BY Zenon, <1>6, <1>7 DEF k

\* The walk along the old names ends after one step: the name of a namespace is
\* looked up as if it were a key, and is in no other namespace.
LEMMA NoHop ==
    ASSUME PlainNames, NEW t \in NS, prev_ns[t] \in NS
    PROVE  NextHop(t) = NULL
<1> DEFINE p == prev_ns[t]
<1>1. p \in Seq(STRING) /\ p # << >> /\ Len(p) \in Nat
  BY HooksAssumption
<1>2. {<<"*">>} \cap {n \in NS : Registered(n)} = {}
  BY Zenon DEF PlainNames
<1>3. {n \in NS : Registered(n) /\ Len(n) < Len(p) /\ SubSeq(p, 1, Len(n)) = n} = {}
  <2> SUFFICES ASSUME NEW n \in NS, Len(n) < Len(p), SubSeq(p, 1, Len(n)) = n PROVE FALSE
    BY Zenon
  <2>1. Len(n) \in Nat
    BY HooksAssumption
  <2>2. n = p
    BY <1>1, <2>1 DEF PlainNames
  <2> QED BY <2>1, <2>2
<1> QED BY Zenon, <1>2, <1>3 DEF NextHop, kvolve_version_hash_lookup

-----------------------------------------------------------------------------
(* Finding a value *)

\* kvolve_get_db_val looks under the name it is given and under the one before.
LEMMA GetDbVal ==
    ASSUME PlainNames, RegistryTypeOK, NEW s, NEW n \in NS, NEW x \in Names
    PROVE  kvolve_get_db_val(s, Append(n, x), n) = FoundAt(s.db, n, x)
<1> DEFINE k == Append(n, x)
           S == SUBSET NS
           T == NS \cup {NULL}
           Old(t) == kvolve_construct_prev_name(k, prev_ns[t])
           Visit(t, left, next) ==
             IF t \notin left THEN NULL
             ELSE IF prev_ns[t] = NULL THEN NULL
             ELSE IF s.db[Old(t)] # NULL THEN Old(t) ELSE next
           Body(f) == [left \in S |-> [t \in T |-> Visit(t, left, f[left \ {t}][NextHop(t)])]]
           W == [left \in S |-> [t \in T |-> Visit(t, left, NULL)]]
           Walk == CHOOSE f : f = Body(f)
<1>1. \A t \in NS : prev_ns[t] # NULL => NextHop(t) = NULL
  BY Zenon, NoHop DEF RegistryTypeOK
<1>2. NULL \in T /\ n \in T /\ NS \in S /\ \A left \in S : NULL \notin left
  BY Zenon, RegistryAssumption
<1>3. \A t, left : left \in S => left \ {t} \in S
  BY Zenon
<1> HIDE DEF S, Old
<1>4. ASSUME NEW t \in T, NEW left \in S PROVE Visit(t, left, NULL) = Visit(t, left, W[left \ {t}][NextHop(t)])
  <2>1. CASE t \in left /\ prev_ns[t] # NULL
    <3>1. NextHop(t) = NULL
      BY Zenon, <1>1, <2>1 DEF S
    <3>2. W[left \ {t}][NULL] = NULL
      BY Zenon, <1>2, <1>3
    <3> QED BY Zenon, <3>1, <3>2
  <2>2. CASE ~(t \in left /\ prev_ns[t] # NULL)
    BY Zenon, <2>2
  <2> QED BY Zenon, <2>1, <2>2
<1>5. W = Body(W)
  <2> HIDE DEF Visit
  <2> QED BY Zenon, <1>4
<1>6. Walk = Body(Walk)
  <2> HIDE DEF W, Body
  <2> QED BY Zenon, <1>5
<1>7. \A t \in T, left \in S : Walk[left][t] = Visit(t, left, Walk[left \ {t}][NextHop(t)])
  <2> HIDE DEF Visit, Walk
  <2>1. ASSUME NEW t \in T, NEW left \in S
        PROVE  Body(Walk)[left][t] = Visit(t, left, Walk[left \ {t}][NextHop(t)])
    BY Zenon
  <2> HIDE DEF Body
  <2> QED BY Zenon, <1>6, <2>1
<1>8. kvolve_get_db_val(s, k, n) = IF s.db[k] # NULL THEN k ELSE Walk[NS][n]
  BY Zenon DEF kvolve_get_db_val, S, Old
<1> HIDE DEF Walk, k, W, T
<1>9. Walk[NS][n] = IF prev_ns[n] # NULL /\ s.db[Old(n)] # NULL THEN Old(n) ELSE NULL
  <2>1. Walk[NS][n] = Visit(n, NS, Walk[NS \ {n}][NextHop(n)])
    BY Zenon, <1>2, <1>7
  <2>2. Walk[NS \ {n}][NULL] = NULL
    BY Zenon, <1>2, <1>3, <1>7
  <2> QED BY Zenon, <1>1, <2>1, <2>2
<1> QED BY Zenon, <1>8, <1>9, KeyFacts DEF k, Old, FoundAt

-----------------------------------------------------------------------------
(* Loops *)

\* What holds before the first round and after each round if before it, holds
\* after all N.
LEMMA Rounds ==
    ASSUME Counting, NEW N \in Nat, NEW T, 0 \in T, \A n \in 1..N : n - 1 \in T => n \in T
    PROVE  0..N \subseteq T
BY Zenon DEF Counting

\* The hook of a command with one key is the hook for the key.
LEMMA LoopOne ==
    ASSUME NEW cmd, NEW s, NEW k, NEW v
    PROVE  EachKey(cmd, s, <<k>>, v) = OnKey(cmd, s, k, v)
<1> DEFINE es == <<k>>
           E(f) == [n \in 0..Len(es) |-> IF n = 0 THEN s ELSE OnKey(cmd, f[n - 1], es[n], v)]
           after == CHOOSE f : f = E(f)
           W == [n \in 0..1 |-> IF n = 0 THEN s ELSE OnKey(cmd, s, k, v)]
<1>1. Len(es) = 1 /\ es[1] = k
  BY Zenon
<1>2. EachKey(cmd, s, es, v) = after[Len(es)]
  BY Zenon DEF EachKey, Loop
<1> HIDE DEF es
<1>3. W = E(W)
  BY <1>1
<1>4. after = E(after)
  <2> HIDE DEF W, E
  <2> QED BY Zenon, <1>3
<1> HIDE DEF after
<1>5. E(after)[0] = s /\ E(after)[1] = OnKey(cmd, after[0], k, v)
  BY <1>1
<1> HIDE DEF E
<1> QED BY Zenon, <1>1, <1>2, <1>4, <1>5 DEF es

\* The hook of MGET, MSET and DEL with two keys is the one for the first key and
\* then, on what it has left, the one for the second.
LEMMA LoopTwo ==
    ASSUME NEW cmd, NEW s, NEW k, NEW l, NEW v
    PROVE  EachKey(cmd, s, <<k, l>>, v) = OnKey(cmd, OnKey(cmd, s, k, v), l, v)
<1> DEFINE es == <<k, l>>
           E(f) == [n \in 0..Len(es) |-> IF n = 0 THEN s ELSE OnKey(cmd, f[n - 1], es[n], v)]
           after == CHOOSE f : f = E(f)
           one == OnKey(cmd, s, k, v)
           W == [n \in 0..2 |-> IF n = 0 THEN s ELSE IF n = 1 THEN one ELSE OnKey(cmd, one, l, v)]
<1>1. Len(es) = 2 /\ es[1] = k /\ es[2] = l
  BY Zenon
<1>2. EachKey(cmd, s, es, v) = after[Len(es)]
  BY Zenon DEF EachKey, Loop
<1> HIDE DEF es
<1>3. W = E(W)
  <2>1. W[0] = s /\ W[1] = one
    OBVIOUS
  <2>2. ASSUME NEW n \in 0..2
        PROVE  W[n] = IF n = 0 THEN s ELSE OnKey(cmd, W[n - 1], es[n], v)
    <3>1. n = 0 \/ n = 1 \/ n = 2
      BY <2>2
    <3> HIDE DEF one
    <3> QED BY <1>1, <2>1, <3>1 DEF one
  <2> HIDE DEF one
  <2>3. W = [n \in 0..2 |-> W[n]]
    BY Zenon
  <2> HIDE DEF W
  <2> QED BY Zenon, <1>1, <2>2, <2>3
<1>4. after = E(after)
  <2> HIDE DEF W, E
  <2> QED BY Zenon, <1>3
<1> HIDE DEF after
<1>5. /\ E(after)[0] = s /\ E(after)[1] = OnKey(cmd, after[0], k, v)
      /\ E(after)[2] = OnKey(cmd, after[1], l, v)
  BY <1>1
<1> HIDE DEF E
<1> QED BY Zenon, <1>1, <1>2, <1>4, <1>5 DEF es

-----------------------------------------------------------------------------
(* Updating a value *)

\* A version is in the history at one place, where key_vers finds it.
LEMMA KeyVersFacts ==
    ASSUME RegistryTypeOK, DocHistory, NEW v \in NS, NEW i \in 1..Len(versions[v])
    PROVE  KeyVers(v, versions[v][i]) = i
<1>1. versions[v] \in Seq(Vers) /\ \A a, b \in 1..Len(versions[v]) : versions[v][a] = versions[v][b] => a = b
  BY Zenon DEF RegistryTypeOK, DocHistory, HistoryOf
<1>2. DOMAIN versions[v] = 1..Len(versions[v]) /\ Len(versions[v]) \in Nat
  BY <1>1
<1>3. versions[v][i] \in Elements(versions[v])
  BY Zenon, <1>2 DEF Elements
<1> DEFINE w == versions[v][i]
           P(j) == versions[v][j] = w /\ \A l \in 1..(j - 1) : versions[v][l] # w
<1>4. P(i)
  <2> SUFFICES ASSUME NEW l \in 1..(i - 1), versions[v][l] = w PROVE FALSE
    BY Zenon
  <2>1. l \in 1..Len(versions[v]) /\ l # i
    BY <1>2
  <2> QED BY Zenon, <1>1, <2>1
<1>5. \A j \in 1..Len(versions[v]) : P(j) => j = i
  BY Zenon, <1>1
<1>6. KeyVers(v, w) = CHOOSE j \in 1..Len(versions[v]) : P(j)
  BY Zenon, <1>3 DEF KeyVers
<1> HIDE DEF P
<1>7. KeyVers(v, w) \in 1..Len(versions[v]) /\ P(KeyVers(v, w))
  BY Zenon, <1>4, <1>6
<1> QED BY Zenon, <1>5, <1>7

\* The update functions from the version of a value to the last, one after the
\* other, are each given the schema they were written for: the value is in the
\* schema of the last version in the end.
LEMMA UpdateChain ==
    ASSUME Counting, RegistryTypeOK, HistoryAligned, DocHistory, NEW v \in NS, NEW i \in 1..Len(versions[v]),
           NEW o, o.vers = versions[v][i], NEW p
    PROVE  Loop([val |-> p, conf |-> versions[v][i]], UpdatesDue(o, v), Updated)
             = [val |-> p, conf |-> Latest(v)]
<1> DEFINE es == UpdatesDue(o, v)
           L == Len(versions[v])
           M == L - i
           b(n) == [val |-> p, conf |-> versions[v][i + n]]
           E(f) == [n \in 0..Len(es) |-> IF n = 0 THEN b(0) ELSE Updated(f[n - 1], es[n])]
           after == CHOOSE f : f = E(f)
           W == [n \in 0..M |-> b(n)]
<1>1. L \in Nat /\ M \in Nat
  BY DEF RegistryTypeOK
<1>2. Len(es) = M /\ \A n \in 1..M : es[n] = info[v][i + n]
  <2>1. es = [n \in 1..M |-> info[v][i + n]]
    BY Zenon, KeyVersFacts DEF UpdatesDue
  <2> HIDE DEF es
  <2> QED BY <1>1, <2>1
<1>3. i + 0 = i
  OBVIOUS
<1>4. Loop([val |-> p, conf |-> versions[v][i]], es, Updated) = after[Len(es)]
  <2>1. [val |-> p, conf |-> versions[v][i]] = b(0)
    BY Zenon, <1>3
  <2> HIDE DEF b, es
  <2> QED BY Zenon, <2>1 DEF Loop
<1> HIDE DEF es
<1>5. ASSUME NEW n \in 1..M PROVE b(n) = Updated(b(n - 1), es[n])
  <2>1. i + n \in 2..L /\ i + n - 1 \in 1..L /\ i + (n - 1) = i + n - 1
    BY <1>1
  <2>2. /\ es[n] # NULL /\ es[n].from_vers = versions[v][i + n - 1]
        /\ es[n].to_vers = versions[v][i + n]
    BY <1>2, <2>1, EntryFacts DEF DocHistory, HistoryOf
  <2>3. versions[v][i + n - 1] \in Vers
    BY <2>1 DEF RegistryTypeOK
  <2>4. versions[v][i + n - 1] # 0
    BY Zenon, <2>3, HooksAssumption
  <2> QED BY Zenon, <2>1, <2>2, <2>4 DEF Updated, IsNumber
<1> HIDE DEF b
<1>6. W = E(W)
  <2>1. ASSUME NEW n \in 0..M
        PROVE  b(n) = IF n = 0 THEN b(0) ELSE Updated(W[n - 1], es[n])
    <3>1. CASE n = 0
      BY Zenon, <3>1
    <3>2. CASE n # 0
      <4>1. n \in 1..M /\ n - 1 \in 0..M
        BY <1>1, <3>2
      <4>2. W[n - 1] = b(n - 1)
        BY Zenon, <4>1
      <4> QED BY Zenon, <1>5, <3>2, <4>1, <4>2
    <3> QED BY Zenon, <3>1, <3>2
  <2> QED BY Zenon, <1>2, <2>1
<1>7. after = E(after)
  <2> HIDE DEF W, E
  <2> QED BY Zenon, <1>6
<1> HIDE DEF after
<1>8. ASSUME NEW n \in 0..M PROVE after[n] = IF n = 0 THEN b(0) ELSE Updated(after[n - 1], es[n])
  <2>1. E(after)[n] = IF n = 0 THEN b(0) ELSE Updated(after[n - 1], es[n])
    BY Zenon, <1>2
  <2> HIDE DEF E
  <2> QED BY Zenon, <1>7, <2>1
<1> HIDE DEF E, L, M
<1> DEFINE T == {n \in 0..M : after[n] = b(n)}
<1>9. 0..M \subseteq T
  <2>1. 0 \in T
    BY <1>1, <1>8
  <2>2. \A n \in 1..M : n - 1 \in T => n \in T
    <3> SUFFICES ASSUME NEW n \in 1..M, n - 1 \in T PROVE n \in T
      BY Zenon
    <3>1. n \in 0..M /\ n # 0
      BY <1>1
    <3> QED BY Zenon, <1>5, <1>8, <3>1
  <2> HIDE DEF T
  <2> QED BY Zenon, <1>1, <2>1, <2>2, Rounds
<1>10. after[M] = b(M)
  BY <1>1, <1>9
<1>11. i + M = L
  BY <1>1 DEF M
<1> QED BY Zenon, <1>2, <1>4, <1>10, <1>11 DEF es, b, L, Latest

-----------------------------------------------------------------------------
(* The hooks of the string commands *)

\* The fields of a server.
LEMMA ServerFacts ==
    ASSUME NEW d, NEW t, NEW w, NEW r
    PROVE  /\ Srv(d, t, w, r).db = d /\ Srv(d, t, w, r).tmp = t
           /\ Srv(d, t, w, r).touched = w /\ Srv(d, t, w, r).res = r
BY Zenon DEF Srv

\* What "rename" does through the fake client.
LEMMA RenameFacts ==
    ASSUME NEW d, NEW t, NEW w, NEW r, NEW from, NEW to
    PROVE  /\ d[from] = NULL =>
                renameGenericCommand(Srv(d, t, w, r), from, to) = Srv(d, t, w, r)
           /\ d[from] # NULL =>
                renameGenericCommand(Srv(d, t, w, r), from, to) =
                  Srv(Shifted(d, from, to), t, Signalled(w, from, to), r)
<1> DEFINE s == Srv(d, t, w, r)
           d1 == [d EXCEPT ![to] = d[from]]
           d2 == [d1 EXCEPT ![from] = NULL]
<1>1. s.db = d
  BY ServerFacts
<1>2. [s EXCEPT !.db[to] = s.db[from]] = Srv(d1, t, w, r)
  BY DEF Srv
<1> HIDE DEF d1
<1>3. [Srv(d1, t, w, r) EXCEPT !.db[from] = NULL] = Srv(d2, t, w, r)
  BY DEF Srv
<1> HIDE DEF d2
<1>4. [Srv(d2, t, w, r) EXCEPT !.touched = @ \cup {from, to}] = Srv(d2, t, w \cup {from, to}, r)
  BY DEF Srv
<1>5. [s EXCEPT !.db[to] = s.db[from], !.db[from] = NULL, !.touched = @ \cup {from, to}] =
        Srv(d2, t, w \cup {from, to}, r)
  BY Zenon, <1>2, <1>3, <1>4
<1> QED BY Zenon, <1>1, <1>5 DEF renameGenericCommand, d1, d2, Shifted, Signalled

\* kvolve_namespace_update moves a value that is under the old name only.
LEMMA NamespaceUpdate ==
    ASSUME RegistryTypeOK, NEW d, NEW t, NEW w, NEW r, NEW n \in NS, NEW x \in Names,
           prev_ns[n] # NULL \/ d[Append(n, x)] # NULL
    PROVE  kvolve_namespace_update(Srv(d, t, w, r), Append(n, x), n) = MovedServer(d, t, w, r, n, x)
<1> DEFINE k == Append(n, x)
           old == Append(prev_ns[n], x)
           s == Srv(d, t, w, r)
<1>1. s.db = d
  BY Zenon DEF Srv
<1>2. k[Len(k)] = x
  BY Zenon, KeyFacts
<1>3. kvolve_construct_prev_name(k, prev_ns[n]) = old
  BY Zenon, <1>2 DEF kvolve_construct_prev_name
<1>4. CASE d[k] # NULL
  <2>1. kvolve_namespace_update(s, k, n) = s
    BY Zenon, <1>1, <1>4 DEF kvolve_namespace_update
  <2>2. Moved(d, n, x) = d /\ Touched(d, w, n, x) = w
    BY Zenon, <1>4 DEF Moved, Touched, ToMove
  <2> QED BY Zenon, <2>1, <2>2 DEF MovedServer
<1>5. CASE d[k] = NULL
  <2>1. kvolve_namespace_update(s, k, n) = renameGenericCommand(s, old, k)
    BY Zenon, <1>1, <1>3, <1>5 DEF kvolve_namespace_update
  <2>2. CASE d[old] = NULL
    <3>1. Moved(d, n, x) = d /\ Touched(d, w, n, x) = w
      BY Zenon, <2>2 DEF Moved, Touched, ToMove
    <3>2. renameGenericCommand(s, old, k) = s
      BY <2>2, RenameFacts
    <3> QED BY Zenon, <2>1, <3>1, <3>2 DEF MovedServer
  <2>3. CASE d[old] # NULL
    <3>1. ToMove(d, n, x)
      BY Zenon, <1>5, <2>3 DEF ToMove
    <3>2. renameGenericCommand(s, old, k) =
            Srv(Shifted(d, old, k), t, Signalled(w, old, k), r)
      BY <2>3, RenameFacts
    <3> QED BY Zenon, <2>1, <3>1, <3>2 DEF MovedServer, Moved, Touched
  <2> QED BY Zenon, <2>2, <2>3
<1> QED BY Zenon, <1>4, <1>5

\* The hooks of SETNX, SET XX and INCR do just that.
LEMMA SetnxIncr ==
    ASSUME PlainNames, RegistryTypeOK, NEW d, NEW t, NEW w, NEW r, NEW n \in NS, NEW x \in Names
    PROVE  /\ kvolve_setnx(Srv(d, t, w, r), Append(n, x), n) = MovedServer(d, t, w, r, n, x)
           /\ kvolve_incr(Srv(d, t, w, r), Append(n, x), n) = MovedServer(d, t, w, r, n, x)
<1> DEFINE k == Append(n, x)
           s == Srv(d, t, w, r)
<1>1. s.db = d
  BY Zenon DEF Srv
<1>2. kvolve_get_db_val(s, k, n) = FoundAt(d, n, x)
  BY Zenon, <1>1, GetDbVal
<1>3. CASE ToMove(d, n, x)
  <2>1. FoundAt(d, n, x) = Append(prev_ns[n], x) /\ prev_ns[n] # NULL /\ d[k] = NULL
    BY Zenon, <1>3 DEF FoundAt, ToMove
  <2>2. Append(prev_ns[n], x) # NULL
    <3>1. prev_ns[n] \in NS
      BY Zenon, <2>1 DEF RegistryTypeOK
    <3> QED BY Zenon, <3>1, IsKey
  <2> QED BY <1>1, <1>2, <2>1, <2>2, NamespaceUpdate DEF kvolve_setnx, kvolve_incr
<1>4. CASE ~ToMove(d, n, x)
  <2>1. MovedServer(d, t, w, r, n, x) = s
    BY Zenon, <1>4 DEF MovedServer, Moved, Touched
  <2>2. d[k] = NULL => prev_ns[n] = NULL \/ FoundAt(d, n, x) = NULL
    BY Zenon, <1>4 DEF ToMove, FoundAt
  <2>3. d[k] # NULL => prev_ns[n] = NULL \/ kvolve_namespace_update(s, k, n) = s
    BY Zenon, <2>1, NamespaceUpdate
  <2>4. d[k] = NULL => FoundAt(d, n, x) = NULL
    BY Zenon, <1>4 DEF ToMove, FoundAt
  <2> QED BY Zenon, <1>1, <1>2, <2>1, <2>2, <2>3, <2>4 DEF kvolve_setnx, kvolve_incr
<1> QED BY Zenon, <1>3, <1>4

-----------------------------------------------------------------------------
(* Strings *)

\* The two forms of a string are told apart by the encoding.
LEMMA ObjectFacts ==
    ASSUME NEW p, NEW v
    PROVE  /\ Raw(p, v).type = "string" /\ Raw(p, v).enc = "raw" /\ Raw(p, v).vers = v
           /\ Raw(p, v).ptr = Datum(p, v) /\ Raw(p, v).ptr.val = p /\ Raw(p, v).ptr.conf = v
           /\ Num(p).type = "string" /\ Num(p).enc = "int" /\ Num(p).vers = 0
           /\ Num(p).ptr = Datum(p, 0) /\ Num(p).ptr.val = p /\ Num(p).ptr.conf = 0
BY Zenon DEF Raw, Num, Datum

\* The last version of a namespace in the table.
LEMMA LatestFacts ==
    ASSUME RegistryTypeOK, NEW n \in NS, Registered(n)
    PROVE  /\ Len(versions[n]) \in 1..Len(versions[n]) /\ Len(versions[n]) \in Nat
           /\ Latest(n) = versions[n][Len(versions[n])]
           /\ Latest(n) \in Vers
BY DEF RegistryTypeOK, Registered, Latest

\* A string under the old name of n is at an earlier version than the last of n,
\* and the first update it is due for is not one from n to n.
LEMMA OldVersion ==
    ASSUME TableInv, NEW n \in NS, NEW o, NEW j \in 1..Len(versions[prev_ns[n]]),
           prev_ns[n] # NULL, o.vers = versions[prev_ns[n]][j]
    PROVE  /\ prev_ns[n] \in NS /\ Registered(n) /\ j \in 1..Len(versions[n])
           /\ o.vers = versions[n][j] /\ o.vers # Latest(n)
           /\ UpdatesDue(o, n)[1] # NULL /\ UpdatesDue(o, n)[1].from_ns # n
<1> DEFINE p == prev_ns[n]
           L == Len(versions[n])
<1>1. p \in NS /\ Len(versions[p]) \in Nat /\ L \in Nat
  BY DEF TableInv, RegistryTypeOK
<1>2. Len(versions[p]) < L /\ \A i \in 1..Len(versions[p]) : versions[n][i] = versions[p][i]
  BY Zenon DEF TableInv, DocHistory, LinksOf
<1>3. j \in 1..L /\ j + 1 \in 2..L /\ 1 \in 1..(L - j) /\ j # L /\ L \in 1..L
  BY <1>1, <1>2
<1>4. Registered(n)
  BY <1>3 DEF Registered
<1>5. o.vers = versions[n][j]
  BY Zenon, <1>2
<1>6. o.vers # Latest(n)
  BY <1>3, <1>5 DEF TableInv, DocHistory, HistoryOf, Latest
<1>7. UpdatesDue(o, n)[1] = info[n][j + 1]
  <2>1. KeyVers(n, o.vers) = j
    BY Zenon, <1>3, <1>5, KeyVersFacts DEF TableInv
  <2> QED BY Zenon, <1>3, <2>1 DEF UpdatesDue
<1>8. info[n][j + 1] # NULL
  BY Zenon, <1>3, EntryFacts DEF TableInv
<1>9. info[n][j + 1].from_ns # n
  <2> SUFFICES ASSUME info[n][j + 1].from_ns = n PROVE FALSE
    BY Zenon
  <2>1. j + 1 > Len(versions[p]) + 1
    BY <1>3 DEF TableInv, DocHistory, HistoryOf
  <2> QED BY <1>1, <2>1
<1> QED BY Zenon, <1>1, <1>3, <1>4, <1>5, <1>6, <1>7, <1>8, <1>9

\* A string that is found under the old name: a number, or at an earlier version.
LEMMA OldObject ==
    ASSUME TableInv, NEW d, AllFit(d), NEW n \in NS, NEW x \in Names, ToMove(d, n, x)
    PROVE  LET o == d[Append(prev_ns[n], x)]
           IN  /\ prev_ns[n] \in NS /\ Registered(n)
               /\ \/ \E i \in Numbers : o = Num(i)
                  \/ \E p \in Payload, j \in 1..Len(versions[n]) :
                       /\ o = Raw(p, versions[n][j]) /\ o.vers # Latest(n)
                       /\ UpdatesDue(o, n)[1] # NULL /\ UpdatesDue(o, n)[1].from_ns # n
<1> DEFINE o == d[Append(prev_ns[n], x)]
<1>1. prev_ns[n] # NULL /\ prev_ns[n] \in NS /\ o # NULL
  BY Zenon DEF ToMove, TableInv, RegistryTypeOK
<1>2. Fits(o, prev_ns[n])
  BY Zenon, <1>1 DEF AllFit
<1>3. Registered(n)
  BY Zenon, <1>1 DEF TableInv, TableConsistent
<1>4. CASE \E i \in Numbers : o = Num(i)
  BY Zenon, <1>1, <1>3, <1>4
<1>5. CASE \E p \in Payload, j \in 1..Len(versions[prev_ns[n]]) : o = Raw(p, versions[prev_ns[n]][j])
  <2>1. PICK p \in Payload, j \in 1..Len(versions[prev_ns[n]]) : o = Raw(p, versions[prev_ns[n]][j])
    BY Zenon, <1>5
  <2>2. o.vers = versions[prev_ns[n]][j]
    BY <2>1, ObjectFacts
  <2> PICK q : q = o
    BY Zenon
  <2>4. /\ j \in 1..Len(versions[n]) /\ q.vers = versions[n][j] /\ q.vers # Latest(n)
        /\ UpdatesDue(q, n)[1] # NULL /\ UpdatesDue(q, n)[1].from_ns # n
    <3>1. q.vers = versions[prev_ns[n]][j]
      BY Zenon, <2>2
    <3> QED BY <1>1, <3>1, OldVersion
  <2>5. q = Raw(p, versions[n][j])
    <3>1. versions[prev_ns[n]][j] = versions[n][j]
      BY Zenon, <2>2, <2>4
    <3> QED BY Zenon, <2>1, <3>1
  <2> QED BY Zenon, <1>1, <1>3, <2>4, <2>5
<1> QED BY Zenon, <1>1, <1>2, <1>4, <1>5 DEF Fits

\* kvolve_check_rename (DEL) moves whatever is under the old name only.
LEMMA CheckRename ==
    ASSUME PlainNames, TableInv, NEW d, AllFit(d), NEW t, NEW w, NEW r, NEW n \in NS, NEW x \in Names
    PROVE  kvolve_check_rename(Srv(d, t, w, r), Append(n, x), n) = MovedServer(d, t, w, r, n, x)
<1> DEFINE k == Append(n, x)
           old == Append(prev_ns[n], x)
           s == Srv(d, t, w, r)
           renames == /\ prev_ns[n] # NULL /\ FoundAt(d, n, x) # NULL
                      /\ (d[FoundAt(d, n, x)].enc = "int" \/ d[FoundAt(d, n, x)].vers # Latest(n))
<1>1. s.db = d
  BY ServerFacts
<1>2. kvolve_get_db_val(s, k, n) = FoundAt(d, n, x)
  BY Zenon, <1>1, GetDbVal DEF TableInv
<1>3. kvolve_check_rename(s, k, n) = IF renames THEN kvolve_namespace_update(s, k, n) ELSE s
  <2> HIDE DEF s, k
  <2> QED BY Zenon, <1>1, <1>2 DEF kvolve_check_rename
<1>4. CASE ToMove(d, n, x)
  <2>1. FoundAt(d, n, x) = old /\ prev_ns[n] # NULL
    BY Zenon, <1>4 DEF FoundAt, ToMove
  <2>2. prev_ns[n] \in NS /\ (d[old].enc = "int" \/ d[old].vers # Latest(n))
    BY <1>4, OldObject, ObjectFacts
  <2>3. old # NULL
    BY Zenon, <2>2, IsKey
  <2>4. renames
    BY Zenon, <2>1, <2>2, <2>3
  <2>5. kvolve_namespace_update(s, k, n) = MovedServer(d, t, w, r, n, x)
    BY Zenon, <2>1, NamespaceUpdate DEF TableInv
  <2> HIDE DEF renames
  <2> QED BY Zenon, <1>3, <2>4, <2>5
<1>5. CASE ~ToMove(d, n, x)
  <2>1. MovedServer(d, t, w, r, n, x) = s
    BY Zenon, <1>5 DEF MovedServer, Moved, Touched
  <2>2. CASE d[k] # NULL
    <3>1. kvolve_namespace_update(s, k, n) = MovedServer(d, t, w, r, n, x)
      BY Zenon, <2>2, NamespaceUpdate DEF TableInv
    <3> HIDE DEF renames
    <3> QED BY Zenon, <1>3, <2>1, <3>1
  <2>3. CASE d[k] = NULL
    <3>1. ~renames
      BY Zenon, <1>5, <2>3 DEF FoundAt, ToMove
    <3> HIDE DEF renames
    <3> QED BY Zenon, <1>3, <2>1, <3>1
  <2> QED BY Zenon, <2>2, <2>3
<1> QED BY Zenon, <1>4, <1>5

\* kvolve_set deletes what is under the old name only.
LEMMA SetHook ==
    ASSUME PlainNames, RegistryTypeOK, NEW d, NEW t, NEW w, NEW r, NEW n \in NS, NEW x \in Names
    PROVE  kvolve_set(Srv(d, t, w, r), Append(n, x), n) = Srv(Dropped(d, n, x), t, w, r)
<1> DEFINE k == Append(n, x)
           old == Append(prev_ns[n], x)
           s == Srv(d, t, w, r)
<1>1. s.db = d
  BY ServerFacts
<1>2. kvolve_get_db_val(s, k, n) = FoundAt(d, n, x)
  BY Zenon, <1>1, GetDbVal
<1>3. CASE ToMove(d, n, x)
  <2>1. FoundAt(d, n, x) = old /\ prev_ns[n] # NULL /\ d[k] = NULL
    BY Zenon, <1>3 DEF FoundAt, ToMove
  <2>2. old # NULL
    <3>1. prev_ns[n] \in NS
      BY Zenon, <2>1 DEF RegistryTypeOK
    <3> QED BY Zenon, <3>1, IsKey
  <2>3. kvolve_set(s, k, n) = [s EXCEPT !.db[old] = NULL]
    <3> HIDE DEF s, k, old
    <3> QED BY Zenon, <1>1, <1>2, <2>1, <2>2 DEF kvolve_set, kvolve_checkdel_old
  <2>4. [s EXCEPT !.db[old] = NULL] = Srv([d EXCEPT ![old] = NULL], t, w, r)
    <3> HIDE DEF old
    <3> QED BY DEF Srv
  <2>5. Dropped(d, n, x) = [d EXCEPT ![old] = NULL]
    BY Zenon, <1>3 DEF Dropped, At
  <2> QED BY Zenon, <2>3, <2>4, <2>5
<1>4. CASE ~ToMove(d, n, x)
  <2>1. Dropped(d, n, x) = d
    BY Zenon, <1>4 DEF Dropped
  <2>2. prev_ns[n] # NULL /\ d[k] = NULL => FoundAt(d, n, x) = NULL
    BY Zenon, <1>4 DEF FoundAt, ToMove
  <2>3. kvolve_set(s, k, n) = s
    <3> HIDE DEF s, k
    <3> QED BY Zenon, <1>1, <1>2, <2>2 DEF kvolve_set, kvolve_checkdel_old, k
  <2> QED BY Zenon, <2>1, <2>3
<1> QED BY Zenon, <1>3, <1>4

\* A new tag and new data for a string.
LEMMA Rewritten ==
    ASSUME NEW d, NEW t, NEW w, NEW r, NEW p, NEW v, NEW b, NEW h \in Key,
           OnKeys(d), d[h] = Raw(p, v)
    PROVE  Rewrite(Srv(d, t, w, r), h, b, Datum(p, b)) = Srv(At(d, h, Raw(p, b)), t, w, r)
<1> DEFINE o1 == [Raw(p, v) EXCEPT !.vers = b]
           q == Datum(p, b)
           o2 == [o1 EXCEPT !.ptr = q]
           d1 == [d EXCEPT ![h] = o1]
           d2 == [d1 EXCEPT ![h] = o2]
<1>1. o2 = Raw(p, b)
  <2>1. o1 = [type |-> "string", enc |-> "raw", vers |-> b, ptr |-> Datum(p, v)]
    BY DEF Raw
  <2> HIDE DEF o1
  <2> QED BY <2>1 DEF Raw
<1> HIDE DEF o1, o2, q
<1>2. [Srv(d, t, w, r) EXCEPT !.db[h].vers = b] = Srv([d EXCEPT ![h].vers = b], t, w, r)
  <2> PICK e : e = d
    BY Zenon
  <2>2. [Srv(e, t, w, r) EXCEPT !.db[h].vers = b] = Srv([e EXCEPT ![h].vers = b], t, w, r)
    BY DEF Srv
  <2> QED BY Zenon, <2>2
<1>3. [d EXCEPT ![h].vers = b] = d1
  BY Zenon DEF o1
<1>4. d1[h] = o1
  BY Zenon DEF OnKeys
<1> HIDE DEF d1
<1>5. [Srv(d1, t, w, r) EXCEPT !.db[h].ptr = q] = Srv([d1 EXCEPT ![h].ptr = q], t, w, r)
  BY DEF Srv
<1>6. [d1 EXCEPT ![h].ptr = q] = d2
  BY Zenon, <1>4 DEF o2
<1>7. d2 = [d EXCEPT ![h] = o2]
  BY Zenon DEF d1
<1> HIDE DEF d2
<1> QED BY Zenon, <1>1, <1>2, <1>3, <1>5, <1>6, <1>7 DEF Rewrite, At, q

\* What is in the keyspace after a move.
LEMMA MovedFacts ==
    ASSUME TableInv, NEW d, OnKeys(d), NEW n \in NS, NEW x \in Names
    PROVE  LET m == Moved(d, n, x)
           IN  /\ OnKeys(m)
               /\ ToMove(d, n, x) => /\ m[Append(n, x)] = d[Append(prev_ns[n], x)]
                                     /\ m[Append(prev_ns[n], x)] = NULL
               /\ ~ToMove(d, n, x) => m = d
               /\ \A l \in Key : (l # Append(n, x) /\ (ToMove(d, n, x) => l # Append(prev_ns[n], x)))
                                 => m[l] = d[l]
<1> DEFINE k == Append(n, x)
           old == Append(prev_ns[n], x)
<1>1. CASE ToMove(d, n, x)
  <2>1. prev_ns[n] \in NS /\ prev_ns[n] # n
    BY <1>1 DEF ToMove, TableInv, RegistryTypeOK, DocHistory, LinksOf
  <2>2. k \in Key /\ old \in Key /\ k # old
    BY Zenon, <2>1, IsKey, KeyInjective
  <2>3. Moved(d, n, x) = [d EXCEPT ![k] = d[old], ![old] = NULL]
    BY Zenon, <1>1 DEF Moved, Shifted
  <2> HIDE DEF k, old
  <2> QED BY Zenon, <1>1, <2>2, <2>3 DEF k, old, OnKeys
<1>2. CASE ~ToMove(d, n, x)
  BY Zenon, <1>2 DEF Moved
<1> QED BY Zenon, <1>1, <1>2

\* A string brought up to date where it is: what kvolve_check_update_kv_pair does
\* once the value is under its name.
LEMMA UpdatedHere ==
    ASSUME Counting, TableInv, NEW d, NEW t, NEW w, NEW r, NEW o, NEW n \in NS, NEW x \in Names,
           OnKeys(d), RawOf(o, n), d[Append(n, x)] = o
    PROVE  Rewrite(Srv(d, t, w, r), Append(n, x), Latest(n), ChainOf(o, n)) =
             Srv(At(d, Append(n, x), Fresh(d[Append(n, x)], n)), t, w, r)
<1> PICK p \in Payload, j \in 1..Len(versions[n]) : o = Raw(p, versions[n][j])
  BY Zenon DEF RawOf
<1>0. PICK v : v = versions[n][j] /\ o = Raw(p, v) /\ o # NULL
  BY Zenon DEF RawOf
<1> DEFINE k == Append(n, x)
<1>1. o.vers = v /\ o.ptr.val = p /\ o.enc = "raw" /\ o.ptr = Datum(p, v)
  BY <1>0, ObjectFacts
<1>2. Fresh(o, n) = Raw(p, Latest(n))
  BY Zenon, <1>0, <1>1 DEF Fresh
<1> PICK q : q = ChainOf(o, n)
  BY Zenon
<1>4. q = Datum(p, Latest(n))
  BY <1>0, <1>1, UpdateChain DEF TableInv, Datum, ChainOf
<1> PICK b : b = Latest(n)
  BY Zenon
<1>6. k \in Key
  BY Zenon, IsKey
<1>7. Rewrite(Srv(d, t, w, r), k, b, q) = Srv(At(d, k, Raw(p, b)), t, w, r)
  <2>1. q = Datum(p, b) /\ d[k] = Raw(p, v)
    BY Zenon, <1>0, <1>4
  <2> QED BY <1>6, <2>1, Rewritten
<1> QED BY Zenon, <1>2, <1>7

\* kvolve_check_update_kv_pair (GET, MGET, GETSET) moves a string that is under
\* the old name only and brings it up to date; numbers are only moved.
LEMMA CheckUpdate ==
    ASSUME Counting, PlainNames, TableInv, NEW d, NEW t, NEW w, NEW r, NEW n \in NS, NEW x \in Names, AllFit(d)
    PROVE  kvolve_check_update_kv_pair(Srv(d, t, w, r), Append(n, x), n) =
             Srv(Refreshed(d, n, x), t, Touched(d, w, n, x), r)
<1>1. PICK k, old, m, s : /\ k = Append(n, x) /\ old = Append(prev_ns[n], x)
                          /\ m = Moved(d, n, x) /\ s = Srv(d, t, w, r)
  BY Zenon
<1> DEFINE o == d[FoundAt(d, n, x)]
           renamed == Renamed(s, k, n, o)
           here == IF renamed.db[FoundAt(d, n, x)] = NULL THEN k ELSE FoundAt(d, n, x)
<1>2. s.db = d /\ kvolve_get_db_val(s, k, n) = FoundAt(d, n, x)
  BY <1>1, ServerFacts, GetDbVal DEF TableInv
<1>3. kvolve_check_update_kv_pair(s, k, n) =
        IF FoundAt(d, n, x) = NULL THEN s
        ELSE IF o.enc = "int" THEN kvolve_check_rename(s, k, n)
        ELSE IF o.vers = Latest(n) THEN s
        ELSE Rewrite(renamed, here, Latest(n), ChainOf(o, n))
  BY <1>2 DEF kvolve_check_update_kv_pair, Rewrite, ChainOf
<1>4. kvolve_check_rename(s, k, n) = MovedServer(d, t, w, r, n, x)
  BY Zenon, <1>1, CheckRename
<1>5. Refreshed(d, n, x) = At(m, k, Fresh(m[k], n)) /\ OnKeys(d) /\ OnKeys(m) /\ k \in Key /\ k # NULL
  BY Zenon, <1>1, MovedFacts, IsKey DEF Refreshed, AllFit
<1>6. Fresh(m[k], n) = m[k] => Refreshed(d, n, x) = m
  <2>1. At(m, k, m[k]) = m
    BY Zenon, <1>5 DEF At, OnKeys
  <2> QED BY Zenon, <1>5, <2>1
<1>7. MovedServer(d, t, w, r, n, x) = Srv(m, t, Touched(d, w, n, x), r)
  BY Zenon, <1>1 DEF MovedServer
<1> HIDE DEF renamed, here
<1>8. CASE FoundAt(d, n, x) = NULL
  <2>1. ~ToMove(d, n, x) /\ d[k] = NULL
    BY Zenon, <1>1, <1>5, <1>8, IsKey DEF FoundAt, ToMove, TableInv, RegistryTypeOK
  <2>2. m = d /\ Touched(d, w, n, x) = w /\ Fresh(NULL, n) = NULL
    BY Zenon, <1>1, <2>1 DEF Moved, Touched, Fresh
  <2> QED BY Zenon, <1>1, <1>3, <1>6, <1>8, <2>1, <2>2
<1>9. CASE d[k] # NULL
  <2>1. FoundAt(d, n, x) = k /\ m = d /\ Touched(d, w, n, x) = w
    BY Zenon, <1>1, <1>9 DEF FoundAt, Moved, Touched, ToMove
  <2>2. CASE \E i \in Numbers : d[k] = Num(i)
    <3>1. d[k].enc = "int"
      BY <2>2, ObjectFacts
    <3>2. Fresh(d[k], n) = d[k]
      BY Zenon, <3>1 DEF Fresh
    <3> QED BY Zenon, <1>1, <1>3, <1>4, <1>5, <1>6, <1>7, <2>1, <3>1, <3>2
  <2>3. CASE \E p \in Payload, j \in 1..Len(versions[n]) : d[k] = Raw(p, versions[n][j])
    <3>1. PICK p \in Payload, j \in 1..Len(versions[n]) : d[k] = Raw(p, versions[n][j])
      BY Zenon, <2>3
    <3>2. PICK q : q = d[k]
      BY Zenon
    <3>3. q.enc = "raw" /\ q.vers = versions[n][j] /\ q.ptr.val = p /\ q # NULL
      BY <1>9, <3>1, <3>2, ObjectFacts
    <3>4. CASE q.vers = Latest(n)
      <4>1. Fresh(q, n) = q
        BY Zenon, <3>1, <3>2, <3>3, <3>4 DEF Fresh
      <4> QED BY Zenon, <1>1, <1>3, <1>5, <1>6, <2>1, <3>2, <3>3, <3>4, <4>1
    <3>5. CASE q.vers # Latest(n)
      <4>1. Renamed(s, k, n, q) = s
        BY Zenon, <1>2, <1>9 DEF Renamed, kvolve_namespace_update
      <4>2. kvolve_check_update_kv_pair(s, k, n) =
              Rewrite(s, k, Latest(n), ChainOf(q, n))
        BY Zenon, <1>2, <1>3, <1>5, <2>1, <3>2, <3>3, <3>5, <4>1 DEF renamed, here
      <4>3. Rewrite(s, k, Latest(n), ChainOf(q, n)) =
              Srv(At(d, k, Fresh(d[k], n)), t, w, r)
        <5>1. d[Append(n, x)] = q /\ q = Raw(p, versions[n][j]) /\ q # NULL
          BY Zenon, <1>1, <3>1, <3>2, <3>3
        <5>2. RawOf(q, n)
          BY Zenon, <5>1 DEF RawOf
        <5>3. d[Append(n, x)] = q
          BY Zenon, <5>1
        <5>4. Rewrite(Srv(d, t, w, r), Append(n, x), Latest(n), ChainOf(q, n)) =
                Srv(At(d, Append(n, x), Fresh(d[Append(n, x)], n)), t, w, r)
          BY <1>5, <5>2, <5>3, UpdatedHere
        <5> QED BY Zenon, <1>1, <5>4
      <4> QED BY Zenon, <1>1, <1>5, <2>1, <4>2, <4>3
    <3> QED BY Zenon, <3>4, <3>5
  <2>4. Fits(d[k], n)
    BY Zenon, <1>1 DEF AllFit
  <2> QED BY Zenon, <1>9, <2>2, <2>3, <2>4 DEF Fits
<1>10. CASE ToMove(d, n, x)
  <2>1. FoundAt(d, n, x) = old /\ m[k] = d[old] /\ m[old] = NULL
    BY <1>1, <1>5, <1>10, MovedFacts DEF FoundAt, ToMove
  <2>2. old # NULL /\ prev_ns[n] # NULL /\ d[old] # NULL
    BY Zenon, <1>1, <1>10, OldObject, IsKey DEF ToMove
  <2>3. CASE \E i \in Numbers : d[old] = Num(i)
    <3>1. d[old].enc = "int"
      BY <2>3, ObjectFacts
    <3>2. Fresh(d[old], n) = d[old]
      BY Zenon, <3>1 DEF Fresh
    <3> QED BY Zenon, <1>1, <1>3, <1>4, <1>5, <1>6, <1>7, <2>1, <2>2, <3>1, <3>2
  <2>4. ASSUME NEW p \in Payload, NEW j \in 1..Len(versions[n]), NEW q, q = d[old],
               q = Raw(p, versions[n][j]), q.vers # Latest(n),
               UpdatesDue(q, n)[1] # NULL, UpdatesDue(q, n)[1].from_ns # n
        PROVE  kvolve_check_update_kv_pair(s, k, n) = Srv(Refreshed(d, n, x), t, Touched(d, w, n, x), r)
    <3>1. q.enc = "raw" /\ q # NULL
      BY <2>2, <2>4, ObjectFacts
    <3>2. Renamed(s, k, n, q) = Srv(m, t, Touched(d, w, n, x), r)
      <4>1. kvolve_namespace_update(s, k, n) = MovedServer(d, t, w, r, n, x)
        BY Zenon, <1>1, <2>2, NamespaceUpdate DEF TableInv
      <4> QED BY Zenon, <1>7, <2>4, <4>1 DEF Renamed
    <3>3. PICK u : u = Touched(d, w, n, x)
      BY Zenon
    <3>4. Srv(m, t, u, r).db = m
      BY ServerFacts
    <3>5. kvolve_check_update_kv_pair(s, k, n) =
            Rewrite(Srv(m, t, u, r), k, Latest(n), ChainOf(q, n))
      BY Zenon, <1>3, <2>1, <2>2, <2>4, <3>1, <3>2, <3>3, <3>4 DEF renamed, here
    <3>6. Rewrite(Srv(m, t, u, r), k, Latest(n), ChainOf(q, n)) =
            Srv(At(m, k, Fresh(m[k], n)), t, u, r)
      <4>1. m[Append(n, x)] = q /\ q # NULL
        BY Zenon, <1>1, <2>1, <2>4, <3>1
      <4>2. RawOf(q, n)
        BY Zenon, <2>4, <4>1 DEF RawOf
      <4>3. Rewrite(Srv(m, t, u, r), Append(n, x), Latest(n), ChainOf(q, n)) =
              Srv(At(m, Append(n, x), Fresh(m[Append(n, x)], n)), t, u, r)
        BY <1>5, <4>1, <4>2, UpdatedHere
      <4> QED BY Zenon, <1>1, <4>3
    <3> QED BY Zenon, <1>5, <3>3, <3>5, <3>6
  <2>5. \/ \E i \in Numbers : d[old] = Num(i)
        \/ \E p \in Payload, j \in 1..Len(versions[n]) :
             /\ d[old] = Raw(p, versions[n][j]) /\ d[old].vers # Latest(n)
             /\ UpdatesDue(d[old], n)[1] # NULL /\ UpdatesDue(d[old], n)[1].from_ns # n
    <3>1. old = Append(prev_ns[n], x)
      BY Zenon, <1>1
    <3> QED BY <1>10, <3>1, OldObject
  <2>6. kvolve_check_update_kv_pair(s, k, n) = Srv(Refreshed(d, n, x), t, Touched(d, w, n, x), r)
    <3>1. CASE \E i \in Numbers : d[old] = Num(i)
      BY Zenon, <1>1, <2>3, <3>1
    <3>2. CASE \E p \in Payload, j \in 1..Len(versions[n]) :
                 /\ d[old] = Raw(p, versions[n][j]) /\ d[old].vers # Latest(n)
                 /\ UpdatesDue(d[old], n)[1] # NULL /\ UpdatesDue(d[old], n)[1].from_ns # n
      <4>1. PICK p \in Payload, j \in 1..Len(versions[n]) :
               /\ d[old] = Raw(p, versions[n][j]) /\ d[old].vers # Latest(n)
               /\ UpdatesDue(d[old], n)[1] # NULL /\ UpdatesDue(d[old], n)[1].from_ns # n
        BY Zenon, <3>2
      <4>2. PICK q : q = d[old]
        BY Zenon
      <4>3. /\ q = Raw(p, versions[n][j]) /\ q.vers # Latest(n)
            /\ UpdatesDue(q, n)[1] # NULL /\ UpdatesDue(q, n)[1].from_ns # n
        BY Zenon, <4>1, <4>2
      <4> QED BY Zenon, <2>4, <4>2, <4>3
    <3> QED BY Zenon, <2>5, <3>1, <3>2
  <2> QED BY Zenon, <1>1, <2>6
<1> QED BY Zenon, <1>1, <1>8, <1>9, <1>10 DEF FoundAt, ToMove

-----------------------------------------------------------------------------
(* What the hooks keep *)

\* What fits the namespace before n fits n.
LEMMA FitsNext ==
    ASSUME TableInv, NEW o, NEW n \in NS, prev_ns[n] # NULL, Fits(o, prev_ns[n])
    PROVE  Fits(o, n)
<1>1. /\ prev_ns[n] \in NS /\ Registered(n)
      /\ Len(versions[prev_ns[n]]) < Len(versions[n]) 
      /\ \A i \in 1..Len(versions[prev_ns[n]]) : versions[n][i] = versions[prev_ns[n]][i]
      /\ Len(versions[prev_ns[n]]) \in Nat /\ Len(versions[n]) \in Nat
  BY DEF TableInv, TableConsistent, DocHistory, LinksOf, RegistryTypeOK
<1>2. \A i \in 1..Len(versions[prev_ns[n]]) : i \in 1..Len(versions[n])
  BY <1>1
<1> QED BY Zenon, <1>1, <1>2 DEF Fits

\* What is up to date fits.
LEMMA FitsFresh ==
    ASSUME TableInv, NEW o, NEW n \in NS, Fits(o, n)
    PROVE  Fits(Fresh(o, n), n)
<1>1. CASE o = NULL \/ o.enc = "int"
  BY Zenon, <1>1 DEF Fresh
<1>2. CASE o # NULL /\ o.enc # "int"
  <2>1. Registered(n) /\ Fresh(o, n) = Raw(o.ptr.val, Latest(n))
    BY Zenon, <1>2 DEF Fits, Fresh
  <2>2. o.ptr.val \in Payload
    BY <1>2, ObjectFacts DEF Fits
  <2>3. Len(versions[n]) \in 1..Len(versions[n]) /\ Latest(n) = versions[n][Len(versions[n])]
    BY Zenon, <2>1, LatestFacts DEF TableInv
  <2> QED BY Zenon, <2>1, <2>2, <2>3 DEF Fits
<1> QED BY Zenon, <1>1, <1>2

\* Keys differ if their namespaces or their last segments do.
LEMMA KeysDiffer ==
    ASSUME NEW n \in NS, NEW x \in Names, NEW m \in NS, NEW y \in Names, n # m \/ x # y
    PROVE  Append(n, x) # Append(m, y)
BY Zenon, KeyInjective

\* Writing what fits, where no other name is in use, keeps the keyspace in order.
LEMMA WriteKeeps ==
    ASSUME TableInv, NEW d, NEW e, NEW o, NEW n \in NS, NEW x \in Names, DataInv(d), Fits(o, n),
           o = NULL \/ (Cleared(d, n, x) /\ next_ns[n] = NULL), e = At(d, Append(n, x), o)
    PROVE  DataInv(e) /\ OnlyAt(d, e, n, x) /\ e[Append(n, x)] = o
<1>1. OnKeys(e) /\ e[Append(n, x)] = o
  BY Zenon, IsKey DEF DataInv, AllFit, OnKeys, At
<1>2. ASSUME NEW m \in NS, NEW y \in Names, n # m \/ x # y
      PROVE  e[Append(m, y)] = d[Append(m, y)]
  <2>1. Append(n, x) # Append(m, y) /\ Append(m, y) \in Key
    BY Zenon, <1>2, KeysDiffer, IsKey
  <2> QED BY Zenon, <2>1 DEF At, DataInv, AllFit, OnKeys
<1>3. AllFit(e)
  <2> SUFFICES ASSUME NEW m \in NS, NEW y \in Names PROVE Fits(e[Append(m, y)], m)
    BY Zenon, <1>1 DEF AllFit
  <2> QED BY Zenon, <1>1, <1>2 DEF DataInv, AllFit
<1>4. OneName(e)
  <2> SUFFICES ASSUME NEW m \in NS, NEW y \in Names, prev_ns[m] # NULL
               PROVE  e[Append(m, y)] = NULL \/ e[Append(prev_ns[m], y)] = NULL
    BY Zenon DEF OneName
  <2>1. prev_ns[m] \in NS /\ prev_ns[m] # m /\ next_ns[prev_ns[m]] = m /\ m # NULL
    BY RegistryAssumption DEF TableInv, RegistryTypeOK, DocHistory, LinksOf
  <2>2. d[Append(m, y)] = NULL \/ d[Append(prev_ns[m], y)] = NULL
    BY Zenon DEF DataInv, OneName
  <2>3. CASE m = n /\ y = x
    BY Zenon, <1>1, <1>2, <2>1, <2>3 DEF Cleared
  <2>4. CASE prev_ns[m] = n /\ y = x
    BY Zenon, <1>1, <1>2, <2>1, <2>4
  <2>5. CASE y # x \/ (m # n /\ prev_ns[m] # n)
    BY Zenon, <1>2, <2>1, <2>2, <2>5
  <2> QED BY Zenon, <2>3, <2>4, <2>5
<1> QED BY Zenon, <1>1, <1>2, <1>3, <1>4 DEF OnlyAt, DataInv

\* A value is moved to where none is.
LEMMA MovedKeeps ==
    ASSUME TableInv, NEW d, NEW n \in NS, NEW x \in Names, DataInv(d), next_ns[n] = NULL
    PROVE  Keeps(d, Moved(d, n, x), n, x)
<1>1. CASE ~ToMove(d, n, x)
  <2>1. Moved(d, n, x) = d
    BY Zenon, <1>1 DEF Moved
  <2> QED BY Zenon, <1>1, <2>1 DEF Keeps, Cleared, Elsewhere, ToMove, DataInv, OneName
<1>2. CASE ToMove(d, n, x)
  <2> PICK e, k, old, p : /\ e = Moved(d, n, x) /\ k = Append(n, x) /\ p = prev_ns[n]
                          /\ old = Append(p, x)
    BY Zenon
  <2>2. p \in NS /\ p # n /\ p # NULL /\ Registered(p)
    BY <1>2 DEF ToMove, TableInv, RegistryTypeOK, DocHistory, LinksOf
  <2>3. OnKeys(e) /\ e[k] = d[old] /\ e[old] = NULL /\ \A l \in Key : l # k /\ l # old => e[l] = d[l]
    BY Zenon, <1>2, MovedFacts DEF DataInv, AllFit
  <2>4. ASSUME NEW m \in NS, NEW y \in Names, y # x \/ (m # n /\ m # p)
        PROVE  e[Append(m, y)] = d[Append(m, y)]
    <3>1. Append(m, y) # k /\ Append(m, y) # old /\ Append(m, y) \in Key
      BY Zenon, <2>2, <2>4, KeysDiffer, IsKey
    <3> QED BY Zenon, <2>3, <3>1
  <2>5. AllFit(e)
    <3> SUFFICES ASSUME NEW m \in NS, NEW y \in Names PROVE Fits(e[Append(m, y)], m)
      BY Zenon, <2>3 DEF AllFit
    <3>1. CASE y # x \/ (m # n /\ m # p)
      BY Zenon, <2>4, <3>1 DEF DataInv, AllFit
    <3>2. CASE y = x /\ m = p
      BY Zenon, <2>3, <3>2 DEF Fits
    <3>3. CASE y = x /\ m = n
      <4>1. Fits(d[old], prev_ns[n])
        BY Zenon, <2>2 DEF DataInv, AllFit
      <4> QED BY Zenon, <2>2, <2>3, <3>3, <4>1, FitsNext
    <3> QED BY Zenon, <3>1, <3>2, <3>3
  <2>6. OneName(e)
    <3> SUFFICES ASSUME NEW m \in NS, NEW y \in Names, prev_ns[m] # NULL
                 PROVE  e[Append(m, y)] = NULL \/ e[Append(prev_ns[m], y)] = NULL
      BY Zenon DEF OneName
    <3>1. d[Append(m, y)] = NULL \/ d[Append(prev_ns[m], y)] = NULL
      BY Zenon DEF DataInv, OneName
    <3>2. /\ prev_ns[m] \in NS /\ next_ns[prev_ns[m]] = m /\ prev_ns[m] # m
          /\ next_ns[p] = n
      BY <2>2 DEF TableInv, RegistryTypeOK, DocHistory, LinksOf
    <3>3. CASE y # x
      BY Zenon, <2>4, <3>1, <3>2, <3>3
    <3>4. CASE y = x /\ m = n
      BY Zenon, <2>3, <3>4
    <3>5. CASE y = x /\ m = p
      BY Zenon, <2>3, <3>5
    <3>6. CASE y = x /\ prev_ns[m] = n
      BY Zenon, <3>2, <3>6, RegistryAssumption
    <3>7. CASE y = x /\ m # n /\ m # p /\ prev_ns[m] # n
      BY Zenon, <2>4, <3>1, <3>2, <3>7
    <3> QED BY Zenon, <3>3, <3>4, <3>5, <3>6, <3>7
  <2> QED BY Zenon, <2>3, <2>4, <2>5, <2>6 DEF Keeps, Cleared, Elsewhere, DataInv
<1> QED BY Zenon, <1>1, <1>2

\* The update functions are run on what has been moved.
LEMMA RefreshedKeeps ==
    ASSUME TableInv, NEW d, NEW n \in NS, NEW x \in Names, DataInv(d), next_ns[n] = NULL
    PROVE  Keeps(d, Refreshed(d, n, x), n, x)
<1> PICK m, o : m = Moved(d, n, x) /\ o = Fresh(m[Append(n, x)], n)
  BY Zenon
<1>2. Keeps(d, m, n, x)
  BY Zenon, MovedKeeps
<1>3. Fits(o, n)
  BY Zenon, <1>2, FitsFresh DEF Keeps, DataInv, AllFit
<1> PICK e : e = At(m, Append(n, x), o)
  BY Zenon
<1>5. DataInv(e) /\ OnlyAt(m, e, n, x)
  BY Zenon, <1>2, <1>3, WriteKeeps DEF Keeps
<1>6. Cleared(e, n, x)
  <2>1. prev_ns[n] # NULL => prev_ns[n] \in NS /\ prev_ns[n] # n
    BY DEF TableInv, RegistryTypeOK, DocHistory, LinksOf
  <2> QED BY Zenon, <1>2, <1>5, <2>1 DEF Keeps, Cleared, OnlyAt
<1>7. Elsewhere(d, e, n, x)
  BY <1>2, <1>5 DEF Keeps, Elsewhere, OnlyAt
<1> QED BY Zenon, <1>5, <1>6, <1>7 DEF Keeps, Refreshed

\* The value under the name before is dropped.
LEMMA DroppedKeeps ==
    ASSUME TableInv, NEW d, NEW n \in NS, NEW x \in Names, DataInv(d)
    PROVE  Keeps(d, Dropped(d, n, x), n, x)
<1>1. CASE ~ToMove(d, n, x)
  <2>1. Dropped(d, n, x) = d
    BY Zenon, <1>1 DEF Dropped
  <2> QED BY <1>1, <2>1 DEF Keeps, Cleared, Elsewhere, ToMove, DataInv, OneName
<1>2. CASE ToMove(d, n, x)
  <2>1. PICK e, p : e = At(d, Append(p, x), NULL) /\ p = prev_ns[n]
    BY Zenon
  <2>2. p \in NS /\ p # n /\ Fits(NULL, p)
    BY <1>2, <2>1 DEF ToMove, TableInv, RegistryTypeOK, DocHistory, LinksOf, Fits
  <2>3. DataInv(e) /\ e[Append(p, x)] = NULL /\ OnlyAt(d, e, p, x)
    <3>1. PICK o : o = NULL
      BY Zenon
    <3>2. Fits(o, p) /\ e = At(d, Append(p, x), o)
      BY Zenon, <2>1, <2>2, <3>1
    <3> QED BY <2>2, <3>1, <3>2, WriteKeeps
  <2>4. Dropped(d, n, x) = e
    BY Zenon, <1>2, <2>1 DEF Dropped
  <2> QED BY Zenon, <2>1, <2>3, <2>4 DEF Keeps, Cleared, Elsewhere, OnlyAt
<1> QED BY Zenon, <1>1, <1>2

-----------------------------------------------------------------------------
(* The hooks of commands *)

\* Whatever the hook, the keyspace stays in order.
LEMMA HookKeeps ==
    ASSUME TableInv, NEW cmd, NEW d, NEW n \in NS, NEW x \in Names, DataInv(d), next_ns[n] = NULL
    PROVE  Keeps(d, HookDb(cmd, d, n, x), n, x)
BY Zenon, MovedKeeps, RefreshedKeeps, DroppedKeeps DEF HookDb

\* The hook of a command for one of its keys.
LEMMA OnKeyFacts ==
    ASSUME Counting, PlainNames, TableInv, NEW cmd, NEW d, NEW t, NEW w, NEW r, NEW n \in NS, NEW x \in Names,
           AllFit(d), cmd \in Updating \cup Setting \cup {"del", "mdel"}
    PROVE  OnKey(cmd, Srv(d, t, w, r), Append(n, x), n) =
             Srv(HookDb(cmd, d, n, x), t, HookTouched(cmd, d, w, n, x), r)
<1> USE DEF Updating, Setting
<1>1. CASE cmd \in Updating
  BY <1>1, CheckUpdate DEF OnKey, HookDb, HookTouched
<1>2. CASE cmd \in Setting
  BY <1>2, SetHook DEF OnKey, HookDb, HookTouched, TableInv
<1>3. CASE cmd \in {"del", "mdel"}
  BY <1>3, CheckRename DEF OnKey, HookDb, HookTouched, MovedServer
<1> QED BY Zenon, <1>1, <1>2, <1>3

\* Strings leave no tags in tmp_store: kvolve_prevcall_check does nothing.
LEMMA PrevcallNothing ==
    ASSUME NEW d, NEW w, NEW r, OnKeys(d)
    PROVE  kvolve_prevcall_check(Srv(d, NoTags, w, r)) = Srv(d, NoTags, w, r)
<1> DEFINE s == Srv(d, NoTags, w, r)
           d1 == [k \in Key |-> IF s.db[k] # NULL /\ s.tmp[k] # NULL
                                THEN [s.db[k] EXCEPT !.vers = s.tmp[k]] ELSE s.db[k]]
           t1 == [k \in Key |-> IF s.db[k] # NULL THEN NULL ELSE s.tmp[k]]
<1>1. s.db = d /\ s.tmp = NoTags
  BY ServerFacts
<1>2. \A k \in Key : NoTags[k] = NULL
  BY Zenon DEF NoTags
<1>3. d1 = d
  BY Zenon, <1>1, <1>2 DEF OnKeys
<1>4. t1 = NoTags
  BY Zenon, <1>1, <1>2 DEF NoTags
<1>5. kvolve_prevcall_check(s) = [s EXCEPT !.db = d1, !.tmp = t1]
  BY Zenon DEF kvolve_prevcall_check
<1> HIDE DEF d1, t1
<1> PICK e, t : e = d1 /\ t = t1
  BY Zenon
<1>7. [s EXCEPT !.db = e, !.tmp = t] = Srv(e, t, w, r)
  <2>1. [s EXCEPT !.db = e] = Srv(e, NoTags, w, r)
    BY DEF Srv
  <2>2. [Srv(e, NoTags, w, r) EXCEPT !.tmp = t] = Srv(e, t, w, r)
    BY DEF Srv
  <2> QED BY Zenon, <2>1, <2>2
<1> QED BY Zenon, <1>3, <1>4, <1>5, <1>7

-----------------------------------------------------------------------------
(* What Redis does to strings *)

\* What setKey does to the server.
LEMMA SetKeyFacts ==
    ASSUME NEW d, NEW t, NEW w, NEW r, NEW k, NEW o
    PROVE  setKey(Srv(d, t, w, r), k, o) = Srv(At(d, k, o), t, Plus(w, k), r)
<1> DEFINE e == At(d, k, o)
<1>1. [Srv(d, t, w, r) EXCEPT !.db[k] = o] = Srv(e, t, w, r)
  BY DEF Srv, At
<1> HIDE DEF e
<1>2. [Srv(e, t, w, r) EXCEPT !.touched = @ \cup {k}] = Srv(e, t, w \cup {k}, r)
  BY DEF Srv
<1> QED BY Zenon, <1>1, <1>2 DEF setKey, signalModifiedKey, Plus, e

\* What a reply does to the server.
LEMMA ReplyFacts ==
    ASSUME NEW d, NEW t, NEW w, NEW r, NEW z
    PROVE  Reply(Srv(d, t, w, r), z) = Srv(d, t, w, z)
BY DEF Reply, Srv

\* What SET, tagged by its hook, stores for such data.
LEMMA EncodingFits ==
    ASSUME TableInv, NEW b, NEW n \in NS, Registered(n), ArgFits(b, n)
    PROVE  Fits(tryObjectEncoding(b, Latest(n)), n)
<1>1. /\ Len(versions[n]) \in 1..Len(versions[n]) /\ Latest(n) = versions[n][Len(versions[n])]
      /\ Latest(n) # 0
  BY Zenon, LatestFacts, HooksAssumption DEF TableInv
<1>2. ASSUME NEW p \in Payload, b = Datum(p, Latest(n)) PROVE Fits(tryObjectEncoding(b, Latest(n)), n)
  <2>1. ~IsNumber(b)
    BY Zenon, <1>1, <1>2 DEF IsNumber, Datum
  <2>2. tryObjectEncoding(b, Latest(n)) = Raw(p, Latest(n))
    BY Zenon, <1>2, <2>1 DEF tryObjectEncoding, createObject, Raw
  <2> QED BY Zenon, <1>1, <2>2 DEF Fits
<1>3. ASSUME NEW i \in Numbers, b = Datum(i, 0) PROVE Fits(tryObjectEncoding(b, Latest(n)), n)
  <2>1. IsNumber(b)
    BY Zenon, <1>3 DEF IsNumber, Datum
  <2>2. tryObjectEncoding(b, Latest(n)) = Num(i)
    BY Zenon, <1>3, <2>1 DEF tryObjectEncoding, createObject, Num
  <2> QED BY Zenon, <2>2 DEF Fits
<1> QED BY Zenon, <1>2, <1>3 DEF ArgFits

\* INCR writes a number, or nothing if there is a string that is not one.
LEMMA IncrWrites ==
    ASSUME NEW d, NEW t, NEW w, NEW r, NEW n \in NS, NEW x \in Names, Registered(n),
           Fits(d[Append(n, x)], n),
           IF d[Append(n, x)] = NULL THEN 1 \in Numbers
           ELSE IsNumber(d[Append(n, x)].ptr) => d[Append(n, x)].ptr.val + 1 \in Numbers
    PROVE  \E e, u, z :
             /\ incrDecrCommand(Srv(d, t, w, r), Append(n, x)) = Srv(e, t, u, z)
             /\ Writes(d, w, e, u, n, x)
             /\ z = [bool |-> FALSE] => e = d
<1>1. PICK k, o, s : k = Append(n, x) /\ o = d[k] /\ s = Srv(d, t, w, r)
  BY Zenon
<1>2. s.db = d
  BY <1>1, ServerFacts
<1> DEFINE i == (IF o = NULL THEN 0 ELSE o.ptr.val) + 1
           yes == [bool |-> TRUE]
           no == [bool |-> FALSE]
<1>3. CASE o # NULL /\ ~IsNumber(o.ptr)
  <2>1. incrDecrCommand(s, k) = Reply(s, no)
    BY Zenon, <1>1, <1>2, <1>3 DEF incrDecrCommand
  <2> HIDE DEF no
  <2>2. incrDecrCommand(s, k) = Srv(d, t, w, no)
    BY <1>1, <2>1, ReplyFacts
  <2> QED BY Zenon, <1>1, <2>2 DEF Writes
<1>4. CASE o = NULL \/ IsNumber(o.ptr)
  <2>1. incrDecrCommand(s, k) = Reply(setKey(s, k, tryObjectEncoding(Datum(i, 0), 0)), yes)
    BY Zenon, <1>1, <1>2, <1>4 DEF incrDecrCommand, Datum
  <2>2. tryObjectEncoding(Datum(i, 0), 0) = Num(i)
    BY Zenon DEF tryObjectEncoding, IsNumber, Datum, createObject, Num
  <2>3. i \in Numbers
    BY <1>1, <1>4
  <2>4. yes # no
    <3>1. yes.bool = TRUE /\ no.bool = FALSE
      BY Zenon
    <3> QED BY Zenon, <3>1
  <2> HIDE DEF i, yes, no
  <2>5. Fits(Num(i), n)
    BY Zenon, <2>3 DEF Fits
  <2>6. incrDecrCommand(s, k) = Srv(At(d, k, Num(i)), t, Plus(w, k), yes)
    <3>1. setKey(s, k, Num(i)) = Srv(At(d, k, Num(i)), t, Plus(w, k), r)
      BY <1>1, SetKeyFacts
    <3>2. PICK e, u, z : e = At(d, k, Num(i)) /\ u = Plus(w, k) /\ z = yes
      BY Zenon
    <3>3. Reply(Srv(e, t, u, r), z) = Srv(e, t, u, z)
      BY ReplyFacts
    <3> QED BY Zenon, <2>1, <2>2, <3>1, <3>2, <3>3
  <2>7. Writes(d, w, At(d, k, Num(i)), Plus(w, k), n, x)
    BY Zenon, <1>1, <2>5 DEF Writes
  <2>8. yes = [bool |-> FALSE] => At(d, k, Num(i)) = d
    BY Zenon, <2>4 DEF no
  <2> QED BY Zenon, <1>1, <2>6, <2>7, <2>8
<1> QED BY Zenon, <1>3, <1>4

\* SET and SET XX.
LEMMA SetWrites ==
    ASSUME NEW d, NEW t, NEW w, NEW r, NEW o, NEW flag, NEW n \in NS, NEW x \in Names, Fits(o, n)
    PROVE  \E e, u, z :
             /\ setGenericCommand(Srv(d, t, w, r), Append(n, x), o, flag) = Srv(e, t, u, z)
             /\ Writes(d, w, e, u, n, x)
             /\ z = [bool |-> FALSE] => e = d
             /\ flag \notin {"nx", "xx"} => Append(n, x) \in u
<1> PICK k, s : k = Append(n, x) /\ s = Srv(d, t, w, r)
  BY Zenon
<1> DEFINE yes == [bool |-> TRUE]
           no == [bool |-> FALSE]
           fails == (flag = "nx" /\ s.db[k] # NULL) \/ (flag = "xx" /\ s.db[k] = NULL)
<1>2. setGenericCommand(s, k, o, flag) = IF fails THEN Reply(s, no) ELSE Reply(setKey(s, k, o), yes)
  BY Zenon DEF setGenericCommand
<1>3. yes # no
  <2>1. yes.bool = TRUE /\ no.bool = FALSE
    BY Zenon
  <2> QED BY Zenon, <2>1
<1> HIDE DEF yes, no, fails
<1>4. CASE fails
  <2>1. setGenericCommand(s, k, o, flag) = Srv(d, t, w, no)
    BY <1>2, <1>4, ReplyFacts
  <2>2. flag \in {"nx", "xx"}
    BY Zenon, <1>4 DEF fails
  <2> QED BY Zenon, <2>1, <2>2 DEF Writes
<1>5. CASE ~fails
  <2>1. setKey(s, k, o) = Srv(At(d, k, o), t, Plus(w, k), r)
    BY SetKeyFacts
  <2>2. Reply(Srv(At(d, k, o), t, Plus(w, k), r), yes) = Srv(At(d, k, o), t, Plus(w, k), yes)
    BY ReplyFacts
  <2>3. setGenericCommand(s, k, o, flag) = Srv(At(d, k, o), t, Plus(w, k), yes)
    BY Zenon, <1>2, <1>5, <2>1, <2>2
  <2>4. Writes(d, w, At(d, k, o), Plus(w, k), n, x)
    BY Zenon DEF Writes
  <2>5. yes = [bool |-> FALSE] => At(d, k, o) = d
    BY Zenon, <1>3 DEF no
  <2>6. k \in Plus(w, k)
    BY Zenon DEF Plus
  <2> QED BY Zenon, <2>3, <2>4, <2>5, <2>6
<1> QED BY Zenon, <1>4, <1>5

\* What DEL does to the server.
LEMMA DelFacts ==
    ASSUME NEW d, NEW t, NEW w, NEW r, NEW ks, OnKeys(d)
    PROVE  \E z : delCommand(Srv(d, t, w, r), ks) =
                    Srv(Deleted(d, Gone(d, ks)), t, Joined(w, Gone(d, ks)), z)
<1> PICK s : s = Srv(d, t, w, r)
  BY Zenon
<1>2. s.db = d
  BY ServerFacts
<1> DEFINE gone == Gone(d, ks)
           e == Deleted(d, gone)
           z == [integer |-> Cardinality(gone)]
<1>3. delCommand(s, ks) =
        [s EXCEPT !.db = [k \in DOMAIN @ |-> IF k \in gone THEN NULL ELSE @[k]],
                  !.touched = @ \cup gone, !.res = z]
  <2>1. gone = {k \in {ks[n] : n \in DOMAIN ks} : s.db[k] # NULL}
    BY Zenon, <1>2 DEF Gone
  <2> HIDE DEF gone
  <2> QED BY Zenon, <2>1 DEF delCommand
<1> HIDE DEF gone, z
<1>4. [s EXCEPT !.db = [k \in DOMAIN @ |-> IF k \in gone THEN NULL ELSE @[k]]] = Srv(e, t, w, r)
  <2>1. DOMAIN d = Key
    BY Zenon DEF OnKeys
  <2>2. [Srv(d, t, w, r) EXCEPT !.db = [k \in DOMAIN @ |-> IF k \in gone THEN NULL ELSE @[k]]] =
          Srv([k \in DOMAIN d |-> IF k \in gone THEN NULL ELSE d[k]], t, w, r)
    <3> PICK f : f = d
      BY Zenon
    <3>2. [Srv(f, t, w, r) EXCEPT !.db = [k \in DOMAIN @ |-> IF k \in gone THEN NULL ELSE @[k]]] =
            Srv([k \in DOMAIN f |-> IF k \in gone THEN NULL ELSE f[k]], t, w, r)
      BY DEF Srv
    <3> QED BY Zenon, <3>2
  <2> QED BY Zenon, <2>1, <2>2 DEF Deleted
<1> HIDE DEF e
<1>5. [Srv(e, t, w, r) EXCEPT !.touched = @ \cup gone] = Srv(e, t, w \cup gone, r)
  BY DEF Srv
<1>6. [Srv(e, t, w \cup gone, r) EXCEPT !.res = z] = Srv(e, t, w \cup gone, z)
  BY DEF Srv
<1>7. delCommand(s, ks) = Srv(e, t, w \cup gone, z)
  BY Zenon, <1>3, <1>4, <1>5, <1>6
<1> QED BY Zenon, <1>7 DEF gone, e, Joined

\* DEL of one key.
LEMMA DelWrites ==
    ASSUME NEW d, NEW t, NEW w, NEW r, NEW n \in NS, NEW x \in Names, OnKeys(d)
    PROVE  \E e, u, z :
             /\ delCommand(Srv(d, t, w, r), <<Append(n, x)>>) = Srv(e, t, u, z)
             /\ Writes(d, w, e, u, n, x)
<1> PICK k : k = Append(n, x)
  BY Zenon
<1> DEFINE ks == <<k>>
           gone == Gone(d, ks)
<1>2. {ks[i] : i \in DOMAIN ks} = {k}
  OBVIOUS
<1>3. PICK z : delCommand(Srv(d, t, w, r), ks) = Srv(Deleted(d, gone), t, Joined(w, gone), z)
  BY DelFacts
<1>4. CASE d[k] = NULL
  <2>1. gone = {}
    BY Zenon, <1>2, <1>4 DEF Gone
  <2>2. Deleted(d, {}) = d /\ Joined(w, {}) = w
    BY Zenon DEF Deleted, OnKeys, Joined
  <2> QED BY Zenon, <1>3, <2>1, <2>2 DEF Writes
<1>5. CASE d[k] # NULL
  <2>1. gone = {k}
    BY Zenon, <1>2, <1>5 DEF Gone
  <2>2. Deleted(d, {k}) = At(d, k, NULL) /\ Joined(w, {k}) = Plus(w, k)
    BY Zenon DEF Deleted, OnKeys, At, Plus, Joined
  <2>3. Fits(NULL, n)
    BY Zenon DEF Fits
  <2>4. Writes(d, w, At(d, k, NULL), Plus(w, k), n, x)
    BY Zenon, <2>3 DEF Writes
  <2> HIDE DEF gone, ks
  <2>5. delCommand(Srv(d, t, w, r), ks) = Srv(At(d, k, NULL), t, Plus(w, k), z)
    BY Zenon, <1>3, <2>1, <2>2
  <2> QED BY Zenon, <2>4, <2>5 DEF ks
<1> QED BY Zenon, <1>4, <1>5

\* It keeps the keyspace in order.
LEMMA WritesKeeps ==
    ASSUME TableInv, NEW d, NEW w, NEW e, NEW u, NEW n \in NS, NEW x \in Names, next_ns[n] = NULL,
           DataInv(d), Cleared(d, n, x), Writes(d, w, e, u, n, x)
    PROVE  DataInv(e)
BY Zenon, WriteKeeps DEF Writes

\* MSET of two keys.
LEMMA MsetFacts ==
    ASSUME NEW d, NEW t, NEW w, NEW r, NEW os, NEW k \in Key, NEW l \in Key, k # l, OnKeys(d)
    PROVE  \E z : msetGenericCommand(Srv(d, t, w, r), <<k, l>>, os) =
                    Srv(At(At(d, k, os[1]), l, os[2]), t, Plus(Plus(w, k), l), z)
<1>1. PICK ks, new : ks = <<k, l>> /\ new = Zipped(ks, os)
  BY Zenon
<1>2. DOMAIN ks = {1, 2} /\ ks[1] = k /\ ks[2] = l
  BY <1>1
<1>3. DOMAIN new = {k, l} /\ new[k] = os[1] /\ new[l] = os[2]
  <2> DEFINE Last(j) == CHOOSE n \in DOMAIN ks : ks[n] = j /\ \A m \in DOMAIN ks : ks[m] = j => m <= n
  <2>1. {ks[n] : n \in DOMAIN ks} = {k, l}
    BY Zenon, <1>2
  <2>2. Last(k) = 1 /\ Last(l) = 2
    BY <1>2
  <2>3. new = [j \in {ks[n] : n \in DOMAIN ks} |-> os[Last(j)]]
    BY Zenon, <1>1 DEF Zipped
  <2> HIDE DEF Last
  <2> QED BY Zenon, <2>1, <2>2, <2>3
<1> DEFINE z == [bool |-> TRUE]
           e == At(At(d, k, os[1]), l, os[2])
<1>4. msetGenericCommand(Srv(d, t, w, r), ks, os) =
        [Srv(d, t, w, r) EXCEPT !.db = [j \in DOMAIN @ |-> IF j \in DOMAIN new THEN new[j] ELSE @[j]],
                  !.touched = @ \cup DOMAIN new, !.res = z]
  BY Zenon, <1>1 DEF msetGenericCommand, z
<1>5. [j \in DOMAIN d |-> IF j \in DOMAIN new THEN new[j] ELSE d[j]] = e
  BY Zenon, <1>3 DEF At, OnKeys
<1>6. w \cup DOMAIN new = Plus(Plus(w, k), l)
  BY Zenon, <1>3 DEF Plus
<1> HIDE DEF e, z
<1>7. [Srv(d, t, w, r) EXCEPT !.db = [j \in DOMAIN @ |-> IF j \in DOMAIN new THEN new[j] ELSE @[j]]] =
        Srv(e, t, w, r)
  <2>1. PICK f, q : f = d /\ q = new
    BY Zenon
  <2>2. [Srv(f, t, w, r) EXCEPT !.db = [j \in DOMAIN @ |-> IF j \in DOMAIN q THEN q[j] ELSE @[j]]] =
          Srv([j \in DOMAIN f |-> IF j \in DOMAIN q THEN q[j] ELSE f[j]], t, w, r)
    BY DEF Srv
  <2> QED BY Zenon, <1>5, <2>1, <2>2
<1>8. [Srv(e, t, w, r) EXCEPT !.touched = @ \cup DOMAIN new] = Srv(e, t, w \cup DOMAIN new, r)
  <2>1. PICK q : q = DOMAIN new
    BY Zenon
  <2>2. [Srv(e, t, w, r) EXCEPT !.touched = @ \cup q] = Srv(e, t, w \cup q, r)
    BY DEF Srv
  <2> QED BY Zenon, <2>1, <2>2
<1>9. [Srv(e, t, w \cup DOMAIN new, r) EXCEPT !.res = z] = Srv(e, t, w \cup DOMAIN new, z)
  BY DEF Srv
<1>10. msetGenericCommand(Srv(d, t, w, r), ks, os) = Srv(e, t, w \cup DOMAIN new, z)
  BY Zenon, <1>4, <1>7, <1>8, <1>9
<1> QED BY Zenon, <1>1, <1>6, <1>10 DEF e

-----------------------------------------------------------------------------
(* KEYS n:* and the loop of kvolve_keys *)

\* The keys that KEYS n:* asks for are those of n.
LEMMA MatchesFacts ==
    ASSUME PlainNames, NEW n \in NS, NEW k \in Matches(n)
    PROVE  \E y \in Names : k = Append(n, y)
<1>1. PICK m \in NS, y \in Names : k = Append(m, y)
  BY DEF Matches, Key
<1>2. SubSeq(k, 1, Len(n)) = n
  BY Zenon DEF Matches
<1>3. Len(k) = Len(m) + 1 /\ Len(m) \in Nat /\ SubSeq(k, 1, Len(m)) = m
  BY Zenon, <1>1, KeyFacts
<1>4. Len(n) \in Nat
  BY HooksAssumption
<1>5. k \in Seq(STRING) /\ n \in Seq(STRING) /\ m \in Seq(STRING) /\ y \in STRING
  <2>1. n \in Seq(STRING) /\ m \in Seq(STRING) /\ y \in STRING
    BY Zenon, HooksAssumption
  <2> DEFINE S == STRING
  <2>2. m \in Seq(S) /\ y \in S
    BY Zenon, <2>1
  <2> HIDE DEF S
  <2>3. Append(m, y) \in Seq(S)
    BY <2>2
  <2> QED BY Zenon, <1>1, <2>1, <2>3 DEF S
<1>6. CASE Len(n) <= Len(m)
  <2>1. \A j \in 0..Len(m) : SubSeq(k, 1, j) = SubSeq(m, 1, j)
    <3>1. PICK S : S = STRING
      BY Zenon
    <3>2. m \in Seq(S) /\ y \in S
      BY Zenon, <1>5, <3>1
    <3>3. \A j \in 0..Len(m) : SubSeq(Append(m, y), 1, j) = SubSeq(m, 1, j)
      BY <3>2, PrefixFacts
    <3> QED BY Zenon, <1>1, <3>3
  <2>2. SubSeq(m, 1, Len(n)) = n
    BY <1>2, <1>3, <1>4, <1>6, <2>1
  <2>3. n = m
    BY Zenon, <1>6, <2>2 DEF PlainNames
  <2> QED BY Zenon, <1>1, <2>3
<1>7. CASE ~(Len(n) <= Len(m))
  <2>1. Len(m) <= Len(n)
    BY <1>3, <1>4, <1>7
  <2>2. SubSeq(n, 1, Len(m)) = m
    <3>1. PICK S : S = STRING
      BY Zenon
    <3>2. \A i \in 1..Len(n) : n[i] = k[i]
      <4>1. SubSeq(k, 1, Len(n)) = [i \in 1..(1 + Len(n) - 1) |-> k[1 + i - 1]]
        BY DEF SubSeq
      <4>2. n = [i \in 1..Len(n) |-> k[i]]
        BY <1>2, <1>4, <4>1
      <4> QED BY Zenon, <4>2
    <3>3. SubSeq(n, 1, Len(m)) = [i \in 1..Len(m) |-> n[i]]
      BY <1>3, <1>4, <1>5, <2>1, <3>1
    <3>4. SubSeq(k, 1, Len(m)) = [i \in 1..Len(m) |-> k[i]]
      BY <1>3, <1>5, <3>1
    <3>5. \A i \in 1..Len(m) : i \in 1..Len(n)
      BY <1>3, <1>4, <2>1
    <3> QED BY Zenon, <1>3, <3>2, <3>3, <3>4, <3>5
  <2>3. m = n
    BY Zenon, <2>1, <2>2 DEF PlainNames
  <2> QED BY Zenon, <1>1, <2>3
<1> QED BY Zenon, <1>6, <1>7

\* The loop has a result.
LEMMA RenameLoop ==
    ASSUME Counting, NEW s, NEW es, NEW N \in Nat
    PROVE  \E W : RenameRun(W, s, es, N)
<1> DEFINE IsRun(W, i) == W = [n \in 0..i |-> IF n = 0 THEN s ELSE Rename(W[n - 1], es[n])]
           T == {i \in 0..N : \E W : IsRun(W, i)}
<1>1. 0 \in T
  <2>1. IsRun([n \in 0..0 |-> s], 0)
    OBVIOUS
  <2> HIDE DEF IsRun
  <2> QED BY <2>1
<1>2. ASSUME NEW i \in 1..N, i - 1 \in T PROVE i \in T
  <2>1. PICK W : IsRun(W, i - 1)
    BY Zenon, <1>2
  <2> PICK y : y = Rename(W[i - 1], es[i])
    BY Zenon
  <2> DEFINE V == [n \in 0..i |-> IF n = i THEN y ELSE W[n]]
  <2>3. i \in Nat /\ i # 0
    OBVIOUS
  <2>4. \A n \in 0..(i - 1) : W[n] = IF n = 0 THEN s ELSE Rename(W[n - 1], es[n])
    BY Zenon, <2>1
  <2>5. ASSUME NEW n \in 0..i PROVE V[n] = IF n = 0 THEN s ELSE Rename(V[n - 1], es[n])
    <3>1. CASE n = i
      <4>1. n - 1 \in 0..i /\ n - 1 # i
        BY <2>3, <3>1
      <4> QED BY Zenon, <2>3, <3>1, <4>1
    <3>2. CASE n # i /\ n # 0
      <4>1. n \in 0..(i - 1) /\ n - 1 \in 0..i /\ n - 1 # i
        BY <2>3, <3>2
      <4>2. V[n] = W[n] /\ V[n - 1] = W[n - 1]
        BY Zenon, <3>2, <4>1
      <4> HIDE DEF V
      <4> QED BY Zenon, <2>4, <3>2, <4>1, <4>2
    <3>3. CASE n # i /\ n = 0
      <4>1. n \in 0..(i - 1)
        BY <2>3, <3>3
      <4> QED BY Zenon, <2>4, <3>3, <4>1
    <3> QED BY Zenon, <3>1, <3>2, <3>3
  <2>6. V = [n \in 0..i |-> V[n]]
    BY Zenon
  <2> HIDE DEF V
  <2>7. IsRun(V, i)
    BY Zenon, <2>5, <2>6
  <2> HIDE DEF IsRun
  <2> QED BY <2>7
<1> HIDE DEF T
<1>3. N \in T
  <2>1. 0..N \subseteq T
    BY Zenon, <1>1, <1>2, Rounds
  <2> QED BY <2>1
<1> QED BY Zenon, <1>3 DEF T, RenameRun

-----------------------------------------------------------------------------
(* Names that follow each other *)

\* A namespace has the names before it of the one it was renamed from.
LEMMA LineageStep ==
    ASSUME RegistryTypeOK, NEW n \in NS
    PROVE  /\ n \in Lineage(n)
           /\ prev_ns[n] = NULL => Lineage(n) = {n}
           /\ prev_ns[n] # NULL => Lineage(n) = {n} \cup Lineage(prev_ns[n])
<1>1. n \in Lineage(n)
  BY Zenon DEF Lineage
<1>2. CASE prev_ns[n] = NULL
  <2>1. \A m \in Lineage(n) : m = n
    <3>1. {n} \in SUBSET NS /\ n \in {n} /\ \A x \in {n} : prev_ns[x] # NULL => prev_ns[x] \in {n}
      BY Zenon, <1>2
    <3> QED BY Zenon, <3>1 DEF Lineage
  <2> QED BY Zenon, <1>1, <1>2, <2>1
<1>3. CASE prev_ns[n] # NULL
  <2>1. PICK p \in NS : p = prev_ns[n]
    BY Zenon, <1>3 DEF RegistryTypeOK
  <2>2. ASSUME NEW m \in Lineage(p) PROVE m \in Lineage(n)
    <3> SUFFICES ASSUME NEW S \in SUBSET NS, n \in S, \A x \in S : prev_ns[x] # NULL => prev_ns[x] \in S
                 PROVE  m \in S
      BY Zenon, <2>2 DEF Lineage
    <3>1. p \in S
      BY Zenon, <1>3, <2>1
    <3> QED BY Zenon, <2>2, <3>1 DEF Lineage
  <2>3. ASSUME NEW m \in Lineage(n) PROVE m = n \/ m \in Lineage(p)
    <3> DEFINE S == {n} \cup Lineage(p)
    <3>1. S \in SUBSET NS /\ n \in S
      BY Zenon DEF Lineage
    <3>2. \A x \in S : prev_ns[x] # NULL => prev_ns[x] \in S
      <4>1. p \in Lineage(p)
        BY Zenon DEF Lineage
      <4>2. ASSUME NEW x \in Lineage(p), prev_ns[x] # NULL PROVE prev_ns[x] \in Lineage(p)
        <5>1. x \in NS /\ prev_ns[x] \in NS
          BY Zenon, <4>2 DEF Lineage, RegistryTypeOK
        <5> QED BY Zenon, <4>2, <5>1 DEF Lineage
      <4> QED BY Zenon, <2>1, <4>1, <4>2
    <3> HIDE DEF S
    <3>3. m \in S
      BY Zenon, <2>3, <3>1, <3>2 DEF Lineage
    <3> QED BY Zenon, <3>3 DEF S
  <2> QED BY Zenon, <1>1, <1>3, <2>1, <2>2, <2>3
<1> QED BY Zenon, <1>1, <1>2, <1>3

\* It has the same first name.
LEMMA RootStep ==
    ASSUME RegistryTypeOK, NEW n \in NS
    PROVE  /\ prev_ns[n] = NULL => Root(n) = n
           /\ prev_ns[n] # NULL => Root(n) = Root(prev_ns[n])
<1>1. CASE prev_ns[n] = NULL
  <2>1. Lineage(n) = {n}
    BY Zenon, <1>1, LineageStep
  <2> QED BY Zenon, <1>1, <2>1 DEF Root
<1>2. CASE prev_ns[n] # NULL
  <2> PICK p : p = prev_ns[n]
    BY Zenon
  <2>2. \A m : m \in Lineage(n) /\ prev_ns[m] = NULL <=> m \in Lineage(p) /\ prev_ns[m] = NULL
    BY Zenon, <1>2, LineageStep
  <2>3. Root(n) = Root(p)
    BY Zenon, <2>2 DEF Root
  <2> QED BY Zenon, <1>2, <2>3
<1> QED BY Zenon, <1>1, <1>2

-----------------------------------------------------------------------------
(* Strings as programs see them *)

\* Its parts.
LEMMA TextFacts ==
    ASSUME NEW p \in Payload \cup Numbers, NEW v \in Vers \cup {0, Garbled}
    PROVE  Text(p, v) # NULL /\ Text(p, v).type = "string" /\ Text(p, v).ptr = Datum(p, v)
<1>1. Text(p, v) \in StringObject
  BY Zenon DEF Text, createObject, Datum, StringObject
<1>2. Text(p, v).type = "string" /\ Text(p, v).ptr = Datum(p, v)
  BY Zenon DEF Text, createObject
<1> QED BY Zenon, <1>1, <1>2, NullAssumption

\* Its conversion: numbers have no schema.
LEMMA TextConverted ==
    ASSUME NEW o, o # NULL, o.type = "string", NEW p, NEW v, o.ptr = Datum(p, v), NEW w
    PROVE  Converted(o, w) = Text(p, IF v = 0 THEN 0 ELSE w)
<1>1. Convert(Datum(p, v), w) = Datum(p, IF v = 0 THEN 0 ELSE w)
  BY Zenon DEF Convert, Datum, IsNumber
<1> PICK q, t : q = o.ptr /\ t = o.type
  BY Zenon
<1>3. Converted(o, w) = createObject(t, "raw", Convert(q, w))
  BY Zenon DEF Converted
<1> QED BY Zenon, <1>1, <1>3 DEF Text

\* A string that fits is a number or a text in some version.
LEMMA FitsText ==
    ASSUME NEW o, NEW vs \in Seq(Vers), FitsIn(o, vs), o # NULL
    PROVE  \E p \in Payload \cup Numbers, v \in Vers \cup {0} : o.type = "string" /\ o.ptr = Datum(p, v)
<1>1. ASSUME NEW i \in Numbers, o = Num(i) PROVE o.type = "string" /\ o.ptr = Datum(i, 0)
  BY Zenon, <1>1, ObjectFacts
<1>2. ASSUME NEW p \in Payload, NEW j \in 1..Len(vs), o = Raw(p, vs[j])
      PROVE  \E v \in Vers : o.type = "string" /\ o.ptr = Datum(p, v)
  <2>1. PICK v \in Vers : v = vs[j]
    BY <1>2
  <2>2. o = Raw(p, v)
    BY Zenon, <1>2, <2>1
  <2> QED BY <2>2, ObjectFacts
<1> QED BY Zenon, <1>1, <1>2 DEF FitsIn

\* Of conversions the last counts.
LEMMA ConvertedTwice ==
    ASSUME NEW o, NEW vs \in Seq(Vers), FitsIn(o, vs), NEW v \in Vers \cup {Garbled}, NEW w
    PROVE  Converted(Converted(o, v), w) = Converted(o, w)
<1>1. CASE o = NULL
  BY Zenon, <1>1 DEF Converted
<1>2. CASE o # NULL
  <2>1. PICK p \in Payload \cup Numbers, u \in Vers \cup {0} : o.type = "string" /\ o.ptr = Datum(p, u)
    BY Zenon, <1>2, FitsText
  <2> PICK a : a = IF u = 0 THEN 0 ELSE v
    BY Zenon
  <2>3. a \in Vers \cup {0, Garbled} /\ (a = 0 <=> u = 0)
    BY Zenon, HooksAssumption
  <2> PICK t : t = Text(p, a)
    BY Zenon
  <2>5. Converted(o, v) = t /\ Converted(o, w) = Text(p, IF u = 0 THEN 0 ELSE w)
    BY <1>2, <2>1, TextConverted
  <2>6. t # NULL /\ t.type = "string" /\ t.ptr = Datum(p, a)
    BY Zenon, <2>3, TextFacts
  <2>7. Converted(t, w) = Text(p, IF a = 0 THEN 0 ELSE w)
    BY <2>6, TextConverted
  <2> QED BY Zenon, <2>3, <2>5, <2>7
<1> QED BY Zenon, <1>1, <1>2

\* It fits, and is the value under the name x of n or of the namespace before.
LEMMA HeldFacts ==
    ASSUME TableInv, NEW d, DataInv(d), NEW n \in NS, NEW x \in Names
    PROVE  /\ Fits(Held(d, n, x), n)
           /\ Held(d, n, x) = IF d[Append(n, x)] # NULL \/ prev_ns[n] = NULL THEN d[Append(n, x)]
                              ELSE d[Append(prev_ns[n], x)]
<1> PICK k, e : k = Append(n, x) /\ e = Moved(d, n, x)
  BY Zenon
<1>2. CASE ~ToMove(d, n, x)
  <2>1. e = d /\ Fits(d[k], n)
    BY Zenon, <1>2 DEF Moved, DataInv, AllFit
  <2> QED BY Zenon, <1>2, <2>1 DEF Held, ToMove
<1>3. CASE ToMove(d, n, x)
  <2> PICK p, l : p = prev_ns[n] /\ l = Append(p, x)
    BY Zenon
  <2>2. p \in NS /\ p # n /\ p # NULL
    BY <1>3 DEF ToMove, TableInv, RegistryTypeOK, DocHistory, LinksOf
  <2>3. k \in Key /\ l \in Key /\ k # l /\ OnKeys(d)
    BY Zenon, <2>2, IsKey, KeysDiffer DEF DataInv, AllFit
  <2>4. e[k] = d[l]
    BY Zenon, <1>3, <2>3 DEF Moved, Shifted, OnKeys
  <2>5. Fits(d[l], n)
    <3> PICK o : o = d[l]
      BY Zenon
    <3>2. Fits(o, p)
      BY Zenon, <2>2 DEF DataInv, AllFit
    <3> QED BY Zenon, <2>2, <3>2, FitsNext
  <2> QED BY Zenon, <1>3, <2>4, <2>5 DEF Held, ToMove
<1> QED BY Zenon, <1>2, <1>3

-----------------------------------------------------------------------------
(* Data in order *)

\* The item of a key.
LEMMA ItemFacts ==
    ASSUME PlainNames, NEW n \in NS, NEW x \in Names, Registered(n)
    PROVE  ItemOf(Append(n, x)) = <<Root(n), x>>
<1>1. kvolve_version_hash_lookup(Append(n, x)) = n
  BY Zenon, LookupFacts
<1>2. Append(n, x)[Len(Append(n, x))] = x
  BY Zenon, KeyFacts
<1> QED BY Zenon, <1>1, <1>2 DEF ItemOf

\* The server, as a hook finds it.
LEMMA ServerIs == tmp_store = NoTags => Server = Srv(db, NoTags, {}, NULL)
BY Zenon DEF Server, Srv

\* Where the registry and the types stay, a keyspace in order stays in order.
LEMMA DataFrame ==
    ASSUME NEW e, DataInv(e), Strings(e), db' = e, UNCHANGED <<registryVars, type>>
    PROVE  DataInv(db)' /\ Strings(db)'
<1> USE DEF registryVars
<1>1. \A n \in NS : Registered(n)' <=> Registered(n)
  BY Zenon DEF Registered
<1>2. ASSUME NEW o, NEW n \in NS, Fits(o, n) PROVE Fits(o, n)'
  BY Zenon, <1>1, <1>2 DEF Fits
<1>3. AllFit(db)'
  <2>1. OnKeys(db)'
    BY Zenon DEF OnKeys, DataInv, AllFit
  <2>2. ASSUME NEW n \in NS, NEW x \in Names PROVE Fits(db[Append(n, x)], n)'
    <3> PICK o : o = e[Append(n, x)]
      BY Zenon
    <3>2. Fits(o, n)'
      BY Zenon, <1>2 DEF DataInv, AllFit
    <3> QED BY Zenon, <3>2
  <2> QED BY Zenon, <2>1, <2>2 DEF AllFit
<1>4. OneName(db)'
  BY Zenon DEF DataInv, OneName
<1>5. Strings(db)'
  BY Zenon DEF Strings
<1> QED BY Zenon, <1>3, <1>4, <1>5 DEF DataInv

\* The server as commands without a hook find it.
LEMMA SettledIs == StringInv => Settled = Srv(db, NoTags, {}, NULL)
<1> SUFFICES ASSUME StringInv PROVE Settled = Srv(db, NoTags, {}, NULL)
  BY Zenon
<1> PICK d, w, q : d = db /\ w = {} /\ q = NULL
  BY Zenon
<1>2. Server = Srv(d, NoTags, w, q) /\ OnKeys(d)
  BY Zenon, ServerIs DEF StringInv, DataInv, AllFit
<1>3. kvolve_prevcall_check(Srv(d, NoTags, w, q)) = Srv(d, NoTags, w, q)
  BY Zenon, <1>2, PrevcallNothing
<1> QED BY Zenon, <1>2, <1>3 DEF Settled

\* What is stored, in terms of namespaces.
LEMMA UsedFacts ==
    ASSUME PlainNames, StringInv, NEW k \in Used
    PROVE  \E n \in NS, x \in Names :
             /\ k = Append(n, x) /\ Registered(n) /\ kvolve_version_hash_lookup(k) = n
             /\ k[Len(k)] = x /\ type[x] = "string" /\ Fits(db[k], n) /\ db[k] # NULL
<1>1. PICK n \in NS, x \in Names : k = Append(n, x)
  BY DEF Used, Key
<1>2. db[k] # NULL /\ Fits(db[k], n) /\ type[x] = "string"
  BY Zenon, <1>1 DEF Used, StringInv, DataInv, AllFit, Strings
<1>3. Registered(n)
  BY Zenon, <1>2 DEF Fits
<1>4. kvolve_version_hash_lookup(k) = n /\ k[Len(k)] = x
  BY Zenon, <1>1, <1>3, LookupFacts, KeyFacts
<1> QED BY Zenon, <1>1, <1>2, <1>3, <1>4

\* A string and its data.
LEMMA StringFacts ==
    ASSUME RegistryTypeOK, NEW o, NEW n \in NS, Fits(o, n), o # NULL
    PROVE  /\ o.type = "string" /\ DataIn(o) = {o.ptr}
           /\ \/ o.vers = 0 /\ o.enc = "int" /\ o.ptr.val \in Numbers /\ o.ptr.conf = 0
              \/ /\ o.ptr.val \in Payload /\ o.ptr.conf = o.vers
                 /\ \E j \in 1..Len(versions[n]) : o.vers = versions[n][j] /\ versions[n][j] \in Vers
<1>1. ASSUME NEW i \in Numbers, o = Num(i)
      PROVE  o.type = "string" /\ o.vers = 0 /\ o.enc = "int" /\ o.ptr.val \in Numbers /\ o.ptr.conf = 0
  BY <1>1, ObjectFacts
<1>2. ASSUME NEW p \in Payload, NEW j \in 1..Len(versions[n]), o = Raw(p, versions[n][j])
      PROVE  /\ o.type = "string" /\ o.ptr.val \in Payload /\ o.ptr.conf = o.vers
             /\ o.vers = versions[n][j] /\ versions[n][j] \in Vers
  <2>1. PICK v \in Vers : v = versions[n][j]
    BY <1>2 DEF RegistryTypeOK
  <2>2. o = Raw(p, v)
    BY Zenon, <1>2, <2>1
  <2> QED BY <2>1, <2>2, ObjectFacts
<1>3. o.type = "string"
  BY Zenon, <1>1, <1>2 DEF Fits
<1>4. DataIn(o) = {o.ptr}
  BY Zenon, <1>3 DEF DataIn
<1> QED BY Zenon, <1>1, <1>2, <1>3, <1>4 DEF Fits

\* Connections, declarations and updates keep the strings in order: a name that is
\* new has no data, and the versions of the ones that are not stay.
LEMMA StringInvRegistry ==
    ASSUME StringInv, NEW c \in Client, ConnectionStep(c) \/ RegistryStep(c), TableInv', Grows
    PROVE  StringInv'
<1>1. TableInv /\ TableInv'
  BY Zenon DEF StringInv
<1>2. db' = db /\ tmp_store' = NoTags /\ type' = type
  <2>1. CASE ConnectionStep(c)
    BY Zenon, <2>1 DEF ConnectionStep, dataVars, StringInv
  <2>2. CASE RegistryStep(c)
    BY <2>2, SettledIs, ServerFacts DEF RegistryStep, Becomes
  <2> QED BY Zenon, <2>1, <2>2
<1>4. ASSUME NEW n \in NS, Registered(n)
      PROVE  /\ Registered(n)' /\ prev_ns'[n] = prev_ns[n]
             /\ \A i \in 1..Len(versions[n]) : i \in 1..Len(versions'[n]) /\ versions'[n][i] = versions[n][i]
  <2>1. Len(versions[n]) \in Nat /\ Len(versions'[n]) \in Nat /\ Len(versions'[n]) >= Len(versions[n])
    BY <1>1, <1>4 DEF Grows, TableInv, RegistryTypeOK
  <2>2. Len(versions[n]) # 0
    BY <1>1, <1>4 DEF Registered, TableInv, RegistryTypeOK
  <2>3. versions'[n] # << >>
    <3>1. Len(versions'[n]) # 0
      BY <2>1, <2>2
    <3> QED BY <3>1
  <2>4. \A i \in 1..Len(versions[n]) : i \in 1..Len(versions'[n])
    BY <2>1
  <2> QED BY Zenon, <1>4, <2>3, <2>4 DEF Grows, Registered
<1>5. ASSUME NEW o, NEW n \in NS, Fits(o, n) PROVE Fits(o, n)'
  <2>1. CASE o = NULL
    BY Zenon, <2>1 DEF Fits
  <2>2. CASE Registered(n) /\ \E i \in Numbers : o = Num(i)
    BY Zenon, <1>4, <2>2 DEF Fits
  <2>3. ASSUME Registered(n), NEW p \in Payload, NEW j \in 1..Len(versions[n]), o = Raw(p, versions[n][j])
        PROVE  Fits(o, n)'
    <3>1. Registered(n)' /\ j \in 1..Len(versions'[n]) /\ versions'[n][j] = versions[n][j]
      BY Zenon, <1>4, <2>3
    <3>2. o = Raw(p, versions'[n][j])
      BY Zenon, <2>3, <3>1
    <3> QED BY Zenon, <3>1, <3>2 DEF Fits
  <2> QED BY Zenon, <1>5, <2>1, <2>2, <2>3 DEF Fits
<1>6. AllFit(db)'
  <2>1. OnKeys(db)'
    BY Zenon, <1>2 DEF OnKeys, StringInv, DataInv, AllFit
  <2>2. ASSUME NEW n \in NS, NEW x \in Names PROVE Fits(db[Append(n, x)], n)'
    <3>1. PICK o : o = db[Append(n, x)]
      BY Zenon
    <3>2. Fits(o, n)'
      BY Zenon, <1>5, <3>1 DEF StringInv, DataInv, AllFit
    <3> QED BY Zenon, <1>2, <3>1, <3>2
  <2> QED BY Zenon, <2>1, <2>2 DEF AllFit
<1>7. OneName(db)'
  <2>1. ASSUME NEW n \in NS, NEW x \in Names
        PROVE  prev_ns'[n] = NULL \/ db[Append(n, x)] = NULL \/ db[Append(prev_ns'[n], x)] = NULL
    <3>1. CASE Registered(n)
      BY <1>4, <3>1 DEF StringInv, DataInv, OneName
    <3>2. CASE ~Registered(n)
      BY Zenon, <3>2 DEF StringInv, DataInv, AllFit, Fits
    <3> QED BY Zenon, <3>1, <3>2
  <2> QED BY Zenon, <1>2, <2>1 DEF OneName
<1>8. Strings(db)'
  BY Zenon, <1>2 DEF Strings, StringInv
<1> QED BY Zenon, <1>1, <1>2, <1>6, <1>7, <1>8 DEF StringInv, DataInv, OnlyStrings, NoTags

\* At the start there is no data.
LEMMA StringInvInit == ASSUME StringPrograms, KvolveInit, TableInv PROVE StringInv
<1>2. \A k \in Key : db[k] = NULL
  BY Zenon DEF KvolveInit
<1>3. \A n \in NS, x \in Names : db[Append(n, x)] = NULL
  BY Zenon, <1>2, IsKey
<1>4. DataInv(db) /\ Strings(db)
  BY Zenon, <1>3 DEF KvolveInit, DataInv, AllFit, OnKeys, Fits, OneName, Strings
<1> QED BY Zenon, <1>4 DEF KvolveInit, StringInv, OnlyStrings, StringPrograms, NoTags

\* Where a name is renamed at most once, it has at most one name before it.
LEMMA SingleFacts == ASSUME RenamedOnce, ByRename, RegistryTypeOK PROVE Single
<1> SUFFICES ASSUME NEW n \in NS, prev_ns[n] # NULL, prev_ns[prev_ns[n]] # NULL PROVE FALSE
  BY Zenon DEF Single
<1>1. PICK p \in NS : p = prev_ns[n]
  BY Zenon DEF RegistryTypeOK
<1> QED BY <1>1 DEF ByRename, RenamedOnce
=============================================================================
