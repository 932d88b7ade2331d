------------------------- MODULE KvolveServerProofs -------------------------
(***************************************************************************)
(* What KVolve promises for strings, for any number of clients,            *)
(* namespaces, names, versions and updates: alone, with transactions, and  *)
(* with saves, crashes and restarts.                                       *)
(***************************************************************************)
EXTENDS KvolveMultiProofs, KvolvePersistProofs, KvolveRegistryProofs, FiniteSetTheorems

-----------------------------------------------------------------------------
(* The registry inside KVolve *)

\* The table at the start, and after each restart.
LEMMA TableStarts == RegistryInit => TableInv /\ ByRename
BY Zenon, TableInvInit, LinksInit

\* Commands on data and saves leave the table.
LEMMA TableStays ==
    ASSUME TableInv, ByRename, UNCHANGED registryVars
    PROVE  TableInv' /\ ByRename'
BY Zenon, TableInvUnchanged, LinksStep DEF TableInv

\* Connections, declarations and updates make it grow.
LEMMA TableGrows ==
    ASSUME TableInv, ByRename, NEW c \in Client, ConnectionStep(c) \/ RegistryStep(c)
    PROVE  TableInv' /\ ByRename' /\ Grows /\ RootsKept
<1>1. TableStep(c)
  BY Zenon DEF ConnectionStep, RegistryStep, TableStep
<1>2. TableInv' /\ Grows /\ ByRename'
  BY Zenon, <1>1, RegistryFacts
<1>3. RootsKept
  BY Zenon, <1>2, LineageKept DEF RootsKept, TableInv
<1> QED BY Zenon, <1>2, <1>3

-----------------------------------------------------------------------------
(* Counting *)

\* Natural numbers are well founded: a set of them has a least one.
LEMMA Least ==
    ASSUME NEW T \in SUBSET Nat, T # {}
    PROVE  \E n \in T : \A m \in T : n <= m
<1> DEFINE R == OpToRel(<, Nat)
<1>1. IsWellFoundedOn(R, Nat)
  BY Zenon, NatLessThanWellFounded
<1>2. \A x, y \in Nat : <<y, x>> \in R <=> y < x
  BY Zenon DEF OpToRel
<1> HIDE DEF R
<1>3. PICK x \in T : \A y \in T : ~(<<y, x>> \in R)
  BY Zenon, <1>1, WFMin
<1>4. ASSUME NEW y \in T PROVE x <= y
  <2>1. ~(<<y, x>> \in R) /\ x \in Nat /\ y \in Nat
    BY Zenon, <1>3
  <2>2. ~(y < x)
    BY Zenon, <1>2, <2>1
  <2> QED BY <2>1, <2>2
<1> QED BY Zenon, <1>4

\* Rounds can be counted.
LEMMA Counts == Counting
<1> SUFFICES ASSUME NEW N \in Nat, NEW T, 0 \in T, \A n \in 1..N : n - 1 \in T => n \in T,
                    NEW k \in 0..N, k \notin T
             PROVE  FALSE
  BY Zenon DEF Counting
<1> DEFINE B == (0..N) \ T
<1>1. PICK n \in B : \A m \in B : n <= m
  <2>1. B \in SUBSET Nat /\ B # {}
    OBVIOUS
  <2> HIDE DEF B
  <2> QED BY Zenon, <2>1, Least
<1>2. n \in 1..N /\ n - 1 \in 0..N /\ ~(n <= n - 1)
  BY <1>1
<1>3. n - 1 \in T
  BY Zenon, <1>1, <1>2
<1> QED BY Zenon, <1>1, <1>2, <1>3

-----------------------------------------------------------------------------
(* What is finite *)

\* There are finitely many keys.
LEMMA KeyFinite == IsFiniteSet(Key)
<1> DEFINE S == NS \X Names
           f == [p \in S |-> Append(p[1], p[2])]
<1>1. IsFiniteSet(S)
  BY Zenon, HooksAssumption, FS_Product
<1>2. f \in [S -> Key]
  BY DEF Key
<1>3. \A k \in Key : \E p \in S : f[p] = k
  <2> SUFFICES ASSUME NEW k \in Key PROVE \E p \in S : f[p] = k
    BY Zenon
  <2>1. PICK n \in NS, x \in Names : k = Append(n, x)
    BY DEF Key
  <2>2. <<n, x>> \in S /\ f[<<n, x>>] = k
    BY Zenon, <2>1
  <2> QED BY Zenon, <2>2
<1> HIDE DEF f, S
<1>4. f \in Surjection(S, Key)
  BY Zenon, <1>2, <1>3 DEF Surjection
<1> QED BY Zenon, <1>1, <1>4, FS_Surjection

\* The keys of a set are gone through in some order.
LEMMA KeysOrdered == AllOrdered
<1> SUFFICES ASSUME NEW S \in SUBSET Key PROVE Ordered(S)
  BY Zenon DEF AllOrdered
<1>1. IsFiniteSet(S)
  BY Zenon, KeyFinite, FS_Subset
<1> PICK N : N = Cardinality(S)
  BY Zenon
<1>3. N \in Nat /\ ExistsBijection(1..N, S)
  BY Zenon, <1>1, FS_CardinalityType
<1>4. PICK f : f \in Injection(1..N, S)
  BY Zenon, <1>3 DEF ExistsBijection, Bijection
<1>5. f \in [1..N -> S] /\ \A i, j \in DOMAIN f : f[i] = f[j] => i = j
  BY Zenon, <1>4 DEF Injection, IsInjective
<1>6. InOrder(S) \in [1..N -> S]
  BY Zenon, <1>5 DEF InOrder
<1>7. InOrder(S) \in Seq(S)
  BY <1>3, <1>6
<1>8. DOMAIN InOrder(S) = 1..N
  BY Zenon, <1>6
<1>9. Len(InOrder(S)) = N
  BY <1>3, <1>7, <1>8
<1> QED BY Zenon, <1>3, <1>6, <1>9 DEF Ordered

\* However often it was renamed, a namespace has a name its programs use now:
\* the names after it are finitely many, and have more and more versions.
LEMMA CurrentExists ==
    ASSUME TableInv, NEW n \in NS
    PROVE  Current(n) \in NS /\ next_ns[Current(n)] = NULL /\ n \in Lineage(Current(n))
<1> DEFINE S == {m \in NS : n \in Lineage(m)}
<1>1. ASSUME \A m \in S : next_ns[m] # NULL PROVE FALSE
  <2> DEFINE f == [m \in S |-> next_ns[m]]
  <2>1. n \in S /\ S \in SUBSET NS
    BY Zenon, LineageStep DEF TableInv
  <2>2. ASSUME NEW m \in S
        PROVE  /\ m \in NS /\ next_ns[m] \in S /\ prev_ns[next_ns[m]] = m
               /\ Len(versions[m]) \in Nat /\ Len(versions[next_ns[m]]) \in Nat
               /\ Len(versions[m]) < Len(versions[next_ns[m]])
    <3> PICK l : l = next_ns[m]
      BY Zenon
    <3>2. m \in NS /\ n \in Lineage(m) /\ l \in NS /\ prev_ns[l] = m /\ m # NULL
      BY <1>1, <2>2, RegistryAssumption DEF TableInv, RegistryTypeOK, DocHistory, LinksOf
    <3>3. n \in Lineage(l)
      BY Zenon, <3>2, LineageStep DEF TableInv
    <3>4. Len(versions[m]) < Len(versions[l])
      BY Zenon, <3>2 DEF TableInv, DocHistory, LinksOf
    <3>5. Len(versions[m]) \in Nat /\ Len(versions[l]) \in Nat
      BY <3>2 DEF TableInv, RegistryTypeOK
    <3> QED BY Zenon, <3>2, <3>3, <3>4, <3>5
  <2> HIDE DEF S
  <2>3. f \in Injection(S, S)
    BY Zenon, <2>2 DEF Injection, IsInjective
  <2>4. IsFiniteSet(S)
    BY Zenon, <2>1, HooksAssumption, FS_Subset
  <2>5. \A m \in S : \E l \in S : f[l] = m
    <3> HIDE DEF f
    <3>1. f \in Surjection(S, S)
      BY Zenon, <2>3, <2>4, FS_Injection
    <3> QED BY Zenon, <3>1 DEF Surjection
  <2> DEFINE T == {Len(versions[m]) : m \in S}
  <2>6. T \in SUBSET Nat /\ T # {}
    BY Zenon, <2>1, <2>2
  <2>7. PICK i \in T : \A j \in T : i <= j
    <3> HIDE DEF T
    <3> QED BY Zenon, <2>6, Least
  <2>8. PICK m \in S : i = Len(versions[m])
    BY Zenon
  <2>9. PICK l \in S : next_ns[l] = m
    BY Zenon, <2>5
  <2>10. Len(versions[l]) < Len(versions[m]) /\ Len(versions[l]) \in Nat /\ Len(versions[m]) \in Nat
    BY Zenon, <2>2, <2>9
  <2>11. Len(versions[m]) <= Len(versions[l])
    BY Zenon, <2>7, <2>8
  <2> QED BY <2>10, <2>11
<1>2. \E m \in NS : next_ns[m] = NULL /\ n \in Lineage(m)
  BY Zenon, <1>1
<1> QED BY Zenon, <1>2 DEF Current

\* So every name has one its programs use now.
LEMMA CurrentThere == ASSUME TableInv PROVE CurrentFound
BY Zenon, CurrentExists DEF CurrentFound

-----------------------------------------------------------------------------
(* Programs that use strings, and tag what they write *)

\* The inductive invariant of the data: whatever hooks and commands do, every
\* string is tagged with its schema, which its namespace knows, is under one name
\* of two that follow each other, and no tag waits in tmp_store.
THEOREM DataInOrder ==
    ASSUME PlainNames, Tagging, StringPrograms
    PROVE  KvolveSpec => [](StringInv /\ ByRename)
<1>1. KvolveInit => StringInv /\ ByRename
  BY Zenon, StringInvInit, TableStarts DEF KvolveInit
<1>2. StringInv /\ ByRename /\ [KvolveNext]_kvolveVars => StringInv' /\ ByRename'
  <2> SUFFICES ASSUME StringInv, ByRename, [KvolveNext]_kvolveVars PROVE StringInv' /\ ByRename'
    BY Zenon
  <2>1. TableInv
    BY Zenon DEF StringInv
  <2>2. CASE UNCHANGED kvolveVars
    <3> PICK e : e = db
      BY Zenon
    <3>2. DataInv(e) /\ Strings(e) /\ db' = e /\ UNCHANGED <<registryVars, type>> /\ tmp_store' = tmp_store
      BY Zenon, <2>2 DEF kvolveVars, dataVars, StringInv
    <3>3. DataInv(db)' /\ Strings(db)' /\ TableInv' /\ ByRename'
      BY Zenon, <2>1, <3>2, DataFrame, TableStays
    <3> QED BY Zenon, <3>2, <3>3 DEF StringInv, OnlyStrings, NoTags
  <2>3. ASSUME NEW c \in Client, ConnectionStep(c) \/ RegistryStep(c) PROVE StringInv' /\ ByRename'
    BY Zenon, <2>1, <2>3, TableGrows, StringInvRegistry
  <2>4. ASSUME NEW c \in Client, DataStep(c), UNCHANGED registryVars PROVE StringInv' /\ ByRename'
    BY <2>1, <2>4, TableStays, Counts, KeysOrdered, StringInvData
  <2> QED BY Zenon, <2>2, <2>3, <2>4 DEF KvolveNext
<1> QED BY <1>1, <1>2, PTL DEF KvolveSpec

\* Strings stay well formed: a tag is a version, or 0 for a number.
THEOREM StringsTypeOK ==
    ASSUME PlainNames, Tagging, StringPrograms
    PROVE  KvolveSpec => []KvolveTypeOK
BY DataInOrder, TypeInOrder, PTL

\* The tag of a string is the version of its data, whichever client wrote it,
\* and however far kvolve_check_update_kv_pair has brought it since.
THEOREM StringTagsTruthful ==
    ASSUME PlainNames, Tagging, StringPrograms
    PROVE  KvolveSpec => []TagsTruthful
BY DataInOrder, TruthInOrder, PTL

\* An item is stored under one name, the old or the new: kvolve_namespace_update
\* moves it, and SET drops the old copy.
THEOREM StringOneCopy ==
    ASSUME PlainNames, Tagging, StringPrograms, RenamedOnce
    PROVE  KvolveSpec => []OneCopy
BY DataInOrder, OneInOrder, PTL

\* Every string can be read under the name its namespace has now: it is where
\* kvolve_get_db_val looks.
THEOREM StringReachable ==
    ASSUME PlainNames, Tagging, StringPrograms, RenamedOnce
    PROVE  KvolveSpec => []Reachable
<1>1. StringInv /\ ByRename => Reachable
  BY Zenon, FoundInOrder, CurrentThere DEF StringInv
<1> QED BY <1>1, DataInOrder, PTL

\* A get, an mget, KEYS, or a setnx, setxx or incr that fails, loses and changes
\* no string: whatever kvolve_check_update_kv_pair, kvolve_namespace_update and
\* kvolve_keys rename and update on the way, each item has the content it had.
THEOREM StringReads ==
    ASSUME PlainNames, Tagging, StringPrograms
    PROVE  KvolveSpec => ReadsKeepData
<1>1. StringInv /\ ByRename /\ [KvolveNext]_kvolveVars => [ReadStep]_kvolveVars
  <2> SUFFICES ASSUME StringInv, ByRename, KvolveNext PROVE ReadStep
    BY Zenon
  <2>1. ASSUME NEW c \in Client, DataStep(c), UNCHANGED registryVars PROVE ReadStep
    BY Zenon, <2>1, Counts, KeysOrdered, ReadStepData
  <2>2. ASSUME NEW c \in Client, ConnectionStep(c) \/ RegistryStep(c) PROVE ReadStep
    <3>1. db' = db
      <4>1. CASE ConnectionStep(c)
        BY Zenon, <4>1 DEF ConnectionStep, dataVars
      <4>2. CASE RegistryStep(c)
        BY <4>2, SettledIs, ServerFacts DEF RegistryStep, Becomes
      <4> QED BY Zenon, <2>2, <4>1, <4>2
    <3>2. RootsKept /\ TableInv' /\ Grows
      BY Zenon, <2>2, TableGrows DEF StringInv
    <3>3. StringInv'
      BY Zenon, <2>2, <3>2, StringInvRegistry
    <3> QED BY Zenon, <3>1, <3>2, <3>3, StoredKept DEF ReadStep
  <2> QED BY Zenon, <2>1, <2>2 DEF KvolveNext
<1>2. KvolveSpec => [][ReadStep]_kvolveVars
  BY <1>1, DataInOrder, PTL DEF KvolveSpec
<1> QED BY Zenon, <1>2 DEF ReadsKeepData, ReadStep

-----------------------------------------------------------------------------
(* Transactions *)

\* The inductive invariant of transactions: while one is queued and watched, the
\* data is in order, what is queued is for the present name of its item, and a
\* client that has not been told of a change still finds what it watched.
THEOREM TransactionsInOrder ==
    ASSUME PlainNames, Tagging, StringPrograms, RenamedOnce, NoneLost
    PROVE  MultiSpec => [](MultiInv /\ ByRename)
<1>1. MultiInit => MultiInv /\ ByRename
  <2> SUFFICES ASSUME MultiInit PROVE MultiInv /\ ByRename
    BY Zenon
  <2>1. KvolveInit /\ TableInv /\ ByRename
    BY Zenon, TableStarts DEF MultiInit, KvolveInit
  <2>2. StringInv /\ Single
    BY Zenon, <2>1, StringInvInit, SingleFacts DEF TableInv
  <2> QED BY <2>1, <2>2, MultiInvInit
<1>2. MultiInv /\ ByRename /\ [MultiNext]_allVars => MultiInv' /\ ByRename'
  <2> SUFFICES ASSUME MultiInv, ByRename, [MultiNext]_allVars PROVE MultiInv' /\ ByRename'
    BY Zenon
  <2>1. TableInv
    BY Zenon DEF MultiInv, StringInv
  <2>2. CASE UNCHANGED allVars
    <3>1. TableInv' /\ ByRename'
      BY Zenon, <2>1, <2>2, TableStays DEF allVars, kvolveVars
    <3> QED BY Zenon, <2>2, <3>1, MultiInvStays
  <2>3. ASSUME NEW c \in Client, RegistryChange(c) PROVE MultiInv' /\ ByRename'
    <3>1. TableInv' /\ ByRename' /\ Grows /\ RootsKept
      BY Zenon, <2>1, <2>3, TableGrows DEF RegistryChange
    <3>2. Single'
      <4>1. (RenamedOnce /\ ByRename /\ RegistryTypeOK => Single)'
        BY SingleFacts, PTL
      <4>2. RenamedOnce'
        BY Zenon DEF RenamedOnce
      <4> QED BY Zenon, <3>1, <4>1, <4>2 DEF TableInv
    <3> QED BY Zenon, <2>3, <3>1, <3>2, MultiInvRegistry
  <2>4. ASSUME NEW c \in Client, TransactionStep(c), UNCHANGED registryVars PROVE MultiInv' /\ ByRename'
    <3>1. TableInv' /\ ByRename'
      BY Zenon, <2>1, <2>4, TableStays
    <3> QED BY <2>4, <3>1, Counts, KeysOrdered, MultiInvData
  <2> QED BY Zenon, <2>2, <2>3, <2>4 DEF MultiNext
<1> QED BY <1>1, <1>2, PTL DEF MultiSpec

\* A transaction that EXEC would accept finds the strings its client has watched
\* as they were: every command or hook that changes one, or moves it to another
\* name, signals a key the client watches (touchWatchedKey).  That holds where
\* SET is neither queued nor turned down: its hook has dropped the copy under the
\* old name by then.
THEOREM StringWatchGuards ==
    ASSUME PlainNames, Tagging, StringPrograms, RenamedOnce, NoneLost
    PROVE  MultiSpec => []WatchGuards
<1>1. MultiInv => WatchGuards
  BY Zenon DEF MultiInv, Guarded, WatchGuards
<1> QED BY <1>1, TransactionsInOrder, PTL

\* A client whose own queued command makes its transaction fail has brought a
\* string it watches nearer to its last version: queueMultiCommand runs the hook
\* at once, the hook signals only when it moves the string to its present name,
\* and the next attempt finds it there.
THEOREM StringAborts ==
    ASSUME PlainNames, Tagging, StringPrograms, RenamedOnce, NoneLost
    PROVE  MultiSpec => AbortsMakeProgress
<1>1. MultiInv /\ [MultiNext]_allVars => [ProgressStep]_allVars
  <2> SUFFICES ASSUME MultiInv, MultiNext PROVE ProgressStep
    BY Zenon
  <2>1. DOMAIN flags = Client
    BY Zenon DEF MultiInv
  <2>2. ASSUME NEW c \in Client, RegistryChange(c) PROVE ProgressStep
    BY Zenon, <2>1, <2>2, ProgressRegistry
  <2>3. ASSUME NEW c \in Client, TransactionStep(c), UNCHANGED registryVars PROVE ProgressStep
    BY Zenon, <2>3, Counts, ProgressData
  <2> QED BY Zenon, <2>2, <2>3 DEF MultiNext
<1>2. MultiSpec => [][ProgressStep]_allVars
  BY <1>1, TransactionsInOrder, PTL DEF MultiSpec
<1> QED BY Zenon, <1>2 DEF AbortsMakeProgress, ProgressStep

-----------------------------------------------------------------------------
(* Saves, crashes and restarts *)

\* A server that starts has an empty table.
LEMMA TableLoads == ASSUME NEW f, rdbLoad(f) PROVE TableInv' /\ ByRename'
<1>1. RegistryInit'
  BY Zenon DEF rdbLoad, RegistryInit
<1>2. (RegistryInit => TableInv /\ ByRename)'
  BY TableStarts, PTL
<1> QED BY Zenon, <1>1, <1>2

\* Saves leave the table, restarts empty it.
LEMMA TableSaves ==
    ASSUME TableInv, ByRename, SaveStep
    PROVE  TableInv' /\ ByRename'
<1>1. CASE UNCHANGED registryVars
  BY Zenon, <1>1, TableStays
<1>2. ASSUME NEW f, rdbLoad(f) PROVE TableInv' /\ ByRename'
  BY Zenon, <1>2, TableLoads
<1> QED BY Zenon, <1>1, <1>2 DEF SaveStep, serverCron, backgroundSaveDoneHandler, crash, prepareForShutdown,
                          bgsaveCommand, saveCommand, Commanded, kvolveVars

\* The inductive invariant of the server with its file: through saves by a child
\* or by the server, failed saves, crashes and restarts at any moment, every dump
\* is in order, and what is in memory is what the dump held until the table has
\* been filled again.
THEOREM FileInOrder ==
    ASSUME PlainNames, Tagging, StringPrograms, OneByte
    PROVE  PersistSpec => [](PersistInv /\ ByRename)
<1>1. PersistInit => PersistInv /\ ByRename
  BY Zenon, PersistStart, TableStarts DEF PersistInit, KvolveInit
<1>2. PersistInv /\ ByRename /\ [PersistNext]_serverVars => PersistInv' /\ ByRename'
  <2> SUFFICES ASSUME PersistInv, ByRename, [PersistNext]_serverVars PROVE PersistInv' /\ ByRename'
    BY Zenon
  <2>1. TableInv
    BY Zenon DEF PersistInv
  <2>2. CASE UNCHANGED serverVars
    <3> PICK f, g : f = rdb_file /\ g = rdb_child
      BY Zenon
    <3>2. /\ UNCHANGED <<registryVars, db, tmp_store, type, start>> /\ rdb_file' = f /\ rdb_child' = g
          /\ GoodDump(f) /\ (g # NULL => GoodDump(g))
      BY Zenon, <2>2 DEF serverVars, kvolveVars, dataVars, persistVars, PersistInv
    <3>3. TableInv' /\ ByRename'
      BY Zenon, <2>1, <3>2, TableStays
    <3> QED BY Zenon, <3>2, <3>3, SaveFrame
  <2>3. CASE SaveStep
    BY Zenon, <2>1, <2>3, TableSaves, PersistSaves
  <2>4. ASSUME NEW c \in Client, ConnectionStep(c) \/ RegistryStep(c), UNCHANGED persistVars
        PROVE  PersistInv' /\ ByRename'
    BY <2>1, <2>4, TableGrows, PersistRegistry
  <2>5. ASSUME NEW c \in Client, Replayed, DataStep(c),
               UNCHANGED <<registryVars, rdb_file, rdb_child, start>>
        PROVE  PersistInv' /\ ByRename'
    <3>1. TableInv' /\ ByRename'
      BY Zenon, <2>1, <2>5, TableStays
    <3>2. StringInv => StringInv'
      BY Zenon, <2>5, <3>1, Counts, KeysOrdered, StringInvData
    <3> QED BY Zenon, <2>1, <2>5, <3>1, <3>2, PersistCommands
  <2> QED BY Zenon, <2>2, <2>3, <2>4, <2>5 DEF PersistNext
<1> QED BY <1>1, <1>2, PTL DEF PersistSpec

\* Strings are saved with the version of their data, whenever the file is
\* written: rdbSaveKeyValuePair writes the tag that is in the object, and strings
\* have theirs from the start.
THEOREM StringsSavedTruthful ==
    ASSUME PlainNames, Tagging, StringPrograms, OneByte
    PROVE  PersistSpec => []SavedTagsTruthful
<1>1. PersistInv => SavedTagsTruthful
  <2> SUFFICES ASSUME PersistInv, NEW f \in {rdb_file, rdb_child} \ {NULL}
               PROVE  \A k \in Key : f.db[k] # NULL => NameOf(k) \in f.late \/ TellsTruth(f.db[k])
    BY Zenon DEF SavedTagsTruthful
  <2> QED BY Zenon, DumpInOrder
<1> QED BY <1>1, FileInOrder, PTL

\* Also after a restart, and while the updates are loaded again, the tags of
\* strings tell the truth: rdbLoadObject puts the saved tag into the object.
THEOREM StringsLoadedTruthful ==
    ASSUME PlainNames, Tagging, StringPrograms, OneByte
    PROVE  PersistSpec => []RestartTagsTruthful
BY FileInOrder, LoadedInOrder, PTL

\* A server that starts from a dump taken in the middle of lazy renames and
\* updates shows programs, once the updates are loaded again, the strings they
\* would have read when the dump was taken: what is under the old name is still
\* found there, and the saved tag says which updates are still to be applied.
THEOREM StringsRestored ==
    ASSUME PlainNames, Tagging, StringPrograms, OneByte, RenamedOnce
    PROVE  PersistSpec => []RestartRestores
<1>1. PersistInit /\ PersistInv /\ ByRename => RestartInv
  BY Zenon, RestartStart
<1>2. RestartInv /\ PersistInv' /\ ByRename' /\ [PersistNext]_serverVars => RestartInv'
  <2> SUFFICES ASSUME RestartInv, PersistInv', ByRename', [PersistNext]_serverVars PROVE RestartInv'
    BY Zenon
  <2>1. CASE UNCHANGED serverVars
    BY Zenon, <2>1, RestartSteps DEF serverVars, kvolveVars, dataVars, persistVars
  <2>2. CASE SaveStep
    <3>1. CurrentFound /\ TableInv'
      BY Zenon, CurrentThere DEF RestartInv, PersistInv
    <3> QED BY Zenon, <2>2, <3>1, Counts, RestartSaves
  <2>3. ASSUME NEW c \in Client, ConnectionStep(c) \/ RegistryStep(c), UNCHANGED persistVars
        PROVE  RestartInv'
    <3>1. db' = db
      <4>1. CASE ConnectionStep(c)
        BY Zenon, <4>1 DEF ConnectionStep, dataVars
      <4>2. CASE RegistryStep(c)
        BY <4>2, SettledInFile, ServerFacts DEF RegistryStep, Becomes, RestartInv
      <4> QED BY Zenon, <2>3, <4>1, <4>2
    <3> QED BY Zenon, <2>3, <3>1, RestartSteps DEF persistVars
  <2>4. ASSUME fresh' = FALSE, UNCHANGED <<rdb_file, rdb_child, start>> PROVE RestartInv'
    BY Zenon, <2>4, RestartSteps
  <2> QED BY Zenon, <2>1, <2>2, <2>3, <2>4 DEF PersistNext
<1>3. RestartInv => RestartRestores
  BY Zenon, Counts, CurrentThere, RestoresNow DEF RestartInv, PersistInv
<1> QED BY <1>1, <1>2, <1>3, FileInOrder, PTL DEF PersistSpec
=============================================================================
