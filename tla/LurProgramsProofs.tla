-------------------------- MODULE LurProgramsProofs -------------------------
(***************************************************************************)
(* What the programs of LazyUpdateRedis find in Redis, for any number of   *)
(* clients, versions and keys, when update files do not rename namespaces: *)
(* what the transaction of get writes is still true when it writes; with   *)
(* one client that updates, or with the programs stopped for updates, a    *)
(* program is written for the newest version of its client's list, and     *)
(* values have the shape of the version they are stored under; with the    *)
(* programs stopped, everybody has the list that is in Redis, and after    *)
(* do_upd_all_now every key has its value under the current version.       *)
(***************************************************************************)
EXTENDS LurDataProofs

-----------------------------------------------------------------------------
(* The transaction of get *)

\* A client that puts a version in front of a list.
LEMMA InFront ==
    ASSUME NEW l \in Seq(Entry), NEW e \in Entry
    PROVE  /\ <<e>> \o l \in Seq(Entry) /\ <<e>> \o l # << >> /\ (<<e>> \o l)[1] = e
           /\ <<e>> \in Seq(Entry) /\ <<e>> # << >> /\ <<e>>[1] = e
           /\ \A n : e.ns = n /\ OwnEntries(n, l) => OwnEntries(n, <<e>> \o l)
           /\ \A n : e.ns = n => OwnEntries(n, <<e>>)
<1> DEFINE E == Entry
<1>1. l \in Seq(E) /\ e \in E
  BY Zenon
<1> HIDE DEF E
<1>2. /\ <<e>> \o l \in Seq(E) /\ <<e>> \o l # << >> /\ (<<e>> \o l)[1] = e
      /\ <<e>> \in Seq(E) /\ <<e>> # << >> /\ <<e>>[1] = e
  BY <1>1
<1>3. ASSUME NEW n, e.ns = n, OwnEntries(n, l) PROVE OwnEntries(n, <<e>> \o l)
  <2> SUFFICES ASSUME NEW i \in DOMAIN (<<e>> \o l) PROVE (<<e>> \o l)[i].ns = n
    BY Zenon DEF OwnEntries
  <2>1. i = 1 \/ (i - 1 \in DOMAIN l /\ (<<e>> \o l)[i] = l[i - 1])
    BY <1>1
  <2> QED BY Zenon, <1>2, <1>3, <2>1 DEF OwnEntries
<1>4. ASSUME NEW n, e.ns = n PROVE OwnEntries(n, <<e>>)
  BY <1>4 DEF OwnEntries
<1> QED BY Zenon, <1>2, <1>3, <1>4 DEF E

\* No other step changes a list.
LEMMA ListSteps ==
    ASSUME NoRenames, TypeInv, NEW c \in Client,
           ConnectStep(c) \/ UpdateStep(c) \/ (Reset(c) /\ UNCHANGED listVars)
    PROVE  /\ UNCHANGED UPDATE_VERSIONS \/ Pushed(c)
           /\ \/ UNCHANGED ns_versions_dict \/ Copied(c)
              \/ ns_versions_dict' = [ns_versions_dict EXCEPT ![c] = NoLists]
           /\ pc[c] \notin Renaming
<1>1. pc[c] \notin Renaming
  <2>1. pc[c] \in Renaming => job[c].file \in Files /\ job[c].file.ns # job[c].file.oldns
    BY Zenon DEF JobTyped, Renaming, Updating, TypeInv, UpdInv
  <2> QED BY Zenon, <2>1 DEF NoRenames
<1>2. CASE Reset(c) /\ UNCHANGED listVars
  BY Zenon, <1>1, <1>2 DEF Reset, listVars
<1>3. CASE (\E p \in Programs : connect(c, p)) \/ load_upd_tuples(c) \/ connect_setname(c)
  BY Zenon, <1>1, <1>3 DEF connect, load_upd_tuples, connect_setname, listVars, localVars
<1>4. CASE connect_read(c)
  <2> DEFINE p == job[c]
             l == UPDATE_VERSIONS[p.ns]
  <2>1. p \in Entry /\ p.ns \in NS
    BY Zenon, <1>4 DEF connect_read, JobTyped, Entry, TypeInv, UpdInv
  <2>2. l \in Seq(Entry)
    BY Zenon, <2>1 DEF Typed, TypeInv, UpdInv
  <2>3. <<p>> \in Seq(Entry) /\ OwnEntries(p.ns, <<p>>)
    BY Zenon, <2>1, <2>2, InFront
  <2>4. ns_versions_dict' = [ns_versions_dict EXCEPT ![c][p.ns] = l] => Copied(c)
    BY Zenon, <2>1, <2>2 DEF Copied
  <2>5. ns_versions_dict' = [ns_versions_dict EXCEPT ![c][p.ns] = <<p>>] => Copied(c)
    BY Zenon, <2>1, <2>3 DEF Copied
  <2> QED BY Zenon, <1>1, <1>2, <1>4, <2>4, <2>5 DEF connect_read, listVars
<1>5. CASE connect_exec(c)
  <2>1. job[c] \in Entry /\ job[c].ns \in NS
    BY Zenon, <1>5 DEF connect_exec, JobTyped, Entry, TypeInv, UpdInv
  <2>2. UNCHANGED UPDATE_VERSIONS \/ Pushed(c)
    BY Zenon, <1>5, <2>1 DEF connect_exec, Pushed, WatchHolds
  <2> QED BY Zenon, <1>1, <1>5, <2>2 DEF connect_exec, localVars
<1>6. CASE \/ \E u \in Files : do_upd(c, u)
           \/ upd_hget(c) \/ upd_watch(c) \/ upd_hset(c) \/ upd_setname(c) \/ kill_connected_clients_at(c)
  BY Zenon, <1>1, <1>6 DEF do_upd, upd_hget, upd_watch, upd_hset, upd_setname, kill_connected_clients_at,
                    listVars, localVars
<1>7. CASE upd_read(c) \/ upd_exec(c)
  <2> DEFINE n == job[c].file.ns
             e == [ver |-> job[c].file.to, ns |-> n]
             l == UPDATE_VERSIONS[n]
  <2>1. pc[c] \in Updating
    BY Zenon, <1>7 DEF upd_read, upd_exec, Updating
  <2>2. n \in NS /\ e \in Entry /\ l \in Seq(Entry) /\ e.ns = n
    BY Zenon, <2>1, JobOf DEF TypeInv, UpdInv
  <2>3. <<e>> \o l \in Seq(Entry) /\ (OwnEntries(n, l) => OwnEntries(n, <<e>> \o l))
    BY Zenon, <2>2, InFront
  <2>4. CASE upd_read(c)
    <3>1. UNCHANGED ns_versions_dict \/ ns_versions_dict' = [ns_versions_dict EXCEPT ![c][n] = <<e>> \o l]
      BY Zenon, <2>4 DEF upd_read
    <3>2. UNCHANGED ns_versions_dict \/ Copied(c)
      BY Zenon, <2>2, <2>3, <3>1 DEF Copied
    <3> QED BY Zenon, <1>1, <2>4, <3>2 DEF upd_read, listVars
  <2>5. CASE upd_exec(c)
    <3>1. UNCHANGED UPDATE_VERSIONS \/ Pushed(c)
      BY Zenon, <2>2, <2>5 DEF upd_exec, Pushed, WatchHolds
    <3> QED BY Zenon, <1>1, <2>5, <3>1 DEF upd_exec, localVars
  <2> QED BY Zenon, <1>7, <2>4, <2>5
<1>8. CASE rename_exists(c) \/ rename_watch(c) \/ rename_read(c) \/ rename_exec(c)
  BY Zenon, <1>1, <1>8 DEF rename_exists, rename_watch, rename_read, rename_exec, Renaming
<1> QED BY Zenon, <1>2, <1>3, <1>4, <1>5, <1>6, <1>7, <1>8 DEF ConnectStep, UpdateStep

\* Every step keeps the names.
LEMMA OwnNamesKept ==
    ASSUME NoRenames, TypeInv, OwnNames, NEW c \in Client,
           VersionStep(c) \/ UpdateAll(c) \/ stop(c) \/ Continue(c) \/ Call(c)
    PROVE  OwnNames'
<1>1. CASE Continue(c) \/ Call(c)
  BY Zenon, <1>1, DataServed DEF Served, OwnNames, listVars, localVars
<1>2. CASE VersionStep(c) \/ UpdateAll(c) \/ stop(c)
  <2>1. ConnectStep(c) \/ UpdateStep(c) \/ (Reset(c) /\ UNCHANGED listVars)
    BY Zenon, <1>2, VersionStepFacts
  <2>2. UNCHANGED UPDATE_VERSIONS \/ Pushed(c)
    BY Zenon, <2>1, ListSteps
  <2>3. \/ UNCHANGED ns_versions_dict \/ Copied(c)
        \/ ns_versions_dict' = [ns_versions_dict EXCEPT ![c] = NoLists]
    BY Zenon, <2>1, ListSteps
  <2>4. \A n \in NS : OwnEntries(n, UPDATE_VERSIONS'[n])
    <3>1. CASE UNCHANGED UPDATE_VERSIONS
      BY Zenon, <3>1 DEF OwnNames
    <3>2. CASE Pushed(c)
      <4>1. PICK n \in NS, e \in Entry :
              e.ns = n /\ UPDATE_VERSIONS' = [UPDATE_VERSIONS EXCEPT ![n] = <<e>> \o @]
        BY Zenon, <3>2 DEF Pushed
      <4> DEFINE l == <<e>> \o UPDATE_VERSIONS[n]
      <4>2. UPDATE_VERSIONS[n] \in Seq(Entry) /\ OwnEntries(n, UPDATE_VERSIONS[n])
        BY Zenon DEF Typed, OwnNames, TypeInv, UpdInv
      <4>3. OwnEntries(n, l)
        BY Zenon, <4>1, <4>2, InFront
      <4> HIDE DEF l
      <4>4. \A m \in NS : UPDATE_VERSIONS'[m] = IF m = n THEN l ELSE UPDATE_VERSIONS[m]
        BY Zenon, <4>1 DEF l, Typed, TypeInv, UpdInv
      <4> QED BY Zenon, <4>3, <4>4 DEF OwnNames
    <3> QED BY Zenon, <2>2, <3>1, <3>2
  <2>5. \A d \in Client, n \in NS : OwnEntries(n, ns_versions_dict'[d][n])
    <3>1. CASE UNCHANGED ns_versions_dict
      BY Zenon, <3>1 DEF OwnNames
    <3>2. CASE Copied(c)
      <4>1. PICK n \in NS, l \in Seq(Entry) :
              /\ OwnEntries(n, UPDATE_VERSIONS[n]) => OwnEntries(n, l)
              /\ ns_versions_dict' = [ns_versions_dict EXCEPT ![c][n] = l]
        BY Zenon, <3>2 DEF Copied
      <4>2. OwnEntries(n, l)
        BY Zenon, <4>1 DEF OwnNames
      <4>3. \A d \in Client, m \in NS :
              ns_versions_dict'[d][m] = IF d = c /\ m = n THEN l ELSE ns_versions_dict[d][m]
        BY Zenon, <4>1 DEF Typed, TypeInv, UpdInv
      <4> QED BY Zenon, <4>2, <4>3 DEF OwnNames
    <3>3. CASE ns_versions_dict' = [ns_versions_dict EXCEPT ![c] = NoLists]
      <4>1. \A n \in NS : OwnEntries(n, NoLists[n])
        BY DEF OwnEntries, NoLists
      <4>2. \A d \in Client : ns_versions_dict'[d] = IF d = c THEN NoLists ELSE ns_versions_dict[d]
        BY Zenon, <3>3 DEF Typed, TypeInv, UpdInv
      <4> QED BY Zenon, <4>1, <4>2 DEF OwnNames
    <3> QED BY Zenon, <2>3, <3>1, <3>2, <3>3
  <2> QED BY Zenon, <2>4, <2>5 DEF OwnNames
<1> QED BY Zenon, <1>1, <1>2

\* So what get watches is every key it reads.
LEMMA WatchesAll ==
    ASSUME TypeInv, OwnNames, NEW c \in Client, InUse(c), NEW k \in Suffix
    PROVE  WatchedKeys(c, k) = Elements(all_potential_keys(c, k))
<1> DEFINE l == vers_list(c)
<1>1. Typed /\ Here(c) \in NS /\ DOMAIN l = 1..Len(l) /\ \A i \in DOMAIN l : l[i] \in Entry
  BY Zenon, InUseFacts DEF TypeInv, UpdInv
<1>2. \A i \in DOMAIN l : l[i].ns = Here(c)
  BY Zenon, <1>1 DEF OwnNames, OwnEntries, vers_list
<1>3. \A i \in DOMAIN l : [l[i] EXCEPT !.ns = Here(c)] = l[i]
  <2> SUFFICES ASSUME NEW i \in DOMAIN l PROVE [l[i] EXCEPT !.ns = Here(c)] = l[i]
    BY Zenon
  <2> DEFINE e == l[i]
  <2>1. e \in Entry /\ e.ns = Here(c)
    BY Zenon, <1>1, <1>2
  <2> HIDE DEF e
  <2>2. [e EXCEPT !.ns = Here(c)] = e
    BY Zenon, <2>1 DEF Entry
  <2> QED BY Zenon, <2>2 DEF e
<1>4. DOMAIN all_potential_keys(c, k) = DOMAIN l
      /\ \A i \in DOMAIN l : all_potential_keys(c, k)[i] = <<l[i], k>>
  BY Zenon DEF all_potential_keys
<1> HIDE DEF l
<1> QED BY Zenon, <1>3, <1>4 DEF WatchedKeys, Elements, l

\* Only the second MGET of a get leads to its transaction, and only that
\* transaction leads from there back to the program.
LEMMA CommitSteps ==
    ASSUME TypeInv, NEW c \in Client,
           VersionStep(c) \/ UpdateAll(c) \/ stop(c) \/ Continue(c) \/ Call(c)
    PROVE  /\ pc'[c] = "g_exec" => get_read(c)
           /\ pc[c] = "g_exec" /\ pc'[c] = "ready" => get_exec(c)
<1>1. \A x : Goto(c, x) => pc'[c] = x
  BY Zenon, OwnState DEF TypeInv, UpdInv
<1>2. CASE VersionStep(c) \/ UpdateAll(c) \/ stop(c)
  <2>1. ConnectStep(c) \/ UpdateStep(c) \/ Reset(c)
    BY Zenon, <1>2, VersionStepFacts
  <2>2. CASE Reset(c)
    BY Zenon, <1>1, <2>2 DEF Reset
  <2>3. CASE ConnectStep(c)
    BY Zenon, <1>1, <2>2, <2>3 DEF ConnectStep, connect, connect_read, connect_exec,
                                   load_upd_tuples, connect_setname
  <2>4. CASE UpdateStep(c)
    BY Zenon, <1>1, <2>4 DEF UpdateStep, Leave, do_upd, upd_hget, upd_watch, upd_read, upd_exec,
       rename_exists, rename_watch, rename_read, rename_exec, upd_hset, upd_setname,
       kill_connected_clients_at
  <2> QED BY Zenon, <2>1, <2>2, <2>3, <2>4
<1>3. CASE Call(c)
  BY Zenon, <1>1, <1>3 DEF Call, get, delete, set, set_flagged
<1>4. CASE Continue(c)
  <2>1. CASE get_read(c) \/ get_exec(c)
    BY Zenon, <1>1, <2>1 DEF get_read, get_exec, Raise, Done
  <2>2. CASE get_mget(c) \/ get_mark(c) \/ get_watch(c) \/ set_del(c)
    BY Zenon, <1>1, <2>2 DEF get_mget, get_mark, get_watch, set_del, Done
  <2>3. CASE scan_call(c) \/ scan_return(c)
    BY Zenon, <1>1, <2>3 DEF scan_call, scan_return, Scanned, Scanning
  <2>4. ASSUME NEW k, get(c, k) PROVE pc'[c] \in {"ready", "g_mget"} /\ pc[c] # "g_exec"
    BY Zenon, <1>1, <2>4 DEF get
  <2>5. ASSUME NEW x \in Key, scan_get(c, x) PROVE pc'[c] # "g_exec" /\ pc[c] # "g_exec"
    <3>1. pc[c] = "ready" /\ (get(c, x[2]) \/ Goto(c, "ready"))
      BY Zenon, <2>5 DEF scan_get, Scanning
    <3> QED BY Zenon, <1>1, <2>4, <3>1
  <2> QED BY Zenon, <1>4, <2>1, <2>2, <2>3, <2>4, <2>5 DEF Continue
<1> QED BY Zenon, <1>2, <1>3, <1>4

\* What a get has read is what is stored, when it has read it.
LEMMA ReadNow ==
    ASSUME TypeInv, NEW c \in Client, get_read(c)
    PROVE  ReadStill(c)'
<1> DEFINE k == job[c].key
           ks == all_potential_keys(c, k)
           at == {i \in DOMAIN ks : db[ks[i]] # NULL}
           idx == CHOOSE i \in at : \A j \in at : i <= j
           new == Updated(c, k, db[ks[idx]], idx)
<1> SUFFICES ASSUME pc'[c] = "g_exec" PROVE ReadStill(c)'
  BY Zenon DEF ReadStill
<1>1. pc[c] = "g_read" /\ db' = db /\ ns_versions_dict' = ns_versions_dict
  BY Zenon DEF get_read, localVars
<1>2. k \in Suffix /\ InUse(c)
  BY Zenon, <1>1 DEF ClientTyped, Serving, Getting, TypeInv, UpdInv
<1>3. at # {} /\ job' = [job EXCEPT ![c] = [key |-> k, idx |-> idx, orig_val |-> db[ks[idx]], val |-> new]]
  <2>1. ~Goto(c, "ready")
    BY OwnState DEF TypeInv, UpdInv
  <2> QED BY Zenon, <2>1 DEF get_read, Raise, Done
<1>4. at \subseteq Nat /\ DOMAIN ks = 1..Len(vers_list(c)) /\ Len(vers_list(c)) \in Nat
  <2>1. DOMAIN ks = 1..Len(vers_list(c))
    BY Zenon, <1>2, KeyFacts DEF TypeInv, UpdInv
  <2>2. Len(vers_list(c)) \in Nat
    BY Zenon, <1>2, InUseFacts DEF TypeInv, UpdInv
  <2> HIDE DEF ks
  <2> QED BY <2>1, <2>2
<1>5. idx \in at /\ \A j \in at : idx <= j
  <2> HIDE DEF at
  <2> QED BY Zenon, <1>3, <1>4, Least
<1>6. job'[c].key = k /\ job'[c].idx = idx /\ job'[c].orig_val = db[ks[idx]]
  BY Zenon, <1>3 DEF Typed, TypeInv, UpdInv
<1> HIDE DEF idx, new
<1>7. ASSUME NEW i \in 1..(idx - 1) PROVE db[ks[i]] = NULL
  <2> HIDE DEF ks
  <2>1. idx \in 1..Len(vers_list(c))
    BY Zenon, <1>4, <1>5
  <2>2. i \in 1..Len(vers_list(c)) /\ ~(idx <= i)
    BY <1>4, <2>1
  <2> QED BY Zenon, <1>4, <1>5, <2>2
<1>8. all_potential_keys(c, job[c].key)' = ks
  BY <1>1, <1>6 DEF all_potential_keys, vers_list, Here
<1> HIDE DEF ks
<1> QED BY Zenon, <1>1, <1>6, <1>7, <1>8 DEF ReadStill, orig_name

\* What it has read stays, or its WATCH is gone: steps of the others.
LEMMA ReadStays ==
    ASSUME TypeInv, OwnNames, NEW c \in Client, Rest(c), NEW d \in Client \ {c}, ReadStill(d),
           \A x \in Key : db'[x] # db[x] => x \notin watched'[d]
    PROVE  ReadStill(d)'
<1> DEFINE k == job[d].key
<1> SUFFICES ASSUME pc'[d] = "g_exec", (WatchedKeys(d, job[d].key) \subseteq watched[d])'
             PROVE  ReadStill(d)'
  BY Zenon DEF ReadStill
<1>1. /\ pc'[d] = pc[d] /\ job'[d] = job[d] /\ ns_versions_dict'[d] = ns_versions_dict[d]
      /\ watched'[d] \subseteq watched[d]
  BY Zenon DEF Rest
<1>2. /\ InUse(d) /\ k \in Suffix /\ job[d].idx \in 1..Len(vers_list(d))
      /\ Len(vers_list(d)) \in Nat
  BY Zenon, <1>1, AtExec, InUseFacts DEF TypeInv, UpdInv
<1>3. vers_list(d)' = vers_list(d) /\ Here(d)' = Here(d)
  BY Zenon, <1>1 DEF vers_list, Here
<1>4. WatchedKeys(d, k)' = WatchedKeys(d, k) /\ all_potential_keys(d, k)' = all_potential_keys(d, k)
  BY Zenon, <1>1, <1>3 DEF WatchedKeys, all_potential_keys
<1>5. Elements(all_potential_keys(d, k)) \subseteq watched'[d]
  BY Zenon, <1>1, <1>2, <1>4, WatchesAll
<1>6. ASSUME NEW i \in 1..Len(vers_list(d))
      PROVE  db'[all_potential_keys(d, k)[i]] = db[all_potential_keys(d, k)[i]]
  <2>1. i \in DOMAIN all_potential_keys(d, k) /\ all_potential_keys(d, k)[i] \in Key
    BY Zenon, <1>2, KeyFacts DEF TypeInv, UpdInv
  <2>2. all_potential_keys(d, k)[i] \in watched'[d]
    BY Zenon, <1>5, <2>1 DEF Elements
  <2> QED BY Zenon, <2>1, <2>2
<1>7. /\ db[all_potential_keys(d, k)[job[d].idx]] = job[d].orig_val
      /\ \A i \in 1..(job[d].idx - 1) : db[all_potential_keys(d, k)[i]] = NULL
  <2>1. WatchedKeys(d, k) \subseteq watched[d]
    BY Zenon, <1>1, <1>4
  <2> QED BY Zenon, <1>1, <2>1 DEF ReadStill, orig_name
<1>8. \A i \in 1..(job[d].idx - 1) : i \in 1..Len(vers_list(d))
  BY Zenon, <1>2, Before
<1> QED BY Zenon, <1>1, <1>2, <1>4, <1>6, <1>7, <1>8 DEF ReadStill, orig_name

\* Nothing is read at the beginning.
LEMMA CommitInvInit == LurInit => CommitInv
<1> SUFFICES ASSUME LurInit PROVE CommitInv
  BY Zenon
<1>1. OwnNames
  BY DEF LurInit, VersionsInit, NoLists, OwnNames, OwnEntries
<1>2. \A c \in Client : ReadStill(c)
  BY Zenon DEF LurInit, VersionsInit, ReadStill
<1> QED BY Zenon, <1>1, <1>2, TypeInvInit DEF CommitInv

\* What a get has read stays, whatever the others do, or its WATCH is gone.
LEMMA CommitInvStep ==
    ASSUME NoRenames, CommitInv, [LurNext]_lurVars
    PROVE  CommitInv'
<1> USE DEF CommitInv
<1>1. CASE UNCHANGED lurVars
  <2>1. UNCHANGED <<UPDATE_VERSIONS, ns_versions_dict, pc, job, watched, db>>
    BY Zenon, <1>1 DEF lurVars, versionVars, dataVars, listVars, localVars
  <2>2. OwnNames'
    BY Zenon, <2>1 DEF OwnNames
  <2>3. ASSUME NEW c \in Client PROVE ReadStill(c)'
    <3>1. vers_list(c)' = vers_list(c) /\ Here(c)' = Here(c)
      BY Zenon, <2>1 DEF vers_list, Here
    <3>2. \A k : all_potential_keys(c, k)' = all_potential_keys(c, k)
                 /\ WatchedKeys(c, k)' = WatchedKeys(c, k)
      BY Zenon, <3>1 DEF all_potential_keys, WatchedKeys
    <3> QED BY Zenon, <2>1, <3>2 DEF ReadStill, orig_name
  <2> QED BY Zenon, <2>2, <2>3, TypeInvStep
<1>2. ASSUME NEW c \in Client, VersionStep(c) \/ UpdateAll(c) \/ stop(c) \/ Continue(c) \/ Call(c)
      PROVE  CommitInv'
  <2>1. TypeInv' /\ Rest(c)
    BY Zenon, <1>2, LurStepTypes
  <2>2. OwnNames'
    BY Zenon, <1>2, OwnNamesKept
  <2>3. ReadStill(c)'
    <3>1. CASE get_read(c)
      BY Zenon, <3>1, ReadNow
    <3>2. CASE ~get_read(c)
      BY Zenon, <1>2, <3>2, CommitSteps DEF ReadStill
    <3> QED BY Zenon, <3>1, <3>2
  <2>4. ASSUME NEW d \in Client \ {c} PROVE ReadStill(d)'
    <3>1. \A x \in Key : db'[x] # db[x] => x \notin watched'[d]
      BY Zenon, <1>2, DataServed, VersionStepFacts DEF Served
    <3> QED BY Zenon, <2>1, <3>1, ReadStays
  <2> QED BY Zenon, <2>1, <2>2, <2>3, <2>4
<1> QED BY Zenon, <1>1, <1>2 DEF LurNext

\* A get that is about to write knows what is stored, as long as its WATCH holds.
THEOREM CommitInvHolds ==
    ASSUME NoRenames
    PROVE  LurSpec => []CommitInv
<1>1. CommitInv /\ [LurNext]_lurVars => CommitInv'
  BY Zenon, CommitInvStep
<1> QED BY <1>1, CommitInvInit, PTL DEF LurSpec

\* "abort if any version of key 'name' changes", for any number of clients that
\* read, write, connect, update and crash at the same time: without renames, a
\* get writes the new key only while the value it has updated is still stored
\* and nothing has been stored under the new key.
THEOREM CommitFreshTheorem ==
    ASSUME NoRenames
    PROVE  LurSpec => CommitFresh
<1> DEFINE A == \A c \in Client :
                  pc[c] = "g_exec" /\ pc'[c] = "ready" /\ db' # db
                  => db[orig_name(c)] = job[c].orig_val /\ db[CurrKey(c, job[c].key)] = NULL
<1>1. CommitInv /\ [LurNext]_lurVars => [A]_lurVars
  <2> SUFFICES ASSUME CommitInv, LurNext, NEW c \in Client, pc[c] = "g_exec", pc'[c] = "ready", db' # db
               PROVE  db[orig_name(c)] = job[c].orig_val /\ db[CurrKey(c, job[c].key)] = NULL
    BY Zenon
  <2> USE DEF CommitInv
  <2>1. PICK d \in Client : VersionStep(d) \/ UpdateAll(d) \/ stop(d) \/ Continue(d) \/ Call(d)
    BY Zenon DEF LurNext
  <2>2. d = c
    <3>1. Rest(d)
      BY Zenon, <2>1, LurStepTypes
    <3> QED BY Zenon, <3>1 DEF Rest
  <2>3. get_exec(c)
    BY Zenon, <2>1, <2>2, CommitSteps
  <2>4. WatchedKeys(c, job[c].key) \subseteq watched[c]
    BY Zenon, <2>3 DEF get_exec, WatchHolds, Raise
  <2>5. /\ db[orig_name(c)] = job[c].orig_val
        /\ \A i \in 1..(job[c].idx - 1) : db[all_potential_keys(c, job[c].key)[i]] = NULL
    BY Zenon, <2>4 DEF ReadStill
  <2>6. job[c].idx \in 2..Len(vers_list(c)) /\ Len(vers_list(c)) \in Nat
    BY Zenon, AtExec, InUseFacts DEF TypeInv, ClientTyped, UpdInv
  <2>7. 1 \in 1..(job[c].idx - 1)
    BY Zenon, <2>6, Beyond
  <2> QED BY Zenon, <2>5, <2>7 DEF CurrKey
<1> QED BY <1>1, CommitInvHolds, PTL DEF LurSpec, CommitFresh

-----------------------------------------------------------------------------
(* Who updates *)

\* How a client comes to connect and to update.
LEMMA Entering ==
    ASSUME TypeInv, NEW c \in Client, Step(c)
    PROVE  /\ pc'[c] \in Updating =>
                pc[c] \in Updating \/ (pc[c] = "ready" /\ c \in Updaters /\ MayUpdate(c))
           /\ pc'[c] \in Connecting => pc[c] \in Connecting \/ (pc[c] = "off" /\ MayStart(c))
           /\ pc[c] = "off" => MayStart(c) /\ pc'[c] \in Connecting
<1>1. \A x : Goto(c, x) => pc'[c] = x
  BY Zenon, OwnState DEF TypeInv, UpdInv
<1>2. CASE VersionStep(c) \/ UpdateAll(c) \/ stop(c)
  <2>1. ConnectStep(c) \/ UpdateStep(c) \/ (Reset(c) /\ pc[c] # "off")
    BY Zenon, <1>2 DEF VersionStep, UpdateAll, do_upd_all_now, UpdateStep, stop, exit
  <2>2. CASE Reset(c) /\ pc[c] # "off"
    BY Zenon, <1>1, <2>2 DEF Reset, Updating, Connecting
  <2>3. CASE ConnectStep(c)
    BY Zenon, <1>1, <2>2, <2>3 DEF ConnectStep, connect, connect_read, connect_exec, load_upd_tuples,
       connect_setname, Updating, Connecting
  <2>4. CASE UpdateStep(c)
    BY Zenon, <1>1, <2>4 DEF UpdateStep, Leave, do_upd, upd_hget, upd_watch, upd_read, upd_exec,
       rename_exists, rename_watch, rename_read, rename_exec, upd_hset, upd_setname,
       kill_connected_clients_at, Updating, Connecting
  <2> QED BY Zenon, <2>1, <2>2, <2>3, <2>4
<1>3. CASE Continue(c) \/ Call(c)
  <2>1. pc[c] \in Serving /\ pc'[c] \in Serving
    BY Zenon, <1>1, <1>3, DataServed DEF Served
  <2> QED BY Zenon, <2>1 DEF Serving, Getting, Updating, Connecting
<1> QED BY Zenon, <1>2, <1>3 DEF Step

\* So they stay apart.
LEMMA ApartKept ==
    ASSUME TypeInv, \A c \in Client : Apart(c), NEW c \in Client, Step(c)
    PROVE  \A d \in Client : Apart(d)'
<1>1. Rest(c)
  BY Zenon, LurStepTypes DEF Step
<1>2. \A d \in Client \ {c} : pc'[d] = pc[d]
  BY Zenon, <1>1 DEF Rest
<1>3. Apart(c)'
  BY Zenon, <1>2, Entering DEF Apart, MayUpdate, MayStart, Others
<1>4. ASSUME NEW d \in Client \ {c} PROVE Apart(d)'
  <2>1. ~Live /\ pc[d] \in Updating => FALSE
    <3> SUFFICES ASSUME ~Live, pc[d] \in Updating PROVE FALSE
      BY Zenon
    <3>1. pc[c] = "off"
      BY Zenon DEF Apart, Others
    <3> QED BY Zenon, <3>1, Entering DEF MayStart, Others
  <2>2. ~Live /\ pc[d] \in Connecting => pc'[c] \notin Connecting \cup Updating
    <3> SUFFICES ASSUME ~Live, pc[d] \in Connecting PROVE pc'[c] \notin Connecting \cup Updating
      BY Zenon
    <3>1. pc[c] \notin Connecting \cup Updating /\ pc[d] # "off"
      BY Zenon DEF Apart, Others, Connecting
    <3> QED BY Zenon, <3>1, Entering DEF MayStart, MayUpdate, Others
  <2> QED BY Zenon, <1>2, <2>1, <2>2 DEF Apart, Others
<1> QED BY Zenon, <1>3, <1>4

\* One client updates at a time.
LEMMA OneUpdates ==
    ASSUME OneUpdater \/ ~Live, \A c \in Client : Apart(c),
           NEW c \in Client, NEW d \in Client, pc[c] \in Updating, pc[d] \in Updating
    PROVE  c = d
<1>1. CASE OneUpdater
  BY Zenon, <1>1 DEF OneUpdater, Apart
<1>2. CASE ~Live
  BY Zenon, <1>2 DEF Apart, Others, Updating
<1> QED BY Zenon, <1>1, <1>2

-----------------------------------------------------------------------------
(* What the others hear of it *)

\* A key is neither the name of a list nor that of the files.
LEMMA NoKeys == DslStrings \notin Key /\ \A n : List(n) \notin Key
BY DEF DslStrings, List, Key

\* The transactions of append_new_version change their list, or are lost.
LEMMA PushOrLose ==
    ASSUME TypeInv, NEW c \in Client
    PROVE  /\ connect_exec(c) => Pushed(c) \/ UNCHANGED <<UPDATE_VERSIONS, watched>>
           /\ upd_exec(c) => Pushed(c) \/ (Leave(c) /\ UNCHANGED UPDATE_VERSIONS)
<1>1. ASSUME connect_exec(c) PROVE Pushed(c) \/ UNCHANGED <<UPDATE_VERSIONS, watched>>
  <2>1. job[c] \in Entry /\ job[c].ns \in NS
    BY Zenon, <1>1 DEF connect_exec, JobTyped, Entry, TypeInv, UpdInv
  <2> QED BY Zenon, <1>1, <2>1 DEF connect_exec, Pushed, WatchHolds
<1>2. ASSUME upd_exec(c) PROVE Pushed(c) \/ (Leave(c) /\ UNCHANGED UPDATE_VERSIONS)
  <2> DEFINE n == job[c].file.ns
             e == [ver |-> job[c].file.to, ns |-> n]
  <2>1. n \in NS /\ e \in Entry /\ e.ns = n
    BY Zenon, <1>2, JobOf DEF upd_exec, Updating, TypeInv, UpdInv
  <2> QED BY Zenon, <1>2, <2>1 DEF upd_exec, Pushed, WatchHolds
<1> QED BY Zenon, <1>1, <1>2

\* A list grows only in the transactions of append_new_version, and the files
\* change only in that of do_upd.
LEMMA StepHeard ==
    ASSUME NoRenames, TypeInv, NEW c \in Client, Step(c)
    PROVE  Heard(c)
<1>1. ASSUME UNCHANGED UPDATE_VERSIONS, \A d \in Client \ {c} : watched[d] \ Key \subseteq watched'[d]
      PROVE  Heard(c)
  BY Zenon, <1>1, NoKeys DEF Heard
<1>2. ASSUME UNCHANGED watched \/ (\E S : Watch(c, S)) \/ Unwatch(c)
      PROVE  \A d \in Client \ {c} : watched[d] \ Key \subseteq watched'[d]
  BY Zenon, <1>2 DEF Typed, Watch, Unwatch, TypeInv, UpdInv
<1>3. ASSUME Pushed(c) PROVE Heard(c)
  <2>0. PICK n \in NS, e \in Entry :
          /\ e.ns = n
          /\ \/ pc[c] = "c_exec" /\ e = job[c]
             \/ pc[c] = "u_exec" /\ e = [ver |-> job[c].file.to, ns |-> job[c].file.ns]
          /\ List(n) \in watched[c] /\ Touch({List(n)})
          /\ UPDATE_VERSIONS' = [UPDATE_VERSIONS EXCEPT ![n] = <<e>> \o @]
    BY Zenon, <1>3 DEF Pushed
  <2>1. Pushes(c, n)
    BY <2>0 DEF Pushes
  <2> DEFINE l == <<e>> \o UPDATE_VERSIONS[n]
  <2>2. l # << >>
    <3>1. UPDATE_VERSIONS[n] \in Seq(Entry)
      BY Zenon DEF Typed, TypeInv, UpdInv
    <3> QED BY Zenon, <3>1, InFront
  <2> HIDE DEF l
  <2>3. \A m \in NS : UPDATE_VERSIONS'[m] = IF m = n THEN l ELSE UPDATE_VERSIONS[m]
    BY Zenon, <2>0 DEF l, Typed, TypeInv, UpdInv
  <2>4. \A d \in Client \ {c} : watched'[d] = watched[d] \ {List(n)}
    BY Zenon, <2>0 DEF Touch
  <2> QED BY Zenon, <2>1, <2>2, <2>3, <2>4, KeysDiffer DEF Heard
<1>4. CASE Continue(c) \/ Call(c)
  BY Zenon, <1>1, <1>4, DataServed DEF Served, listVars
<1>5. CASE VersionStep(c) \/ UpdateAll(c) \/ stop(c)
  <2>1. ConnectStep(c) \/ UpdateStep(c) \/ (Reset(c) /\ UNCHANGED listVars)
    BY Zenon, <1>5, VersionStepFacts
  <2>2. (UNCHANGED UPDATE_VERSIONS \/ Pushed(c)) /\ pc[c] \notin Renaming
    BY Zenon, <2>1, ListSteps
  <2>3. CASE Reset(c)
    BY Zenon, <1>1, <1>2, <1>3, <2>2, <2>3 DEF Reset
  <2>4. CASE ConnectStep(c)
    <3>1. CASE connect_exec(c)
      BY Zenon, <1>1, <1>2, <1>3, <3>1, PushOrLose
    <3>2. CASE ~connect_exec(c)
      BY Zenon, <1>1, <1>2, <1>3, <2>2, <2>3, <2>4, <3>2 DEF ConnectStep, connect, connect_read,
         load_upd_tuples, connect_setname
    <3> QED BY Zenon, <3>1, <3>2
  <2>5. CASE upd_hset(c)
    <3>1. pc[c] = "u_hset" /\ UNCHANGED UPDATE_VERSIONS
      BY Zenon, <2>5 DEF upd_hset
    <3>2. Unwatch(c) \/ Touch({DslStrings}) \/ Touch({})
      BY Zenon, <2>5 DEF upd_hset, Leave
    <3>3. \A d \in Client \ {c} : watched[d] \ {DslStrings} \subseteq watched'[d]
      BY Zenon, <3>2 DEF Unwatch, Touch, Typed, TypeInv, UpdInv
    <3> QED BY Zenon, <3>1, <3>3, KeysDiffer DEF Heard
  <2>6. CASE UpdateStep(c) /\ ~upd_hset(c)
    <3>1. UNCHANGED watched \/ (\E S : Watch(c, S)) \/ Unwatch(c) \/ Pushed(c)
      <4>1. CASE upd_exec(c)
        BY Zenon, <4>1, PushOrLose DEF Leave
      <4>2. CASE ~upd_exec(c)
        BY Zenon, <2>2, <2>6, <4>2 DEF UpdateStep, Leave, do_upd, upd_hget, upd_watch, upd_read,
           rename_exists, rename_watch, rename_read, rename_exec, upd_setname,
           kill_connected_clients_at, Renaming
      <4> QED BY Zenon, <4>1, <4>2
    <3> QED BY Zenon, <1>1, <1>2, <1>3, <2>2, <3>1
  <2> QED BY Zenon, <2>1, <2>3, <2>4, <2>5, <2>6
<1> QED BY Zenon, <1>4, <1>5 DEF Step

-----------------------------------------------------------------------------
(* The version a program is written for is the one it works at *)

\* A client that has a list for a namespace works there.
LEMMA WorksAt ==
    ASSUME TypeInv, NEW c \in Client, OneList(c), NEW n \in NS, ns_versions_dict[c][n] # << >>
    PROVE  /\ InUse(c) /\ Here(c) = n /\ vers_list(c) = ns_versions_dict[c][n]
           /\ Top(c) = ns_versions_dict[c][n][1].ver
<1>1. InUse(c)
  BY Zenon DEF InUse
<1>2. Here(c) \in NS /\ ns_versions_dict[c][Here(c)] # << >>
  BY Zenon, <1>1, InUseFacts DEF TypeInv, UpdInv, vers_list
<1> QED BY Zenon, <1>1, <1>2 DEF OneList, vers_list, Top

\* The steps of another client: its own state is as it was, and its WATCH is
\* lost only where somebody else may win.
LEMMA OthersPrograms ==
    ASSUME NoRenames, OneUpdater \/ ~Live, TypeInv, AllPrograms, NEW c \in Client, Rest(c), Heard(c),
           NEW d \in Client \ {c}, killed[d] => killed'[d]
    PROVE  ProgramInv(d)'
<1>1. /\ pc'[d] = pc[d] /\ job'[d] = job[d] /\ program'[d] = program[d]
      /\ ns_versions_dict'[d] = ns_versions_dict[d] /\ name'[d] = name[d]
      /\ watched'[d] \subseteq watched[d]
  BY Zenon DEF Rest
<1>2. Here(d)' = Here(d) /\ vers_list(d)' = vers_list(d) /\ Top(d)' = Top(d) /\ NameOf(d)' = NameOf(d)
  BY Zenon, <1>1 DEF Here, vers_list, Top, NameOf
<1>3. OneList(d) /\ ListReady(d) /\ Undisturbed(d) /\ AtTop(d) /\ JobTyped(d) /\ ClientTyped(d)
  BY Zenon DEF AllPrograms, ProgramInv, TypeInv, UpdInv
<1>4. OneList(d)'
  BY Zenon, <1>1, <1>3 DEF OneList
<1>5. AtTop(d)'
  BY Zenon, <1>1, <1>2, <1>3 DEF AtTop, Alive
<1>6. pc[d] \in {"c_read", "c_exec"} => job[d].ns \in NS
  BY Zenon, <1>3 DEF JobTyped, Entry
<1>7. pc[d] \notin {"off", "c_read", "c_exec"} => Here(d) \in NS
  BY Zenon, <1>3, InUseFacts DEF ClientTyped, TypeInv, UpdInv
<1>8. ListReady(d)'
  <2>1. ASSUME pc[d] \in {"c_read", "c_exec"}, List(job[d].ns) \notin watched'[d]
        PROVE  UPDATE_VERSIONS'[job[d].ns] # << >>
    BY Zenon, <1>3, <1>6, <2>1 DEF ListReady, Heard
  <2>2. ASSUME pc[d] = "c_exec", List(job[d].ns) \in watched'[d]
        PROVE  UPDATE_VERSIONS'[job[d].ns] = << >>
    <3>1. UPDATE_VERSIONS[job[d].ns] = << >>
      BY Zenon, <1>1, <1>3, <2>2 DEF ListReady
    <3>2. UPDATE_VERSIONS'[job[d].ns] = UPDATE_VERSIONS[job[d].ns]
      BY Zenon, <1>6, <2>2 DEF Heard
    <3> QED BY Zenon, <3>1, <3>2
  <2>3. pc[d] \notin {"off", "c_read", "c_exec"} => UPDATE_VERSIONS'[Here(d)] # << >>
    BY Zenon, <1>3, <1>7 DEF ListReady, Heard
  <2> QED BY Zenon, <1>1, <1>2, <2>1, <2>2, <2>3 DEF ListReady
<1>9. Undisturbed(d)'
  <2>1. ASSUME pc[d] \in {"u_read", "u_exec"}, List(job[d].file.ns) \notin watched'[d] PROVE FALSE
    <3> DEFINE n == job[d].file.ns
    <3>1. n \in NS /\ pc[d] \in Updating
      BY Zenon, <2>1, JobOf DEF Updating, TypeInv
    <3>2. Here(d) = n /\ UPDATE_VERSIONS[n] # << >>
      BY Zenon, <1>3, <2>1, <3>1, WorksAt DEF OneList, ListReady
    <3>3. Pushes(c, n)
      BY Zenon, <1>3, <2>1, <3>1 DEF Undisturbed, Heard
    <3>4. CASE pc[c] = "c_exec"
      BY Zenon, <3>2, <3>3, <3>4 DEF Pushes, AllPrograms, ProgramInv, ListReady
    <3>5. CASE pc[c] = "u_exec"
      BY Zenon, <3>1, <3>5, OneUpdates DEF AllPrograms, Updating
    <3> QED BY Zenon, <3>3, <3>4, <3>5 DEF Pushes
  <2>2. ASSUME pc[d] \in {"u_hget", "u_watch", "u_read", "u_exec", "u_hset"}, DslStrings \notin watched'[d]
        PROVE  FALSE
    <3>1. pc[c] = "u_hset"
      BY Zenon, <1>3, <2>2 DEF Undisturbed, Heard
    <3> QED BY Zenon, <2>2, <3>1, OneUpdates DEF AllPrograms, Updating
  <2> QED BY Zenon, <1>1, <2>1, <2>2 DEF Undisturbed
<1> QED BY Zenon, <1>4, <1>5, <1>8, <1>9 DEF ProgramInv

\* The same after a step.
LEMMA WorksAtNext ==
    ASSUME NEW c \in Client, OneList(c)', NEW n \in NS, ns_versions_dict'[c][n] # << >>
    PROVE  /\ Here(c)' = n /\ vers_list(c)' = ns_versions_dict'[c][n]
           /\ Top(c)' = ns_versions_dict'[c][n][1].ver
<1> DEFINE h == CHOOSE m \in NS : ns_versions_dict'[c][m] # << >>
<1>1. h \in NS /\ ns_versions_dict'[c][h] # << >>
  BY Zenon
<1>2. Here(c)' = h
  BY Zenon DEF Here
<1> HIDE DEF h
<1>3. h = n
  BY Zenon, <1>1 DEF OneList
<1> QED BY Zenon, <1>2, <1>3 DEF vers_list, Top

\* A client that has stopped.
LEMMA ResetPrograms ==
    ASSUME TypeInv, NEW c \in Client, Reset(c)
    PROVE  ProgramInv(c)'
<1>1. pc'[c] = "off" /\ \A n \in NS : ns_versions_dict'[c][n] = << >>
  BY Zenon DEF Reset, Goto, TypeInv, UpdInv, Typed, NoLists
<1> QED BY Zenon, <1>1 DEF ProgramInv, OneList, ListReady, Undisturbed, AtTop, Serving, Getting, Updating

\* __init__: the program's version is the newest of the list it takes over, or
\* of the one it makes.
LEMMA ConnectPrograms ==
    ASSUME TypeInv, NEW c \in Client, ProgramInv(c), Heard(c), ConnectStep(c)
    PROVE  ProgramInv(c)'
<1>1. OneList(c) /\ ListReady(c) /\ Undisturbed(c) /\ AtTop(c) /\ JobTyped(c) /\ ClientTyped(c)
  BY Zenon DEF ProgramInv, TypeInv, UpdInv
<1>2. \A x : Goto(c, x) => pc'[c] = x
  BY Zenon, OwnState DEF TypeInv, UpdInv
<1>3. ASSUME UNCHANGED ns_versions_dict
      PROVE  Here(c)' = Here(c) /\ vers_list(c)' = vers_list(c) /\ Top(c)' = Top(c)
  BY Zenon, <1>3 DEF Here, vers_list, Top
<1>4. ASSUME NEW p \in Programs, connect(c, p) PROVE ProgramInv(c)'
  <2>1. /\ pc[c] = "off" /\ pc'[c] = "c_read" /\ job'[c] = p /\ program'[c] = p.ver
        /\ List(p.ns) \in watched'[c] /\ ns_versions_dict' = ns_versions_dict
    BY Zenon, <1>2, <1>4 DEF connect, Typed, VersionTyped, Watch, localVars, TypeInv, UpdInv
  <2>2. OneList(c)'
    BY Zenon, <1>1, <2>1 DEF OneList, Updating
  <2>3. ListReady(c)' /\ Undisturbed(c)' /\ AtTop(c)'
    BY Zenon, <2>1 DEF ListReady, Undisturbed, AtTop, Serving, Getting
  <2> QED BY Zenon, <2>2, <2>3 DEF ProgramInv
<1>5. CASE connect_read(c)
  <2> DEFINE p == job[c]
             l == UPDATE_VERSIONS[p.ns]
  <2>1. p \in Entry /\ p.ns \in NS /\ pc[c] = "c_read" /\ program[c] = p.ver
    BY Zenon, <1>1, <1>5 DEF connect_read, JobTyped, Entry, AtTop
  <2>2. CASE Reset(c)
    BY Zenon, <2>2, ResetPrograms
  <2>3. ASSUME NEW x \in {"c_load", "c_exec"}, Goto(c, x), NEW m, m # << >>, m[1].ver = p.ver,
               ns_versions_dict' = [ns_versions_dict EXCEPT ![c][p.ns] = m],
               UNCHANGED <<job, program, watched, UPDATE_VERSIONS>>,
               x = "c_load" => l # << >>, x = "c_exec" => l = << >>
        PROVE  ProgramInv(c)'
    <3>1. pc'[c] = x /\ \A n \in NS : ns_versions_dict'[c][n] = IF n = p.ns THEN m ELSE << >>
      <4>1. pc'[c] = x /\ \A n \in NS : ns_versions_dict[c][n] = << >>
        BY Zenon, <1>1, <1>2, <2>1, <2>3 DEF OneList
      <4>2. \A n \in NS : ns_versions_dict'[c][n] = IF n = p.ns THEN m ELSE ns_versions_dict[c][n]
        BY Zenon, <2>1, <2>3 DEF Typed, TypeInv, UpdInv
      <4> QED BY Zenon, <4>1, <4>2
    <3>2. OneList(c)'
      BY Zenon, <2>1, <2>3, <3>1 DEF OneList, Updating
    <3>3. Here(c)' = p.ns /\ Top(c)' = p.ver
      BY <2>1, <2>3, <3>1, <3>2, WorksAtNext
    <3>4. ListReady(c)'
      BY Zenon, <1>1, <2>1, <2>3, <3>1, <3>3 DEF ListReady
    <3>5. Undisturbed(c)' /\ AtTop(c)'
      BY Zenon, <2>1, <2>3, <3>1, <3>3 DEF Undisturbed, AtTop, Serving, Getting
    <3> QED BY Zenon, <3>2, <3>4, <3>5 DEF ProgramInv
  <2>4. CASE /\ l # << >> /\ l[1].ver = p.ver /\ Goto(c, "c_load")
             /\ ns_versions_dict' = [ns_versions_dict EXCEPT ![c][p.ns] = l]
             /\ UNCHANGED <<job, program, watched>>
    BY Zenon, <1>5, <2>3, <2>4 DEF connect_read, listVars
  <2>5. CASE /\ l = << >> /\ Goto(c, "c_exec")
             /\ ns_versions_dict' = [ns_versions_dict EXCEPT ![c][p.ns] = <<p>>]
             /\ UNCHANGED <<job, program, watched>>
    <3>1. <<p>> # << >> /\ <<p>>[1].ver = p.ver
      BY Zenon
    <3>2. UNCHANGED UPDATE_VERSIONS
      BY Zenon, <1>5 DEF connect_read, listVars
    <3> HIDE DEF p, l
    <3> QED BY Zenon, <2>3, <2>5, <3>1, <3>2
  <2> QED BY Zenon, <1>5, <2>2, <2>4, <2>5 DEF connect_read
<1>6. CASE connect_exec(c)
  <2>1. /\ pc[c] = "c_exec" /\ pc'[c] = "c_load" /\ program[c] = Top(c)
        /\ UNCHANGED <<job, program, ns_versions_dict>>
    BY Zenon, <1>1, <1>2, <1>6 DEF connect_exec, AtTop, localVars
  <2>2. job[c] \in Entry /\ job[c].ns \in NS /\ Here(c) = job[c].ns
    BY Zenon, <1>1, <2>1, WorksAt DEF JobTyped, Entry, OneList
  <2>3. UPDATE_VERSIONS'[job[c].ns] # << >>
    <3>1. CASE List(job[c].ns) \notin watched[c]
      BY Zenon, <1>1, <2>1, <2>2, <3>1 DEF ListReady, Heard
    <3>2. CASE List(job[c].ns) \in watched[c]
      <4>1. UPDATE_VERSIONS' = [UPDATE_VERSIONS EXCEPT ![job[c].ns] = <<job[c]>> \o @]
        BY Zenon, <1>6, <3>2 DEF connect_exec, WatchHolds
      <4>2. UPDATE_VERSIONS'[job[c].ns] = <<job[c]>> \o UPDATE_VERSIONS[job[c].ns]
            /\ UPDATE_VERSIONS[job[c].ns] \in Seq(Entry)
        BY Zenon, <2>2, <4>1 DEF Typed, TypeInv, UpdInv
      <4>3. PICK l \in Seq(Entry), e \in Entry : l = UPDATE_VERSIONS[job[c].ns] /\ e = job[c]
        BY Zenon, <2>2, <4>2
      <4>4. <<e>> \o l # << >>
        BY Zenon, InFront
      <4> QED BY Zenon, <4>2, <4>3, <4>4
    <3> QED BY Zenon, <3>1, <3>2
  <2>4. OneList(c)'
    BY Zenon, <1>1, <2>1 DEF OneList, Updating
  <2>5. ListReady(c)' /\ Undisturbed(c)' /\ AtTop(c)'
    BY Zenon, <1>3, <2>1, <2>2, <2>3 DEF ListReady, Undisturbed, AtTop, Serving, Getting
  <2> QED BY Zenon, <2>4, <2>5 DEF ProgramInv
<1>7. CASE load_upd_tuples(c) \/ connect_setname(c)
  <2>1. /\ pc[c] \in {"c_load", "c_setname"} /\ pc'[c] \in {"c_setname", "ready"}
        /\ UNCHANGED <<UPDATE_VERSIONS, program, ns_versions_dict>>
    BY Zenon, <1>2, <1>7 DEF load_upd_tuples, connect_setname, listVars
  <2>2. OneList(c)'
    BY Zenon, <1>1, <2>1 DEF OneList, Updating
  <2>3. ListReady(c)' /\ Undisturbed(c)' /\ AtTop(c)'
    BY Zenon, <1>1, <1>3, <2>1 DEF ListReady, Undisturbed, AtTop, Serving, Getting
  <2> QED BY Zenon, <2>2, <2>3 DEF ProgramInv
<1> QED BY Zenon, <1>4, <1>5, <1>6, <1>7 DEF ConnectStep

\* do_upd: the list, the program and the update file go together at every step,
\* as no transaction is lost.
LEMMA UpdatePrograms ==
    ASSUME NoRenames, TypeInv, NEW c \in Client, ProgramInv(c), Heard(c), UpdateStep(c)
    PROVE  ProgramInv(c)'
<1> DEFINE u == job[c].file
           n == u.ns
<1>1. OneList(c) /\ ListReady(c) /\ Undisturbed(c) /\ AtTop(c) /\ JobTyped(c) /\ ClientTyped(c)
  BY Zenon DEF ProgramInv, TypeInv, UpdInv
<1>2. \A x : Goto(c, x) => pc'[c] = x
  BY Zenon, OwnState DEF TypeInv, UpdInv
<1>3. ASSUME UNCHANGED ns_versions_dict
      PROVE  Here(c)' = Here(c) /\ Top(c)' = Top(c) /\ NameOf(c)' = NameOf(c)
  BY Zenon, <1>3 DEF Here, vers_list, Top, NameOf
<1>4. pc[c] \in Updating =>
        u \in Files /\ n \in NS /\ u.oldns = n /\ ns_versions_dict[c][n] # << >> /\ Here(c) = n
  <2>1. pc[c] \in Updating => u \in Files /\ n \in NS /\ ns_versions_dict[c][n] # << >>
    BY Zenon, <1>1, JobOf DEF OneList, TypeInv, UpdInv
  <2> QED BY Zenon, <1>1, <2>1, WorksAt DEF NoRenames
<1>5. Leave(c) => pc'[c] = "ready"
  BY Zenon, <1>2 DEF Leave
<1>6. pc[c] \in Updating \cup {"ready"} => UPDATE_VERSIONS[Here(c)] # << >> /\ Here(c) \in NS
  BY Zenon, <1>1, InUseFacts DEF ListReady, ClientTyped, Updating, TypeInv, UpdInv
<1>7. ASSUME UNCHANGED <<ns_versions_dict, program>>, pc'[c] = "ready", Alive(c)' => Alive(c),
             pc[c] \in Updating, Alive(c) => program[c] = Top(c)
      PROVE  ProgramInv(c)'
  <2>1. OneList(c)'
    BY Zenon, <1>1, <1>7 DEF OneList, Updating
  <2>2. ListReady(c)' /\ Undisturbed(c)' /\ AtTop(c)'
    BY Zenon, <1>3, <1>6, <1>7 DEF ListReady, Undisturbed, AtTop, Heard, Alive
  <2> QED BY Zenon, <2>1, <2>2 DEF ProgramInv
<1>8. ASSUME NEW f \in Files, do_upd(c, f) PROVE ProgramInv(c)'
  <2>1. /\ pc[c] = "ready" /\ pc'[c] = "u_hget" /\ job'[c] = [file |-> f, hset |-> FALSE]
        /\ DslStrings \in watched'[c] /\ UNCHANGED <<program, ns_versions_dict>> /\ Alive(c)
    BY Zenon, <1>2, <1>8 DEF do_upd, Typed, Watch, localVars, TypeInv, UpdInv
  <2>2. f.ns \in NS /\ f.oldns = f.ns /\ ns_versions_dict[c][f.ns] # << >>
        /\ ns_versions_dict[c][f.ns][1].ver = f.from
    BY Zenon, <1>8, LurAssumption DEF do_upd, NoRenames
  <2>3. Here(c) = f.ns /\ Top(c) = f.from /\ program[c] = Top(c)
    BY Zenon, <1>1, <2>1, <2>2, WorksAt DEF AtTop, Serving
  <2>4. job'[c].file = f
    <3>1. job'[c] = [file |-> f, hset |-> FALSE]
      BY Zenon, <2>1
    <3> QED BY <3>1
  <2>5. OneList(c)'
    BY Zenon, <1>1, <2>1, <2>2, <2>4 DEF OneList
  <2>6. ListReady(c)' /\ Undisturbed(c)' /\ AtTop(c)'
    BY Zenon, <1>3, <1>6, <2>1, <2>3, <2>4 DEF ListReady, Undisturbed, AtTop, Heard, Serving, Getting
  <2> QED BY Zenon, <2>5, <2>6 DEF ProgramInv
<1>9. CASE upd_hget(c)
  <2>1. pc[c] = "u_hget" /\ UNCHANGED <<program, ns_versions_dict, killed>>
        /\ program[c] = Top(c) /\ u.from = Top(c) /\ DslStrings \in watched[c] /\ pc[c] \in Updating
    BY Zenon, <1>1, <1>9 DEF upd_hget, localVars, AtTop, Undisturbed, Updating
  <2>2. CASE Leave(c)
    BY Zenon, <1>5, <1>7, <2>1, <2>2 DEF Alive
  <2>3. ASSUME ~Leave(c) PROVE ProgramInv(c)'
    <3>1. pc'[c] = "u_watch" /\ watched' = watched
      BY Zenon, <1>2, <1>4, <1>9, <2>1, <2>3 DEF upd_hget
    <3>2. PICK h : job' = [job EXCEPT ![c].hset = h]
      BY Zenon, <1>9, <2>3 DEF upd_hget
    <3>3. job'[c].file = u
      BY <1>1, <2>1, <3>2 DEF Typed, JobTyped
    <3>4. OneList(c)'
      BY Zenon, <1>1, <1>4, <2>1, <3>1, <3>3 DEF OneList
    <3>5. ListReady(c)' /\ Undisturbed(c)' /\ AtTop(c)'
      BY Zenon, <1>3, <1>6, <2>1, <3>1, <3>3 DEF ListReady, Undisturbed, AtTop, Heard, Serving, Getting
    <3> QED BY Zenon, <3>4, <3>5 DEF ProgramInv
  <2> QED BY Zenon, <2>2, <2>3
<1>10. CASE upd_watch(c)
  <2>1. /\ pc[c] = "u_watch" /\ pc'[c] = "u_read" /\ UNCHANGED <<job, program, ns_versions_dict>>
        /\ program[c] = Top(c) /\ u.from = Top(c) /\ pc[c] \in Updating
        /\ DslStrings \in watched'[c] /\ List(n) \in watched'[c]
    BY Zenon, <1>1, <1>2, <1>10 DEF upd_watch, localVars, AtTop, Undisturbed, Updating, Watch, Typed,
                             TypeInv, UpdInv
  <2>2. OneList(c)'
    BY Zenon, <1>1, <1>4, <2>1 DEF OneList
  <2>3. ListReady(c)' /\ Undisturbed(c)' /\ AtTop(c)'
    BY Zenon, <1>3, <1>6, <2>1 DEF ListReady, Undisturbed, AtTop, Heard, Serving, Getting
  <2> QED BY Zenon, <2>2, <2>3 DEF ProgramInv
<1>11. CASE rename_exists(c) \/ rename_watch(c) \/ rename_read(c) \/ rename_exec(c)
  BY Zenon, <1>11, ListSteps DEF rename_exists, rename_watch, rename_read, rename_exec, Renaming,
                                 UpdateStep
<1>12. CASE upd_read(c)
  <2> DEFINE l == UPDATE_VERSIONS[n]
             e == [ver |-> u.to, ns |-> n]
             m == <<e>> \o l
  <2>1. /\ pc[c] = "u_read" /\ UNCHANGED <<job, program, watched, UPDATE_VERSIONS>>
        /\ u.from = Top(c) /\ pc[c] \in Updating
        /\ DslStrings \in watched[c] /\ List(n) \in watched[c]
    BY Zenon, <1>1, <1>12 DEF upd_read, listVars, AtTop, Undisturbed, Updating
  <2>2. CASE pc'[c] = "u_hset" /\ UNCHANGED ns_versions_dict
    <3>1. OneList(c)'
      BY Zenon, <1>1, <1>4, <2>1, <2>2 DEF OneList
    <3>2. ListReady(c)' /\ Undisturbed(c)' /\ AtTop(c)'
      BY Zenon, <1>3, <1>6, <2>1, <2>2 DEF ListReady, Undisturbed, AtTop, Heard, Serving, Getting
    <3> QED BY Zenon, <3>1, <3>2 DEF ProgramInv
  <2>3. CASE pc'[c] = "u_exec" /\ ns_versions_dict' = [ns_versions_dict EXCEPT ![c][n] = m]
    <3>1. m # << >> /\ m[1] = e
      BY Zenon, <2>1, JobOf, InFront DEF TypeInv, UpdInv
    <3>2. n \in NS /\ Here(c) = n
      BY Zenon, <1>4, <2>1
    <3>3. \A x \in NS : ns_versions_dict'[c][x] = IF x = n THEN m ELSE ns_versions_dict[c][x]
      <4> HIDE DEF m
      <4> QED BY Zenon, <2>3, <3>2 DEF Typed, TypeInv, UpdInv
    <3> HIDE DEF m
    <3>4. \A x \in NS : ns_versions_dict[c][x] # << >> => x = n
      BY Zenon, <1>1, <1>4, <2>1 DEF OneList
    <3>5. OneList(c)'
      BY Zenon, <2>1, <2>3, <3>1, <3>2, <3>3, <3>4 DEF OneList
    <3>6. Here(c)' = n /\ Top(c)' = u.to
      <4>1. ns_versions_dict'[c][n] # << >> /\ ns_versions_dict'[c][n][1] = e
        BY Zenon, <3>1, <3>2, <3>3
      <4>2. Here(c)' = n /\ Top(c)' = ns_versions_dict'[c][n][1].ver
        BY Zenon, <3>2, <3>5, <4>1, WorksAtNext
      <4>3. e.ver = u.to
        BY Zenon
      <4> HIDE DEF e
      <4> QED BY Zenon, <4>1, <4>2, <4>3
    <3>7. ListReady(c)' /\ Undisturbed(c)' /\ AtTop(c)'
      BY Zenon, <1>6, <2>1, <2>3, <3>2, <3>6 DEF ListReady, Undisturbed, AtTop, Heard, Serving, Getting
    <3> QED BY Zenon, <3>5, <3>7 DEF ProgramInv
  <2> QED BY Zenon, <1>2, <1>12, <2>2, <2>3 DEF upd_read
<1>13. CASE upd_exec(c)
  <2>1. /\ pc[c] = "u_exec" /\ UNCHANGED <<program, ns_versions_dict>> /\ Top(c) = u.to
        /\ pc[c] \in Updating /\ DslStrings \in watched[c] /\ List(n) \in watched[c]
    BY Zenon, <1>1, <1>13 DEF upd_exec, localVars, AtTop, Undisturbed, Updating
  <2>2. pc'[c] = "u_hset" /\ UNCHANGED job /\ Touch({List(n)})
    BY Zenon, <1>2, <1>13, <2>1 DEF upd_exec, WatchHolds
  <2>3. DslStrings \in watched'[c]
    BY Zenon, <1>4, <2>1, <2>2, KeysDiffer DEF Touch
  <2>4. OneList(c)'
    BY Zenon, <1>1, <1>4, <2>1, <2>2 DEF OneList
  <2>5. ListReady(c)' /\ Undisturbed(c)' /\ AtTop(c)'
    BY Zenon, <1>3, <1>6, <2>1, <2>2, <2>3 DEF ListReady, Undisturbed, AtTop, Heard, Serving, Getting
  <2> QED BY Zenon, <2>4, <2>5 DEF ProgramInv
<1>14. CASE upd_hset(c)
  <2>1. /\ pc[c] = "u_hset" /\ UNCHANGED <<program, ns_versions_dict>> /\ Top(c) \in {u.to, u.from}
        /\ pc[c] \in Updating /\ DslStrings \in watched[c]
    BY Zenon, <1>1, <1>14 DEF upd_hset, AtTop, Undisturbed, Updating
  <2>2. pc'[c] = "u_setname" /\ UNCHANGED job
    BY Zenon, <1>2, <1>14, <2>1 DEF upd_hset, WatchHolds
  <2>3. OneList(c)'
    BY Zenon, <1>1, <1>4, <2>1, <2>2 DEF OneList
  <2>4. ListReady(c)' /\ Undisturbed(c)' /\ AtTop(c)'
    BY Zenon, <1>3, <1>6, <2>1, <2>2 DEF ListReady, Undisturbed, AtTop, Heard, Serving, Getting
  <2> QED BY Zenon, <2>3, <2>4 DEF ProgramInv
<1>15. CASE upd_setname(c)
  <2>1. /\ pc[c] = "u_setname" /\ pc'[c] = "u_kill" /\ UNCHANGED <<job, program, ns_versions_dict>>
        /\ Top(c) \in {u.to, u.from} /\ pc[c] \in Updating /\ name'[c] = NameOf(c)
    BY Zenon, <1>1, <1>2, <1>15 DEF upd_setname, AtTop, Updating, VersionTyped, TypeInv, UpdInv
  <2>2. OneList(c)'
    BY Zenon, <1>1, <1>4, <2>1 DEF OneList
  <2>3. ListReady(c)' /\ Undisturbed(c)' /\ AtTop(c)'
    BY Zenon, <1>3, <1>6, <2>1 DEF ListReady, Undisturbed, AtTop, Heard, Serving, Getting
  <2> QED BY Zenon, <2>2, <2>3 DEF ProgramInv
<1>16. CASE kill_connected_clients_at(c)
  <2>1. /\ pc[c] = "u_kill" /\ pc'[c] = "ready" /\ UNCHANGED ns_versions_dict
        /\ Top(c) \in {u.to, u.from} /\ pc[c] \in Updating /\ name[c] = NameOf(c)
    BY Zenon, <1>1, <1>5, <1>16 DEF kill_connected_clients_at, AtTop, Updating, VersionTyped,
                                    TypeInv, UpdInv
  <2>2. ASSUME Alive(c)' PROVE Top(c) = u.to /\ program'[c] = u.to
    <3>1. [ns |-> n, ver |-> u.from] \notin NameOf(c) /\ program'[c] = u.to
      <4>1. program \in [Client -> Ver \cup {NULL}]
        BY Zenon DEF TypeInv, UpdInv, VersionTyped
      <4> QED BY Zenon, <1>4, <1>16, <2>1, <2>2, <4>1 DEF kill_connected_clients_at, Alive
    <3>2. [ns |-> n, ver |-> ns_versions_dict[c][n][1].ver] \in NameOf(c)
      BY Zenon, <1>4, <2>1 DEF NameOf
    <3>3. Top(c) = ns_versions_dict[c][n][1].ver
      BY Zenon, <1>1, <1>4, <2>1, WorksAt
    <3> QED BY Zenon, <2>1, <3>1, <3>2, <3>3
  <2>3. OneList(c)'
    BY Zenon, <1>1, <2>1 DEF OneList, Updating
  <2>4. ListReady(c)' /\ Undisturbed(c)' /\ AtTop(c)'
    BY Zenon, <1>3, <1>6, <2>1, <2>2 DEF ListReady, Undisturbed, AtTop, Heard
  <2> QED BY Zenon, <2>3, <2>4 DEF ProgramInv
<1> QED BY Zenon, <1>8, <1>9, <1>10, <1>11, <1>12, <1>13, <1>14, <1>15, <1>16 DEF UpdateStep

\* The calls leave the lists and the program alone.
LEMMA ServedPrograms ==
    ASSUME TypeInv, NEW c \in Client, ProgramInv(c), Served(c)
    PROVE  ProgramInv(c)'
<1>1. pc[c] \in Serving /\ pc'[c] \in Serving
  BY OwnState DEF TypeInv, UpdInv, Served
<1>2. UNCHANGED <<UPDATE_VERSIONS, program, ns_versions_dict, killed>>
  BY Zenon DEF Served, listVars, localVars
<1>3. Here(c)' = Here(c) /\ Top(c)' = Top(c)
  BY Zenon, <1>2 DEF Here, vers_list, Top
<1>4. OneList(c)'
  BY Zenon, <1>1, <1>2 DEF ProgramInv, OneList, Serving, Getting, Updating
<1>5. ListReady(c)' /\ Undisturbed(c)' /\ AtTop(c)'
  BY Zenon, <1>1, <1>2, <1>3 DEF ProgramInv, ListReady, Undisturbed, AtTop, Serving, Getting, Alive
<1> QED BY Zenon, <1>4, <1>5 DEF ProgramInv

\* Every step of every client.
LEMMA ProgramsKept ==
    ASSUME NoRenames, OneUpdater \/ ~Live, TypeInv, AllPrograms, NEW c \in Client, Step(c)
    PROVE  AllPrograms'
<1>1. Rest(c) /\ Heard(c)
  BY Zenon, LurStepTypes, StepHeard DEF Step
<1>2. ProgramInv(c)'
  <2>1. CASE VersionStep(c) \/ UpdateAll(c) \/ stop(c)
    <3>1. ConnectStep(c) \/ UpdateStep(c) \/ Reset(c)
      BY Zenon, <2>1, VersionStepFacts
    <3> QED BY Zenon, <1>1, <3>1, ConnectPrograms, UpdatePrograms, ResetPrograms DEF AllPrograms
  <2>2. CASE Continue(c) \/ Call(c)
    BY Zenon, <2>2, DataServed, ServedPrograms DEF AllPrograms
  <2> QED BY Zenon, <2>1, <2>2 DEF Step
<1>3. ASSUME NEW d \in Client \ {c}, killed[d] PROVE killed'[d]
  <2>1. CASE VersionStep(c) \/ UpdateAll(c) \/ stop(c)
    <3>1. ConnectStep(c) \/ UpdateStep(c) \/ Reset(c)
      BY Zenon, <2>1, VersionStepFacts
    <3>2. CASE Reset(c)
      BY Zenon, <1>3, <3>2 DEF Reset, TypeInv, VersionTyped
    <3>3. CASE ConnectStep(c)
      BY Zenon, <1>3, <3>2, <3>3 DEF ConnectStep, connect, connect_read, connect_exec, load_upd_tuples,
         connect_setname, localVars
    <3>4. CASE UpdateStep(c)
      BY Zenon, <1>3, <3>4 DEF UpdateStep, do_upd, upd_hget, upd_watch, upd_read, upd_exec, rename_exists,
         rename_watch, rename_read, rename_exec, upd_hset, upd_setname, kill_connected_clients_at, localVars
    <3> QED BY Zenon, <3>1, <3>2, <3>3, <3>4
  <2>2. CASE Continue(c) \/ Call(c)
    BY Zenon, <1>3, <2>2, DataServed DEF Served, localVars
  <2> QED BY Zenon, <2>1, <2>2 DEF Step
<1>4. \A d \in Client \ {c} : ProgramInv(d)'
  BY Zenon, <1>1, <1>3, OthersPrograms
<1>5. \A d \in Client : Apart(d)'
  BY Zenon, ApartKept DEF AllPrograms
<1> QED BY Zenon, <1>2, <1>4, <1>5 DEF AllPrograms

\* A step that changes nothing.
LEMMA ProgramsStutter ==
    ASSUME AllPrograms, UNCHANGED lurVars
    PROVE  AllPrograms'
<1>1. UNCHANGED <<UPDATE_VERSIONS, pc, job, program, ns_versions_dict, name, killed, watched>>
  BY Zenon DEF lurVars, versionVars, listVars, localVars
<1> SUFFICES ASSUME NEW c \in Client PROVE Apart(c)' /\ ProgramInv(c)'
  BY Zenon DEF AllPrograms
<1>2. Here(c)' = Here(c) /\ Top(c)' = Top(c) /\ NameOf(c)' = NameOf(c)
  BY Zenon, <1>1 DEF Here, vers_list, Top, NameOf
<1>3. Apart(c) /\ OneList(c) /\ ListReady(c) /\ Undisturbed(c) /\ AtTop(c)
  BY Zenon DEF AllPrograms, ProgramInv
<1>4. Apart(c)' /\ OneList(c)'
  BY Zenon, <1>1, <1>3 DEF Apart, OneList
<1>5. ListReady(c)' /\ Undisturbed(c)' /\ AtTop(c)'
  BY Zenon, <1>1, <1>2, <1>3 DEF ListReady, Undisturbed, AtTop, Alive
<1> QED BY Zenon, <1>4, <1>5 DEF ProgramInv

\* Nobody is connected at the beginning.
LEMMA ProgramsInit == LurInit => AllPrograms
<1> SUFFICES ASSUME LurInit, NEW c \in Client PROVE Apart(c) /\ ProgramInv(c)
  BY Zenon DEF AllPrograms
<1>1. pc[c] = "off" /\ \A n \in NS : ns_versions_dict[c][n] = << >>
  BY Zenon DEF LurInit, VersionsInit, NoLists
<1> QED BY Zenon, <1>1 DEF Apart, Connecting, ProgramInv, OneList, ListReady, Undisturbed, AtTop, Serving,
            Getting, Updating

\* With one client that updates, or with the programs stopped for updates, the
\* program of a client that is connected is written for the newest version in
\* its list: no update goes half way (do_upd, append_new_version).
THEOREM ProgramsAtTop ==
    ASSUME NoRenames, OneUpdater \/ ~Live
    PROVE  LurSpec => []AllPrograms
<1>1. TypeInv /\ AllPrograms /\ [LurNext]_lurVars => AllPrograms'
  BY Zenon, ProgramsKept, ProgramsStutter DEF LurNext, Step
<1> QED BY <1>1, ProgramsInit, TypeInvHolds, PTL DEF LurSpec

-----------------------------------------------------------------------------
(* Shapes *)

\* No other step writes data.
LEMMA StepWrites ==
    ASSUME TypeInv, NEW c \in Client, Step(c)
    PROVE  db' = db \/ Writes(c)
<1>1. CASE VersionStep(c) \/ UpdateAll(c) \/ stop(c)
  BY Zenon, <1>1, VersionStepFacts
<1>2. CASE Continue(c) \/ Call(c)
  <2>1. pc[c] \in Serving
    BY Zenon, <1>2, DataServed DEF Served
  <2>2. InUse(c) /\ (pc[c] # "ready" => job[c].key \in Suffix)
    BY Zenon, <2>1 DEF ClientTyped, Serving, Getting, TypeInv, UpdInv
  <2>3. CASE get_mark(c)
    <3>1. pc[c] # "ready" /\ (db' = db \/ Marks(c, job[c].key))
      BY Zenon, <2>3 DEF get_mark, Marks
    <3> QED BY Zenon, <2>2, <3>1 DEF Writes
  <2>4. CASE get_exec(c)
    <3>1. pc[c] # "ready" /\ (db' = db \/ Moves(c, job[c].key))
      BY Zenon, <2>4 DEF get_exec, Moves, Moved
    <3> QED BY Zenon, <2>2, <3>1 DEF Writes
  <2>5. CASE set_del(c)
    <3>1. pc[c] # "ready" /\ Deletes(c, job[c].key)
      BY Zenon, <2>5 DEF set_del, Deletes
    <3> QED BY Zenon, <2>2, <3>1 DEF Writes
  <2>6. CASE get_mget(c) \/ get_watch(c) \/ get_read(c) \/ scan_call(c) \/ scan_return(c)
    BY Zenon, <2>6 DEF get_mget, get_watch, get_read, scan_call, scan_return
  <2>7. ASSUME NEW k, get(c, k) PROVE db' = db
    BY Zenon, <2>7 DEF get
  <2>8. ASSUME NEW x \in Key, scan_get(c, x) PROVE db' = db
    BY Zenon, <2>7, <2>8 DEF scan_get
  <2>9. CASE Continue(c)
    BY Zenon, <2>3, <2>4, <2>5, <2>6, <2>7, <2>8, <2>9 DEF Continue
  <2>10. CASE Call(c)
    <3>1. PICK k \in Suffix : \/ get(c, k) \/ delete(c, k)
                              \/ \E p \in Payload : set(c, k, p) \/ \E flag : set_flagged(c, k, p, flag)
      BY Zenon, <2>10 DEF Call
    <3>2. CASE delete(c, k)
      BY Zenon, <2>2, <3>2 DEF delete, Writes, Deletes
    <3>3. ASSUME NEW p \in Payload, set(c, k, p) PROVE Writes(c)
      BY Zenon, <2>2, <3>3 DEF set, Writes, Sets
    <3>4. ASSUME NEW p \in Payload, NEW flag, set_flagged(c, k, p, flag) PROVE db' = db \/ Writes(c)
      <4>1. db' = db \/ Sets(c, k, p)
        BY Zenon, <3>4 DEF set_flagged, Sets
      <4> QED BY Zenon, <2>2, <4>1 DEF Writes
    <3> QED BY Zenon, <2>7, <3>1, <3>2, <3>3, <3>4
  <2> QED BY Zenon, <1>2, <2>9, <2>10
<1> QED BY Zenon, <1>1, <1>2 DEF Step

\* The update functions get what they were written for.
LEMMA ReadShape ==
    ASSUME TypeInv, ShapesTruthful, NEW c \in Client, get_read(c), pc'[c] = "g_exec"
    PROVE  ValueAtTop(c)'
<1> DEFINE k == job[c].key
           ks == all_potential_keys(c, k)
           at == {i \in DOMAIN ks : db[ks[i]] # NULL}
           idx == CHOOSE i \in at : \A j \in at : i <= j
           o == db[ks[idx]]
           new == Updated(c, k, o, idx)
<1>1. pc[c] = "g_read" /\ ns_versions_dict' = ns_versions_dict
  BY Zenon DEF get_read, localVars
<1>2. k \in Suffix /\ InUse(c)
  BY Zenon, <1>1 DEF ClientTyped, Serving, Getting, TypeInv, UpdInv
<1>3. at # {} /\ job' = [job EXCEPT ![c] = [key |-> k, idx |-> idx, orig_val |-> o, val |-> new]]
  <2>1. ~Goto(c, "ready")
    BY OwnState DEF TypeInv, UpdInv
  <2> QED BY Zenon, <2>1 DEF get_read, Raise, Done
<1>4. at \subseteq Nat /\ DOMAIN ks = 1..Len(vers_list(c))
  BY <1>2, KeyFacts, InUseFacts DEF TypeInv, UpdInv
<1>5. idx \in at
  <2> HIDE DEF at
  <2> QED BY Zenon, <1>3, <1>4, Least
<1> HIDE DEF idx
<1>6. idx \in 1..Len(vers_list(c)) /\ o # NULL
  BY Zenon, <1>4, <1>5
<1>7. ks[idx] = <<vers_list(c)[idx], k>> /\ ks[idx] \in Key
  BY Zenon, <1>2, <1>6, KeyFacts DEF TypeInv, UpdInv
<1>8. o \in Value \cup {Marker} /\ (o \in Value => o.conf = vers_list(c)[idx].ver)
  BY Zenon, <1>6, <1>7 DEF DataTyped, Cells, ShapesTruthful, TypeInv, UpdInv
<1>9. vers_list(c) \in Seq(Entry) /\ vers_list(c) # << >> /\ Marker \notin Value /\ NULL \notin Value
  BY Zenon, <1>2, InUseFacts, DataAssumption DEF Value, TypeInv, UpdInv
<1> HIDE DEF o, ks
<1>10. new \in Value => new.conf = Top(c)
  BY <1>6, <1>8, <1>9, UpdatedFacts DEF Top
<1>11. job'[c].val = new
  BY Zenon, <1>3 DEF Typed, TypeInv, UpdInv
<1>12. Top(c)' = Top(c)
  BY Zenon, <1>1 DEF Top, vers_list, Here
<1> QED BY Zenon, <1>10, <1>11, <1>12 DEF ValueAtTop

\* What the transaction writes is of the newest version, also when it moves what
\* is stored by then (RENAME).
LEMMA MovedShape ==
    ASSUME TypeInv, ShapeInv, NEW c \in Client, pc[c] = "g_exec", Moved(c) \in Value
    PROVE  Moved(c).conf = Top(c)
<1> DEFINE k == job[c].key
           i == job[c].idx
           o == db[orig_name(c)]
<1>1. /\ InUse(c) /\ i \in 1..Len(vers_list(c)) /\ i \in Nat \ {0}
      /\ orig_name(c) = <<vers_list(c)[i], k>> /\ orig_name(c) \in Key
  BY AtExec, InUseFacts
<1>2. Marker \notin Value /\ NULL \notin Value
  BY Zenon, DataAssumption DEF Value
<1>3. CASE Changed(c, k, i)
  BY Zenon, <1>3 DEF Moved, ShapeInv, ValueAtTop
<1>4. CASE ~Changed(c, k, i)
  <2>1. Moved(c) = Updated(c, k, o, i)
    BY Zenon, <1>4 DEF Moved
  <2>2. o # NULL
    BY Zenon, <1>1, <1>2, <2>1, UpdatedNothing
  <2>3. o \in Value \cup {Marker} /\ (o \in Value => o.conf = vers_list(c)[i].ver)
    BY Zenon, <1>1, <2>2 DEF DataTyped, Cells, ShapeInv, ShapesTruthful, TypeInv, UpdInv
  <2>4. vers_list(c) \in Seq(Entry) /\ vers_list(c) # << >>
    BY Zenon, <1>1, InUseFacts DEF TypeInv, UpdInv
  <2> HIDE DEF o, i
  <2> QED BY <1>1, <1>2, <2>1, <2>3, <2>4, UpdatedFacts DEF Top
<1> QED BY Zenon, <1>3, <1>4

\* Every step of every client.
LEMMA ShapesKept ==
    ASSUME NoRenames, TypeInv, AllPrograms, ShapeInv, NEW c \in Client, Step(c)
    PROVE  ShapeInv'
<1>1. Rest(c)
  BY Zenon, LurStepTypes DEF Step
<1>2. ValueAtTop(c)'
  <2>1. CASE pc'[c] = "g_exec"
    BY Zenon, <2>1, CommitSteps, ReadShape DEF Step, ShapeInv
  <2>2. CASE pc'[c] # "g_exec"
    BY Zenon, <2>2 DEF ValueAtTop
  <2> QED BY Zenon, <2>1, <2>2
<1>3. ASSUME NEW d \in Client \ {c} PROVE ValueAtTop(d)'
  <2>0. pc'[d] = pc[d] /\ job'[d] = job[d] /\ ns_versions_dict'[d] = ns_versions_dict[d]
    BY Zenon, <1>1 DEF Rest
  <2>1. Top(d)' = Top(d)
    BY Zenon, <2>0 DEF Top, vers_list, Here
  <2> QED BY Zenon, <2>0, <2>1 DEF ShapeInv, ValueAtTop
<1>4. ShapesTruthful'
  <2> SUFFICES ASSUME NEW x \in Key, db'[x] \in Value PROVE db'[x].conf = x[1].ver
    BY Zenon DEF ShapesTruthful
  <2>1. CASE db'[x] = db[x]
    BY Zenon, <2>1 DEF ShapeInv, ShapesTruthful
  <2>2. CASE db'[x] # db[x]
    <3>1. InUse(c) /\ Marker \notin Value /\ NULL \notin Value
      BY Zenon, <2>2, StepWrites, DataAssumption DEF Writes, Value
    <3>2. PICK k \in Suffix : (\E p \in Payload : Sets(c, k, p)) \/ Marks(c, k) \/ Deletes(c, k) \/ Moves(c, k)
      BY Zenon, <2>2, StepWrites DEF Writes
    <3> DEFINE y == CurrKey(c, k)
    <3>3. y = <<vers_list(c)[1], k>> /\ y \in Key /\ y[1].ver = Top(c)
      <4>1. 1 \in 1..Len(vers_list(c))
        BY Zenon, <3>1, InUseFacts DEF TypeInv, UpdInv
      <4>2. y \in Key /\ all_potential_keys(c, k)[1] = <<vers_list(c)[1], k>>
        BY Zenon, <3>1, <4>1, KeyFacts DEF TypeInv, UpdInv
      <4> QED BY <4>2 DEF CurrKey, Top
    <3> HIDE DEF y
    <3>4. ASSUME NEW p \in Payload, Sets(c, k, p) PROVE db'[x].conf = x[1].ver
      <4>1. db' = [db EXCEPT ![y] = Fresh(c, p)] /\ program[c] = Top(c)
        BY Zenon, <3>4 DEF Sets, y, AllPrograms, ProgramInv, AtTop, Serving
      <4>2. x = y /\ db'[x] = Fresh(c, p)
        BY <2>2, <4>1 DEF DataTyped
      <4> QED BY <3>3, <4>1, <4>2 DEF Fresh
    <3>5. CASE Marks(c, k)
      <4>1. db' = [db EXCEPT ![y] = Marker]
        BY Zenon, <3>5 DEF Marks, y
      <4> QED BY <2>2, <3>1, <4>1 DEF DataTyped
    <3>6. CASE Deletes(c, k)
      BY Zenon, <2>2, <3>1, <3>6 DEF Deletes, Without
    <3>7. CASE Moves(c, k)
      <4>1. db' = [db EXCEPT ![orig_name(c)] = NULL, ![y] = Moved(c)] /\ pc[c] = "g_exec"
        BY Zenon, <3>7 DEF Moves, y
      <4>2. x = y /\ db'[x] = Moved(c)
        BY Zenon, <2>2, <3>1, <4>1 DEF DataTyped, TypeInv, UpdInv
      <4> QED BY Zenon, <3>3, <4>1, <4>2, MovedShape
    <3> QED BY Zenon, <3>2, <3>4, <3>5, <3>6, <3>7
  <2> QED BY Zenon, <2>1, <2>2
<1> QED BY Zenon, <1>2, <1>3, <1>4 DEF ShapeInv

\* Whatever calls, updates, crashes and lost transactions led there, a value
\* stored under a version has the shape of that version: no update function is
\* skipped, applied twice or given a value of another shape (get, set, do_upd),
\* for any number of programs, if one client updates at a time.
THEOREM ShapesTruthfulTheorem ==
    ASSUME NoRenames, OneUpdater \/ ~Live
    PROVE  LurSpec => []ShapesTruthful
<1>1. LurInit => ShapeInv
  <2> SUFFICES ASSUME LurInit PROVE ShapeInv
    BY Zenon
  <2>1. ShapesTruthful
    BY Zenon, DataAssumption DEF LurInit, ShapesTruthful, Value
  <2>2. \A c \in Client : ValueAtTop(c)
    BY Zenon DEF LurInit, VersionsInit, ValueAtTop
  <2> QED BY Zenon, <2>1, <2>2 DEF ShapeInv
<1>2. TypeInv /\ AllPrograms /\ ShapeInv /\ [LurNext]_lurVars => ShapeInv'
  <2> SUFFICES ASSUME TypeInv, AllPrograms, ShapeInv, [LurNext]_lurVars PROVE ShapeInv'
    BY Zenon
  <2>1. CASE LurNext
    BY Zenon, <2>1, ShapesKept DEF LurNext, Step
  <2>2. CASE UNCHANGED lurVars
    <3>1. UNCHANGED <<pc, job, ns_versions_dict, db>>
      BY Zenon, <2>2 DEF lurVars, versionVars, localVars, dataVars
    <3>2. \A c \in Client : Top(c)' = Top(c)
      BY Zenon, <3>1 DEF Top, vers_list, Here
    <3> QED BY Zenon, <3>1, <3>2 DEF ShapeInv, ShapesTruthful, ValueAtTop
  <2> QED BY Zenon, <2>1, <2>2
<1>3. ShapeInv => ShapesTruthful
  BY Zenon DEF ShapeInv
<1> QED BY <1>1, <1>2, <1>3, ProgramsAtTop, TypeInvHolds, PTL DEF LurSpec

-----------------------------------------------------------------------------
(* Lists, with the other programs stopped for the update *)

\* The steps of another client.
LEMMA OthersInStep ==
    ASSUME ~Live, TypeInv, AllPrograms, NEW c \in Client, Rest(c), Heard(c),
           NEW d \in Client \ {c}, InStep(d)
    PROVE  InStep(d)'
<1>1. pc'[d] = pc[d] /\ job'[d] = job[d] /\ ns_versions_dict'[d] = ns_versions_dict[d]
  BY Zenon DEF Rest
<1>2. Here(d)' = Here(d) /\ vers_list(d)' = vers_list(d)
  BY Zenon, <1>1 DEF Here, vers_list
<1>3. ASSUME pc[d] \notin {"off", "c_read", "c_exec"}
      PROVE  UPDATE_VERSIONS'[Here(d)] = UPDATE_VERSIONS[Here(d)]
  <2>1. Here(d) \in NS /\ UPDATE_VERSIONS[Here(d)] # << >>
    BY Zenon, <1>3, InUseFacts DEF ClientTyped, AllPrograms, ProgramInv, ListReady, TypeInv, UpdInv
  <2> SUFFICES ASSUME Pushes(c, Here(d)) PROVE FALSE
    BY Zenon, <2>1 DEF Heard
  <2>2. pc[c] # "c_exec"
    BY Zenon, <2>1 DEF Pushes, AllPrograms, ProgramInv, ListReady
  <2>3. pc[c] # "u_exec"
    BY Zenon, <1>3 DEF AllPrograms, Apart, Others, Updating
  <2> QED BY Zenon, <2>2, <2>3 DEF Pushes
<1>4. ASSUME pc[d] \in {"c_read", "c_exec"} PROVE List(job[d].ns) \in watched'[d]
  <2>1. job[d].ns \in NS /\ List(job[d].ns) \in watched[d]
    BY Zenon, <1>4 DEF JobTyped, Entry, InStep, TypeInv, UpdInv
  <2>2. pc[c] \notin {"c_exec", "u_exec"}
    BY Zenon, <1>4 DEF AllPrograms, Apart, Others, Updating, Connecting
  <2> QED BY Zenon, <2>1, <2>2 DEF Heard, Pushes
<1> QED BY Zenon, <1>1, <1>2, <1>3, <1>4 DEF InStep, Updating, Serving, Getting

\* __init__ takes the list over, or stores its own.
LEMMA ConnectInStep ==
    ASSUME TypeInv, NEW c \in Client, ProgramInv(c), OneList(c)', InStep(c), ConnectStep(c)
    PROVE  InStep(c)'
<1>1. OneList(c) /\ ListReady(c) /\ JobTyped(c) /\ ClientTyped(c)
  BY Zenon DEF ProgramInv, TypeInv, UpdInv
<1>2. \A x : Goto(c, x) => pc'[c] = x
  BY Zenon, OwnState DEF TypeInv, UpdInv
<1>3. ASSUME UNCHANGED ns_versions_dict PROVE Here(c)' = Here(c) /\ vers_list(c)' = vers_list(c)
  BY Zenon, <1>3 DEF Here, vers_list
<1>4. ASSUME Reset(c) PROVE InStep(c)'
  <2>1. pc'[c] = "off"
    BY Zenon, <1>2, <1>4 DEF Reset
  <2> QED BY Zenon, <2>1 DEF InStep, Updating, Serving, Getting
<1>5. ASSUME NEW p \in Programs, connect(c, p) PROVE InStep(c)'
  <2>1. pc'[c] = "c_read" /\ job'[c] = p /\ List(p.ns) \in watched'[c]
    BY Zenon, <1>2, <1>5 DEF connect, Typed, Watch, TypeInv, UpdInv
  <2> QED BY Zenon, <2>1 DEF InStep, Updating, Serving, Getting
<1>6. CASE connect_read(c)
  <2> DEFINE p == job[c]
             l == UPDATE_VERSIONS[p.ns]
  <2>1. p \in Entry /\ p.ns \in NS /\ pc[c] = "c_read" /\ List(p.ns) \in watched[c]
    BY Zenon, <1>1, <1>6 DEF connect_read, JobTyped, Entry, InStep
  <2>2. ASSUME NEW m, m # << >>, ns_versions_dict' = [ns_versions_dict EXCEPT ![c][p.ns] = m]
        PROVE  Here(c)' = p.ns /\ vers_list(c)' = m
    <3>1. ns_versions_dict'[c][p.ns] = m
      BY Zenon, <2>1, <2>2 DEF Typed, TypeInv, UpdInv
    <3> QED BY Zenon, <2>1, <2>2, <3>1, WorksAtNext
  <2>3. CASE /\ l # << >> /\ Goto(c, "c_load")
             /\ ns_versions_dict' = [ns_versions_dict EXCEPT ![c][p.ns] = l]
    <3>1. pc'[c] = "c_load" /\ Here(c)' = p.ns /\ vers_list(c)' = l /\ UNCHANGED UPDATE_VERSIONS
      BY Zenon, <1>2, <1>6, <2>2, <2>3 DEF connect_read, listVars
    <3> QED BY Zenon, <3>1 DEF InStep
  <2>4. CASE /\ Goto(c, "c_exec") /\ ns_versions_dict' = [ns_versions_dict EXCEPT ![c][p.ns] = <<p>>]
             /\ UNCHANGED <<job, watched>>
    <3>1. <<p>> # << >> /\ pc'[c] = "c_exec"
      BY Zenon, <1>2, <2>4
    <3>2. vers_list(c)' = <<p>>
      BY Zenon, <2>2, <2>4, <3>1
    <3> QED BY Zenon, <2>1, <2>4, <3>1, <3>2 DEF InStep, Updating, Serving, Getting
  <2> QED BY Zenon, <1>4, <1>6, <2>3, <2>4 DEF connect_read
<1>7. CASE connect_exec(c)
  <2> DEFINE n == job[c].ns
             l == UPDATE_VERSIONS[n]
  <2>1. /\ pc[c] = "c_exec" /\ pc'[c] = "c_load" /\ vers_list(c) = <<job[c]>> /\ List(n) \in watched[c]
        /\ UNCHANGED ns_versions_dict
    BY Zenon, <1>2, <1>7 DEF connect_exec, InStep, localVars
  <2>2. n \in NS /\ Here(c) = n /\ l = << >>
    BY Zenon, <1>1, <2>1, WorksAt DEF JobTyped, Entry, OneList, ListReady
  <2>3. UPDATE_VERSIONS' = [UPDATE_VERSIONS EXCEPT ![n] = <<job[c]>> \o @]
    BY Zenon, <1>7, <2>1 DEF connect_exec, WatchHolds
  <2>4. UPDATE_VERSIONS'[n] = <<job[c]>> \o << >>
    BY Zenon, <2>2, <2>3 DEF Typed, TypeInv, UpdInv
  <2>5. <<job[c]>> \o << >> = <<job[c]>>
    OBVIOUS
  <2> QED BY Zenon, <1>3, <2>1, <2>2, <2>4, <2>5 DEF InStep
<1>8. CASE load_upd_tuples(c) \/ connect_setname(c)
  <2>1. /\ pc[c] \in {"c_load", "c_setname"} /\ pc'[c] \in {"c_setname", "ready"}
        /\ UNCHANGED <<UPDATE_VERSIONS, ns_versions_dict>>
    BY Zenon, <1>2, <1>8 DEF load_upd_tuples, connect_setname, listVars
  <2> QED BY Zenon, <1>3, <2>1 DEF InStep, Serving
<1> QED BY Zenon, <1>5, <1>6, <1>7, <1>8 DEF ConnectStep

\* do_upd puts the new version in front of both.
LEMMA UpdateInStep ==
    ASSUME NoRenames, TypeInv, NEW c \in Client, ProgramInv(c), OneList(c)', InStep(c), UpdateStep(c)
    PROVE  InStep(c)'
<1> DEFINE u == job[c].file
           n == u.ns
           e == [ver |-> u.to, ns |-> n]
           l == UPDATE_VERSIONS[n]
<1>1. OneList(c) /\ Undisturbed(c) /\ JobTyped(c)
  BY Zenon DEF ProgramInv, TypeInv, UpdInv
<1>2. \A x : Goto(c, x) => pc'[c] = x
  BY Zenon, OwnState DEF TypeInv, UpdInv
<1>3. ASSUME UNCHANGED <<UPDATE_VERSIONS, ns_versions_dict>>, pc[c] # "u_exec",
             pc[c] \in Updating \cup {"ready"}, pc'[c] # "u_exec", pc'[c] \in Updating \cup {"ready"}
      PROVE  InStep(c)'
  <2>1. Here(c)' = Here(c) /\ vers_list(c)' = vers_list(c)
    BY Zenon, <1>3 DEF Here, vers_list
  <2> QED BY Zenon, <1>3, <2>1 DEF InStep, Updating, Serving, Getting
<1>4. pc[c] \in Updating =>
        n \in NS /\ e \in Entry /\ l \in Seq(Entry) /\ ns_versions_dict[c][n] # << >> /\ Here(c) = n
  <2>1. pc[c] \in Updating =>
          n \in NS /\ e \in Entry /\ l \in Seq(Entry) /\ ns_versions_dict[c][n] # << >>
    BY Zenon, <1>1, JobOf DEF OneList, TypeInv, UpdInv
  <2> QED BY Zenon, <1>1, <2>1, WorksAt
<1>5. CASE upd_read(c)
  <2>1. pc[c] = "u_read" /\ UNCHANGED <<job, UPDATE_VERSIONS>>
    BY Zenon, <1>5 DEF upd_read, listVars
  <2>2. CASE Goto(c, "u_hset") /\ UNCHANGED ns_versions_dict
    BY Zenon, <1>2, <1>3, <2>1, <2>2 DEF Updating
  <2>3. CASE Goto(c, "u_exec") /\ ns_versions_dict' = [ns_versions_dict EXCEPT ![c][n] = <<e>> \o l]
    <3> DEFINE m == <<e>> \o l
    <3>1. n \in NS /\ m # << >>
      BY Zenon, <1>4, <2>1, InFront DEF Updating
    <3>2. ns_versions_dict'[c][n] = m
      <4> HIDE DEF m
      <4>1. ns_versions_dict' = [ns_versions_dict EXCEPT ![c][n] = m]
        BY Zenon, <2>3 DEF m
      <4> QED BY Zenon, <3>1, <4>1 DEF Typed, TypeInv, UpdInv
    <3>3. pc'[c] = "u_exec" /\ Here(c)' = n /\ vers_list(c)' = m
      BY Zenon, <1>2, <2>3, <3>1, <3>2, WorksAtNext
    <3> QED BY Zenon, <2>1, <3>3 DEF InStep, Serving, Getting
  <2> QED BY Zenon, <1>5, <2>2, <2>3 DEF upd_read
<1>6. CASE upd_exec(c)
  <2>1. /\ pc[c] = "u_exec" /\ UNCHANGED ns_versions_dict /\ List(n) \in watched[c]
        /\ vers_list(c) = <<e>> \o UPDATE_VERSIONS[Here(c)]
    BY Zenon, <1>1, <1>6 DEF upd_exec, localVars, Undisturbed, InStep
  <2>2. pc'[c] = "u_hset" /\ UPDATE_VERSIONS' = [UPDATE_VERSIONS EXCEPT ![n] = <<e>> \o @]
    BY Zenon, <1>2, <1>6, <2>1 DEF upd_exec, WatchHolds
  <2>3. n \in NS /\ Here(c) = n
    BY Zenon, <1>4, <2>1 DEF Updating
  <2>4. UPDATE_VERSIONS'[n] = vers_list(c)
    <3> DEFINE m == <<e>> \o l
    <3>1. UPDATE_VERSIONS' = [UPDATE_VERSIONS EXCEPT ![n] = m] /\ vers_list(c) = m
      BY Zenon, <2>1, <2>2, <2>3
    <3> HIDE DEF m
    <3> QED BY Zenon, <2>3, <3>1 DEF Typed, TypeInv, UpdInv
  <2>5. Here(c)' = Here(c) /\ vers_list(c)' = vers_list(c)
    BY Zenon, <2>1 DEF Here, vers_list
  <2> QED BY Zenon, <2>2, <2>3, <2>4, <2>5 DEF InStep
<1>7. CASE rename_exists(c) \/ rename_watch(c) \/ rename_read(c) \/ rename_exec(c)
  BY Zenon, <1>7, ListSteps DEF rename_exists, rename_watch, rename_read, rename_exec, Renaming,
                                UpdateStep
<1>8. CASE \/ \E f \in Files : do_upd(c, f)
           \/ upd_hget(c) \/ upd_watch(c) \/ upd_hset(c) \/ upd_setname(c) \/ kill_connected_clients_at(c)
  <2>1. /\ pc[c] \in {"ready", "u_hget", "u_watch", "u_hset", "u_setname", "u_kill"}
        /\ UNCHANGED <<UPDATE_VERSIONS, ns_versions_dict>>
    BY Zenon, <1>8 DEF do_upd, upd_hget, upd_watch, upd_hset, upd_setname, kill_connected_clients_at,
       listVars, localVars
  <2>2. pc'[c] \in {"ready", "u_hget", "u_watch", "r_exists", "u_read", "u_setname", "u_kill"}
    BY Zenon, <1>2, <1>8 DEF do_upd, upd_hget, upd_watch, upd_hset, upd_setname, kill_connected_clients_at, Leave
  <2> QED BY Zenon, <1>3, <2>1, <2>2 DEF Updating
<1> QED BY Zenon, <1>5, <1>6, <1>7, <1>8 DEF UpdateStep

\* Every step of every client.
LEMMA InStepKept ==
    ASSUME NoRenames, ~Live, TypeInv, AllPrograms, AllPrograms', \A d \in Client : InStep(d),
           NEW c \in Client, Step(c)
    PROVE  \A d \in Client : InStep(d)'
<1>1. Rest(c) /\ Heard(c) /\ ProgramInv(c) /\ OneList(c)'
  BY Zenon, LurStepTypes, StepHeard DEF Step, AllPrograms, ProgramInv
<1>2. InStep(c)'
  <2>1. CASE VersionStep(c) \/ UpdateAll(c) \/ stop(c)
    <3>1. ConnectStep(c) \/ UpdateStep(c) \/ Reset(c)
      BY Zenon, <2>1, VersionStepFacts
    <3>2. CASE Reset(c)
      <4>1. pc'[c] = "off"
        BY Zenon, <3>2, OwnState DEF Reset, TypeInv, UpdInv
      <4> QED BY Zenon, <4>1 DEF InStep, Updating, Serving, Getting
    <3> QED BY Zenon, <1>1, <3>1, <3>2, ConnectInStep, UpdateInStep
  <2>2. CASE Continue(c) \/ Call(c)
    <3>1. Served(c)
      BY Zenon, <2>2, DataServed
    <3>2. pc[c] \in Serving /\ pc'[c] \in Serving
      BY <3>1, OwnState DEF TypeInv, UpdInv, Served
    <3>3. UNCHANGED <<UPDATE_VERSIONS, ns_versions_dict>>
      BY Zenon, <3>1 DEF Served, listVars, localVars
    <3>4. Here(c)' = Here(c) /\ vers_list(c)' = vers_list(c)
      BY Zenon, <3>3 DEF Here, vers_list
    <3> QED BY Zenon, <3>2, <3>3, <3>4 DEF InStep, Serving, Getting
  <2> QED BY Zenon, <2>1, <2>2 DEF Step
<1>3. \A d \in Client \ {c} : InStep(d)'
  BY Zenon, <1>1, OthersInStep
<1> QED BY Zenon, <1>2, <1>3

\* The keys of a call, and of a name at two clients with the same list.
LEMMA KeysOf ==
    ASSUME Typed, OwnNames, NEW c \in Client, InUse(c), NEW k \in Suffix
    PROVE  /\ \A x \in Elements(all_potential_keys(c, k)) : x[1].ns = Here(c) /\ x[2] = k
           /\ CurrKey(c, k) \in Elements(all_potential_keys(c, k))
           /\ OldKeys(c, k) \subseteq Elements(all_potential_keys(c, k))
           /\ Elements(all_potential_keys(c, k)) = {CurrKey(c, k)} \cup OldKeys(c, k)
<1> DEFINE ks == all_potential_keys(c, k)
           L == vers_list(c)
<1>1. /\ Here(c) \in NS /\ L = ns_versions_dict[c][Here(c)] /\ Len(L) \in Nat \ {0}
      /\ DOMAIN L = 1..Len(L) /\ DOMAIN ks = 1..Len(L)
      /\ \A i \in 1..Len(L) : ks[i] = <<L[i], k>>
  BY Zenon, InUseFacts, KeyFacts DEF vers_list
<1>2. OwnEntries(Here(c), L)
  BY Zenon, <1>1 DEF OwnNames
<1>3. \A i \in 1..Len(L) : ks[i][1].ns = Here(c) /\ ks[i][2] = k
  BY <1>1, <1>2 DEF OwnEntries
<1>4. CurrKey(c, k) = ks[1] /\ OldKeys(c, k) = {ks[i] : i \in 2..Len(L)}
      /\ Elements(ks) = {ks[i] : i \in 1..Len(L)}
  BY Zenon, <1>1 DEF CurrKey, OldKeys, Elements
<1> HIDE DEF ks, L
<1>5. Elements(ks) = {CurrKey(c, k)} \cup OldKeys(c, k)
  BY <1>1, <1>4
<1>6. \A x \in Elements(ks) : x[1].ns = Here(c) /\ x[2] = k
  BY Zenon, <1>3, <1>4
<1> QED BY Zenon, <1>5, <1>6 DEF ks

-----------------------------------------------------------------------------
(* do_upd_all_now *)

\* That is what a call of any client leaves.
LEMMA Effect ==
    ASSUME TypeInv, OwnNames, NEW c \in Client, NEW d \in Client, InUse(c), Writes(d),
           Here(c) = Here(d) => vers_list(c) = vers_list(d),
           NEW k \in Suffix
    PROVE  Left(c, k)
<1>1. PICK l \in Suffix : \/ \E p \in Payload : Sets(d, l, p)
                          \/ Marks(d, l) \/ Deletes(d, l) \/ Moves(d, l)
  BY Zenon DEF Writes
<1> DEFINE old == OldKeys(d, l)
           y == CurrKey(d, l)
           all == Elements(all_potential_keys(d, l))
<1>2. InUse(d) /\ y \in Key /\ old \subseteq Key /\ all = {y} \cup old
  BY Zenon, KeyFacts, KeysOf DEF Writes, TypeInv, UpdInv
<1>3. \/ db' = Without(db, old) \/ db' = Without(db, all)
      \/ \E v \in Value \cup {Marker} : db' = [db EXCEPT ![y] = v]
      \/ \E x \in all, v \in Value \cup {Marker} : db' = [db EXCEPT ![x] = NULL, ![y] = v]
  <2>1. ASSUME NEW p \in Payload, Sets(d, l, p)
        PROVE  Fresh(d, p) \in Value /\ db' = [db EXCEPT ![y] = Fresh(d, p)]
    <3>1. program[d] \in Ver
      BY Zenon, <2>1 DEF Sets, ClientTyped, TypeInv, UpdInv
    <3> QED BY Zenon, <2>1, <3>1 DEF Sets, Fresh, Value
  <2>2. CASE Moves(d, l)
    <3>1. pc[d] = "g_exec" /\ l = job[d].key /\ db' = [db EXCEPT ![orig_name(d)] = NULL, ![y] = Moved(d)]
      BY Zenon, <2>2 DEF Moves
    <3>2. Moved(d) \in Value \cup {Marker}
      BY Zenon, <2>2, <3>1, AtExec DEF Moves, Cells
    <3>3. orig_name(d) \in all
      <4>1. job[d].idx \in 1..Len(vers_list(d)) /\ orig_name(d) = all_potential_keys(d, l)[job[d].idx]
        BY Zenon, <3>1, AtExec DEF orig_name
      <4>2. job[d].idx \in DOMAIN all_potential_keys(d, l)
        BY Zenon, <1>2, <4>1, KeyFacts DEF TypeInv, UpdInv
      <4> QED BY Zenon, <4>1, <4>2 DEF Elements
    <3> HIDE DEF all, y
    <3> QED BY Zenon, <3>1, <3>2, <3>3
  <2> HIDE DEF all, y, old
  <2> QED BY Zenon, <1>1, <2>1, <2>2 DEF Marks, Deletes, all, y, old
<1>4. NULL \notin Value \cup {Marker}
  BY Zenon, DataAssumption DEF Value
<1> DEFINE mine == Elements(all_potential_keys(c, k))
<1>5. mine \subseteq Key /\ CurrKey(c, k) \in mine /\ OldKeys(c, k) \subseteq mine
  BY Zenon, KeyFacts, KeysOf DEF TypeInv, UpdInv
<1>6. CASE Here(c) = Here(d) /\ k = l
  <2>1. CurrKey(c, k) = y /\ OldKeys(c, k) = old
    BY Zenon, <1>6 DEF CurrKey, OldKeys, all_potential_keys
  <2> HIDE DEF y, old, all, mine
  <2>2. CASE db' = Without(db, old) \/ db' = Without(db, all)
    BY Zenon, <1>2, <2>1, <2>2 DEF Left, Without
  <2>3. CASE db'[y] # NULL
    BY Zenon, <2>1, <2>3 DEF Left
  <2>4. ASSUME NEW v \in Value \cup {Marker}, db' = [db EXCEPT ![y] = v] PROVE db'[y] # NULL
    BY Zenon, <1>2, <1>4, <2>4 DEF DataTyped, TypeInv, UpdInv
  <2>5. ASSUME NEW x, NEW v \in Value \cup {Marker}, db' = [db EXCEPT ![x] = NULL, ![y] = v] PROVE db'[y] # NULL
    BY Zenon, <1>2, <1>4, <2>5 DEF DataTyped, TypeInv, UpdInv
  <2> QED BY Zenon, <1>3, <2>2, <2>3, <2>4, <2>5
<1>7. CASE ~(Here(c) = Here(d) /\ k = l)
  <2>1. \A x \in mine : x \notin all
    BY <1>2, <1>7, KeysOf DEF TypeInv, UpdInv
  <2> HIDE DEF y, old, all, mine
  <2>2. \A x \in mine : db'[x] = db[x]
    BY Zenon, <1>2, <1>3, <1>5, <2>1 DEF DataTyped, Without, TypeInv, UpdInv
  <2> QED BY Zenon, <1>5, <2>2 DEF Left
<1> QED BY Zenon, <1>6, <1>7

\* A step that leaves the versions of c alone: what was pending is done or is
\* still pending, and no call undoes what is done.
LEMMA ScanGoesOn ==
    ASSUME TypeInv, OwnNames, NEW c \in Client, NEW d \in Client, ScanInv(c),
           scan[c] # NULL, pc[c] \in {"ready"} \cup Getting, pc'[c] \in {"ready"} \cup Getting,
           ns_versions_dict'[c] = ns_versions_dict[c], db' = db \/ Writes(d),
           Here(c) = Here(d) => vers_list(c) = vers_list(d),
           \A k \in Suffix : \A x \in OldKeys(c, k) :
             db'[x] # NULL /\ Pending(c, k, x) => db'[CurrKey(c, k)] # NULL \/ Pending(c, k, x)'
    PROVE  ScanInv(c)'
<1>1. InUse(c) /\ pc[c] \notin Updating /\ pc'[c] \notin Updating
  BY Zenon DEF ClientTyped, Updating, Getting, TypeInv, UpdInv
<1>2. Here(c)' = Here(c) /\ vers_list(c)' = vers_list(c)
  BY Zenon DEF Here, vers_list
<1> SUFFICES ASSUME NEW k \in Suffix PROVE ToDo(c, k)'
  BY Zenon, <1>1 DEF ScanInv
<1>3. all_potential_keys(c, k)' = all_potential_keys(c, k)
  BY Zenon, <1>2 DEF all_potential_keys
<1>4. CurrKey(c, k)' = CurrKey(c, k) /\ OldKeys(c, k)' = OldKeys(c, k)
  BY Zenon, <1>2, <1>3 DEF CurrKey, OldKeys
<1>5. ToDo(c, k)
  BY Zenon, <1>1 DEF ScanInv
<1>6. Left(c, k)
  BY Zenon, <1>1, Effect DEF Left
<1> SUFFICES ASSUME NEW x \in OldKeys(c, k), db'[x] # NULL, db'[CurrKey(c, k)] = NULL
             PROVE  Pending(c, k, x)'
  BY Zenon, <1>4 DEF ToDo
<1>7. db[x] # NULL /\ db[CurrKey(c, k)] = NULL
  BY Zenon, <1>6 DEF Left
<1>8. Pending(c, k, x)
  BY Zenon, <1>5, <1>7 DEF ToDo
<1> QED BY Zenon, <1>8

\* The steps of another client.
LEMMA OthersScan ==
    ASSUME TypeInv, OwnNames, NEW c \in Client, Step(c), NEW d \in Client \ {c},
           InStep(c), InStep(d), ScanInv(d)
    PROVE  ScanInv(d)'
<1>1. /\ pc'[d] = pc[d] /\ job'[d] = job[d] /\ ns_versions_dict'[d] = ns_versions_dict[d]
      /\ scan'[d] = scan[d]
  BY Zenon, LurStepTypes DEF Rest, Step
<1>2. CASE scan[d] = NULL
  BY Zenon, <1>1, <1>2 DEF ScanInv
<1>3. CASE scan[d] # NULL /\ pc[d] \in Updating
  BY Zenon, <1>1, <1>3 DEF ScanInv
<1>4. CASE scan[d] # NULL /\ pc[d] \notin Updating
  <2>1. pc[d] \in {"ready"} \cup Getting /\ vers_list(d) = UPDATE_VERSIONS[Here(d)]
    BY Zenon, <1>4 DEF ScanInv, InStep, Serving
  <2>2. \A k, x : Pending(d, k, x)' = Pending(d, k, x)
    BY Zenon, <1>1 DEF Pending
  <2>3. CASE db' = db
    <3>1. db' = db \/ Writes(d)
      BY Zenon, <2>3
    <3> HIDE DEF Pending
    <3> QED BY Zenon, <1>1, <1>4, <2>1, <2>2, <3>1, ScanGoesOn
  <2>4. CASE db' # db
    <3>1. Writes(c) /\ pc[c] \in Serving
      BY Zenon, <2>4, StepWrites, VersionStepFacts, DataServed DEF Step, Served
    <3>2. vers_list(c) = UPDATE_VERSIONS[Here(c)]
      BY Zenon, <3>1 DEF InStep
    <3> QED BY Zenon, <1>1, <1>4, <2>1, <2>2, <3>1, <3>2, ScanGoesOn
  <2> QED BY Zenon, <2>3, <2>4
<1> QED BY Zenon, <1>2, <1>3, <1>4

\* A call of do_upd_all_now ends with the current version there, or with none
\* (get), and a SCAN passes over a key that has nothing to be done.
LEMMA OwnScanKept ==
    ASSUME TypeInv, OwnNames, NEW c \in Client, Continue(c) \/ Call(c), ScanInv(c)
    PROVE  ScanInv(c)'
<1> DEFINE key == job[c].key
           Kept == \A k \in Suffix : \A x \in OldKeys(c, k) :
                     db'[x] # NULL /\ Pending(c, k, x) => db'[CurrKey(c, k)] # NULL \/ Pending(c, k, x)'
<1>1. /\ Served(c) /\ OwnCall(c)' /\ pc[c] \in Serving /\ ns_versions_dict' = ns_versions_dict
      /\ InUse(c) /\ (pc[c] # "ready" => key \in Suffix)
  BY Zenon, DataServed DEF Served, localVars, ClientTyped, Serving, Getting, TypeInv, UpdInv
<1>0. \A k \in Suffix : \A x \in OldKeys(c, k) : x[2] = k
  <2>1. Typed
    BY Zenon DEF TypeInv, UpdInv
  <2> QED BY Zenon, <1>1, <2>1, KeysOf
<1>2. /\ \A x : Goto(c, x) => pc'[c] = x
      /\ \A x : job' = [job EXCEPT ![c] = x] => job'[c] = x
      /\ \A x : scan' = [scan EXCEPT ![c] = x] => scan'[c] = x
  BY Zenon, OwnState DEF Typed, DataTyped, TypeInv, UpdInv
<1>3. ASSUME scan[c] # NULL, pc[c] \in {"ready"} \cup Getting, pc'[c] \in {"ready"} \cup Getting, Kept
      PROVE  ScanInv(c)'
  <2>1. db' = db \/ Writes(c)
    BY Zenon, StepWrites DEF Step
  <2> QED BY Zenon, <1>1, <1>3, <2>1, ScanGoesOn
<1>4. ASSUME scan'[c] = NULL PROVE ScanInv(c)'
  BY Zenon, <1>4 DEF ScanInv
<1>5. ASSUME scan' = scan, pc'[c] \in Getting, pc[c] \in Getting, job'[c].key = key PROVE ScanInv(c)'
  <2>1. CASE scan[c] # NULL
    <3>1. \A k, x : Pending(c, k, x) => Pending(c, k, x)'
      BY Zenon, <1>5 DEF Pending
    <3> HIDE DEF key
    <3>2. Kept
      BY Zenon, <3>1
    <3> HIDE DEF Kept
    <3> QED BY Zenon, <1>3, <1>5, <2>1, <3>2
  <2> QED BY Zenon, <1>4, <1>5, <2>1
<1>6. ASSUME scan' = scan, pc'[c] = "ready", pc[c] \in Getting,
             db'[CurrKey(c, key)] # NULL \/ \A x \in OldKeys(c, key) : db'[x] = NULL
      PROVE  ScanInv(c)'
  <2>1. CASE scan[c] # NULL
    <3>1. Kept
      <4> SUFFICES ASSUME NEW k \in Suffix, NEW x \in OldKeys(c, k), db'[x] # NULL, Pending(c, k, x),
                          db'[CurrKey(c, k)] = NULL
                   PROVE  Pending(c, k, x)'
        BY Zenon
      <4>1. k # key
        BY Zenon, <1>6
      <4> QED BY Zenon, <1>6, <4>1 DEF Pending
    <3> HIDE DEF Kept
    <3> QED BY Zenon, <1>3, <1>6, <2>1, <3>1
  <2> QED BY Zenon, <1>4, <1>6, <2>1
<1>7. CASE pc[c] = "g_get" /\ get(c, key) /\ UNCHANGED scan
  <2>1. CASE Goto(c, "ready") /\ db[CurrKey(c, key)] # NULL
    BY Zenon, <1>2, <1>6, <1>7, <2>1 DEF get, Getting
  <2>2. CASE Goto(c, "g_mget") /\ job' = [job EXCEPT ![c] = [key |-> key]]
    BY Zenon, <1>2, <1>5, <1>7, <2>2 DEF Getting
  <2> QED BY Zenon, <1>7, <2>1, <2>2 DEF get
<1>8. CASE get_mget(c) \/ get_watch(c)
  BY Zenon, <1>2, <1>5, <1>8 DEF get_mget, get_watch, Getting
<1>9. CASE get_mark(c)
  <2>1. pc[c] = "g_mark" /\ pc'[c] = "ready" /\ scan' = scan
    BY Zenon, <1>2, <1>9 DEF get_mark, Done
  <2>2. CurrKey(c, key) \in Key /\ Marker # NULL
    BY Zenon, <1>1, <2>1, KeyFacts, DataAssumption DEF TypeInv, UpdInv
  <2>3. db'[CurrKey(c, key)] # NULL
    BY Zenon, <1>9, <2>2 DEF get_mark, DataTyped, TypeInv, UpdInv
  <2> QED BY Zenon, <1>6, <2>1, <2>3 DEF Getting
<1>10. CASE get_read(c)
  <2> DEFINE ks == all_potential_keys(c, key)
             at == {i \in DOMAIN ks : db[ks[i]] # NULL}
             idx == CHOOSE i \in at : \A j \in at : i <= j
             new == Updated(c, key, db[ks[idx]], idx)
  <2>0. pc[c] = "g_read" /\ db' = db
    BY Zenon, <1>10 DEF get_read
  <2>1. CASE at = {} /\ Done(c) /\ scan' = scan
    <3>1. DOMAIN ks = 1..Len(vers_list(c)) /\ Len(vers_list(c)) \in Nat
      BY Zenon, <1>1, <2>0, KeyFacts, InUseFacts DEF TypeInv, UpdInv
    <3>2. \A i \in DOMAIN ks : db'[ks[i]] = NULL
      BY Zenon, <2>0, <2>1
    <3>3. \A x \in OldKeys(c, key) : \E i \in DOMAIN ks : x = ks[i]
      <4> HIDE DEF ks
      <4> QED BY <3>1 DEF OldKeys, ks
    <3>4. \A x \in OldKeys(c, key) : db'[x] = NULL
      <4> HIDE DEF ks
      <4> QED BY Zenon, <3>2, <3>3
    <3> QED BY Zenon, <1>2, <1>6, <2>0, <2>1, <3>4 DEF Done, Getting
  <2>2. CASE at # {} /\ idx = 1 /\ Done(c) /\ scan' = scan
    <3>1. at \subseteq Nat
      BY <1>1, <2>0, KeyFacts, InUseFacts DEF TypeInv, UpdInv
    <3>2. idx \in at
      <4> HIDE DEF at
      <4> QED BY Zenon, <2>2, <3>1, Least
    <3>3. db[CurrKey(c, key)] # NULL
      BY Zenon, <2>2, <3>2 DEF CurrKey
    <3> QED BY Zenon, <1>2, <1>6, <2>0, <2>2, <3>3 DEF Done, Getting
  <2>3. CASE Raise(c)
    BY Zenon, <1>2, <1>4, <2>3 DEF Raise
  <2>4. CASE Goto(c, "g_exec") /\ scan' = scan
             /\ job' = [job EXCEPT ![c] = [key |-> key, idx |-> idx, orig_val |-> db[ks[idx]], val |-> new]]
    <3> HIDE DEF idx, new, ks
    <3> QED BY Zenon, <1>2, <1>5, <2>0, <2>4 DEF Getting
  <2> QED BY Zenon, <1>10, <2>1, <2>2, <2>3, <2>4 DEF get_read
<1>11. CASE get_exec(c)
  <2>0. pc[c] = "g_exec"
    BY Zenon, <1>11 DEF get_exec
  <2>1. CASE Goto(c, "g_get") /\ job' = [job EXCEPT ![c] = [key |-> key]] /\ scan' = scan
    BY Zenon, <1>2, <1>5, <2>0, <2>1 DEF Getting
  <2>2. CASE Raise(c)
    BY Zenon, <1>2, <1>4, <2>2 DEF Raise
  <2>3. CASE /\ Moved(c) # NULL /\ Done(c) /\ scan' = scan
             /\ db' = [db EXCEPT ![orig_name(c)] = NULL, ![CurrKey(c, key)] = Moved(c)]
    <3>1. CurrKey(c, key) \in Key
      BY Zenon, <1>1, <2>0, KeyFacts DEF TypeInv, UpdInv
    <3>2. db'[CurrKey(c, key)] # NULL
      BY Zenon, <2>3, <3>1 DEF DataTyped, TypeInv, UpdInv
    <3> QED BY Zenon, <1>2, <1>6, <2>0, <2>3, <3>2 DEF Done, Getting
  <2> QED BY Zenon, <1>11, <2>1, <2>2, <2>3 DEF get_exec, Moved
<1>12. CASE set_del(c)
  <2>1. pc[c] = "s_del" /\ scan' = scan
    BY Zenon, <1>12 DEF set_del
  <2>2. scan[c] = NULL
    BY Zenon, <2>1 DEF ScanInv, Updating, Getting
  <2> QED BY Zenon, <1>4, <2>1, <2>2
<1>13. CASE scan_call(c)
  <2>1. PICK some \in SUBSET scan[c].unseen \ {{}} : scan_next(c, some)
    BY Zenon, <1>13 DEF scan_call
  <2>2. /\ pc[c] = "ready" /\ pc'[c] = "ready" /\ scan[c] # NULL /\ db' = db
        /\ scan'[c] = [unseen |-> scan[c].unseen \ some, batch |-> Outdated(c, some)]
        /\ scan[c].batch = {}
    BY Zenon, <1>2, <1>13, <2>1 DEF scan_call, scan_next, Scanning
  <2>3. Kept
    <3> SUFFICES ASSUME NEW k \in Suffix, NEW x \in OldKeys(c, k), db'[x] # NULL, Pending(c, k, x),
                        db'[CurrKey(c, k)] = NULL
                 PROVE  Pending(c, k, x)'
      BY Zenon
    <3>1. x[2] = k
      BY Zenon, <1>0
    <3>2. x \in scan[c].unseen
      BY Zenon, <2>2 DEF Pending, Getting
    <3>3. x \in some => x \in Outdated(c, some)
      BY Zenon, <2>2, <3>1 DEF Outdated, Present
    <3>4. scan'[c].unseen = scan[c].unseen \ some /\ scan'[c].batch = Outdated(c, some)
      <4>1. scan'[c] = [unseen |-> scan[c].unseen \ some, batch |-> Outdated(c, some)]
        BY Zenon, <2>2
      <4> QED BY <4>1
    <3> QED BY Zenon, <3>2, <3>3, <3>4 DEF Pending
  <2> HIDE DEF Kept
  <2> QED BY Zenon, <1>3, <2>2, <2>3
<1>14. ASSUME NEW x \in Key, scan_get(c, x) PROVE ScanInv(c)'
  <2>1. CASE scan' = [scan EXCEPT ![c] = NULL]
    BY Zenon, <1>2, <1>4, <2>1
  <2>2. CASE get(c, x[2]) /\ scan' = [scan EXCEPT ![c].batch = @ \ {x}]
    <3>1. pc[c] = "ready" /\ scan[c] # NULL /\ db' = db /\ x[2] \in Suffix
      BY Zenon, <1>14, <2>2 DEF scan_get, Scanning, get, Key
    <3>2. scan'[c].unseen = scan[c].unseen /\ scan'[c].batch = scan[c].batch \ {x}
      BY Zenon, <2>2, <3>1 DEF DataTyped, Scans, TypeInv, UpdInv
    <3>3. \/ pc'[c] = "ready" /\ db[CurrKey(c, x[2])] # NULL
          \/ pc'[c] = "g_mget" /\ job'[c].key = x[2]
      BY <1>2, <2>2 DEF get
    <3>4. Kept
      <4> SUFFICES ASSUME NEW k \in Suffix, NEW y \in OldKeys(c, k), db'[y] # NULL, Pending(c, k, y),
                          db'[CurrKey(c, k)] = NULL
                   PROVE  Pending(c, k, y)'
        BY Zenon
      <4>1. y[2] = k
        BY Zenon, <1>0
      <4>2. CASE y = x
        BY Zenon, <3>1, <3>3, <4>1, <4>2 DEF Pending, Getting
      <4>3. CASE y # x
        BY Zenon, <3>1, <3>2, <4>3 DEF Pending, Getting
      <4> QED BY Zenon, <4>2, <4>3
    <3> HIDE DEF Kept
    <3> QED BY Zenon, <1>3, <3>1, <3>3, <3>4 DEF Getting
  <2> QED BY Zenon, <1>14, <2>1, <2>2 DEF scan_get
<1>15. CASE scan_return(c)
  BY Zenon, <1>2, <1>4, <1>15 DEF scan_return
<1>16. CASE Call(c)
  <2>1. scan[c] = NULL /\ scan' = scan
    BY Zenon, <1>16 DEF Call, delete, set, set_flagged
  <2> QED BY Zenon, <1>4, <2>1
<1> QED BY Zenon, <1>7, <1>8, <1>9, <1>10, <1>11, <1>12, <1>13, <1>14, <1>15, <1>16 DEF Continue

\* The old versions a call will look at are keys of the store.
LEMMA OldKeysNext ==
    ASSUME Typed', NEW c \in Client, InUse(c)', NEW k \in Suffix
    PROVE  OldKeys(c, k)' \subseteq Key
<1> DEFINE h == CHOOSE n \in NS : ns_versions_dict'[c][n] # << >>
           l == ns_versions_dict'[c][h]
           N == Len(l)
<1>1. h \in NS
  BY Zenon DEF InUse
<1>2. Here(c)' = h /\ vers_list(c)' = l
  BY Zenon DEF Here, vers_list
<1> HIDE DEF h
<1>3. l \in Seq(Entry)
  BY Zenon, <1>1 DEF Typed
<1>4. N \in Nat /\ DOMAIN l = 1..N /\ \A i \in 1..N : l[i] \in Entry
  BY <1>3, ListFacts
<1> HIDE DEF l, N
<1>5. all_potential_keys(c, k)' = [i \in DOMAIN l |-> <<l[i], k>>] /\ Len(vers_list(c)') = N
  BY Zenon, <1>2 DEF all_potential_keys, N
<1>6. OldKeys(c, k)' = {<<l[i], k>> : i \in 2..N}
  BY <1>4, <1>5 DEF OldKeys
<1> QED BY <1>4, <1>6 DEF Key

\* do_upd_all_now starts with everything to see, and do_upd comes before the
\* first SCAN.
LEMMA VersionScanKept ==
    ASSUME TypeInv, NEW c \in Client, VersionStep(c) \/ UpdateAll(c) \/ stop(c), ScanInv(c)
    PROVE  ScanInv(c)'
<1>1. ASSUME NEW x, Goto(c, x) PROVE pc'[c] = x
  BY Zenon, <1>1, OwnState DEF TypeInv, UpdInv
<1>2. \A x : scan' = [scan EXCEPT ![c] = x] => scan'[c] = x
  BY Zenon DEF DataTyped, TypeInv, UpdInv
<1>3. ASSUME scan'[c] = NULL PROVE ScanInv(c)'
  BY Zenon, <1>3 DEF ScanInv
<1>4. UpdateStep(c) => pc[c] \in Updating \cup {"ready"} /\ pc'[c] \in Updating \cup {"ready"}
  BY Zenon, <1>1 DEF UpdateStep, do_upd, upd_hget, upd_watch, upd_read, upd_exec, upd_hset, upd_setname,
     kill_connected_clients_at, rename_exists, rename_watch, rename_read, rename_exec, Leave, Updating
<1>5. ConnectStep(c) => pc[c] \notin Updating \cup {"ready"} \cup Getting
  BY Zenon DEF ConnectStep, connect, connect_read, connect_exec, load_upd_tuples,
               connect_setname, Updating, Getting
<1>6. CASE stop(c)
  BY Zenon, <1>2, <1>3, <1>6 DEF stop
<1>7. CASE UpdateAll(c)
  <2>1. UpdateStep(c) /\ scan' = [scan EXCEPT ![c] = [unseen |-> Key, batch |-> {}]] /\ Goto(c, "u_hget")
    BY Zenon, <1>7 DEF UpdateAll, do_upd_all_now, UpdateStep, do_upd
  <2> QED BY Zenon, <1>1, <1>2, <2>1 DEF ScanInv, Updating
<1>8. CASE VersionStep(c)
  <2>1. CASE scan[c] = NULL
    <3>1. scan'[c] = NULL
      BY Zenon, <1>2, <1>8, <2>1 DEF VersionStep
    <3> QED BY Zenon, <1>3, <3>1
  <2>2. CASE scan[c] # NULL
    <3>1. pc[c] \in Updating /\ UpdateStep(c) /\ scan[c].unseen = Key
      BY Zenon, <1>4, <1>5, <1>8, <2>2 DEF VersionStep, Scanning, ScanInv
    <3>2. pc'[c] \in Updating \cup {"ready"}
      BY Zenon, <1>4, <3>1
    <3>3. CASE scan'[c] = NULL
      BY Zenon, <1>3, <3>3
    <3>4. CASE scan' = scan
      <4>1. pc'[c] \notin Updating => InUse(c)'
        BY Zenon, <3>2, LurStepTypes, <1>8 DEF ClientTyped, Updating, TypeInv, UpdInv
      <4>2. ASSUME NEW k \in Suffix, InUse(c)' PROVE ToDo(c, k)'
        <5>1. Typed'
          BY Zenon, LurStepTypes, <1>8 DEF TypeInv, UpdInv
        <5>2. OldKeys(c, k)' \subseteq Key
          BY Zenon, <4>2, <5>1, OldKeysNext
        <5> QED BY Zenon, <3>1, <3>4, <5>2 DEF ToDo, Pending
      <4> QED BY Zenon, <3>1, <3>2, <3>4, <4>1, <4>2 DEF ScanInv
    <3> QED BY Zenon, <1>2, <1>8, <3>3, <3>4 DEF VersionStep
  <2> QED BY Zenon, <2>1, <2>2
<1> QED BY Zenon, <1>6, <1>7, <1>8

\* Nobody is connected at the start.
LEMMA AllInvInit == LurInit => AllInv
<1> SUFFICES ASSUME LurInit, NEW c \in Client PROVE InStep(c) /\ ScanInv(c)
  BY Zenon DEF AllInv
<1>1. pc[c] = "off" /\ scan[c] = NULL
  BY Zenon DEF LurInit, VersionsInit
<1> QED BY Zenon, <1>1 DEF InStep, ScanInv, Updating, Serving, Getting

\* A step of a client, or one that changes nothing.
LEMMA AllInvStep ==
    ASSUME NoRenames, ~Live, CommitInv, AllPrograms, AllPrograms', AllInv, [LurNext]_lurVars
    PROVE  AllInv'
<1>1. TypeInv /\ OwnNames
  BY Zenon DEF CommitInv
<1>2. ASSUME NEW c \in Client, Step(c) PROVE AllInv'
  <2>1. \A d \in Client : InStep(d)'
    BY Zenon, <1>1, <1>2, InStepKept DEF AllInv
  <2>2. ScanInv(c)'
    BY Zenon, <1>1, <1>2, OwnScanKept, VersionScanKept DEF Step, AllInv
  <2>3. \A d \in Client \ {c} : ScanInv(d)'
    BY Zenon, <1>1, <1>2, OthersScan DEF AllInv
  <2> QED BY Zenon, <2>1, <2>2, <2>3 DEF AllInv
<1>3. CASE UNCHANGED lurVars
  <2> SUFFICES ASSUME NEW c \in Client PROVE InStep(c)' /\ ScanInv(c)'
    BY Zenon DEF AllInv
  <2>1. UNCHANGED <<UPDATE_VERSIONS, pc, job, ns_versions_dict, watched, db, scan>>
    BY Zenon, <1>3 DEF lurVars, versionVars, listVars, localVars, dataVars
  <2>2. Here(c)' = Here(c) /\ vers_list(c)' = vers_list(c)
    BY Zenon, <2>1 DEF Here, vers_list
  <2>3. \A k : all_potential_keys(c, k)' = all_potential_keys(c, k)
    BY Zenon, <2>2 DEF all_potential_keys
  <2>4. \A k : CurrKey(c, k)' = CurrKey(c, k) /\ OldKeys(c, k)' = OldKeys(c, k)
    BY <2>2, <2>3 DEF CurrKey, OldKeys
  <2>5. InStep(c)'
    BY Zenon, <2>1, <2>2 DEF AllInv, InStep
  <2>6. ScanInv(c)'
    BY <2>1, <2>4 DEF AllInv, ScanInv, ToDo, Pending
  <2> QED BY Zenon, <2>5, <2>6
<1> QED BY Zenon, <1>2, <1>3 DEF LurNext, Step

\* When the scan of do_upd_all_now has come to its end, every name that has a
\* value has it under the newest version, though other programs were getting,
\* setting and deleting in between, were killed or crashed, and though SCAN
\* returned the keys in any order.
THEOREM AllUpdatedTheorem ==
    ASSUME NoRenames, ~Live
    PROVE  LurSpec => []AllUpdated
<1>1. CommitInv /\ AllPrograms /\ AllPrograms' /\ AllInv /\ [LurNext]_lurVars => AllInv'
  BY Zenon, AllInvStep
<1>2. AllInv => AllUpdated
  <2> SUFFICES ASSUME AllInv, NEW c \in Client, Scanned(c), NEW k \in Suffix,
                      Present(OldKeys(c, k)) # {}
               PROVE  db[CurrKey(c, k)] # NULL
    BY Zenon DEF AllUpdated
  <2>1. pc[c] = "ready" /\ scan[c] # NULL /\ scan[c].unseen = {} /\ scan[c].batch = {}
    BY Zenon DEF Scanned, Scanning
  <2>2. ToDo(c, k)
    BY Zenon, <2>1 DEF AllInv, ScanInv, Updating
  <2>3. PICK x \in OldKeys(c, k) : db[x] # NULL
    BY Zenon DEF Present
  <2> QED BY Zenon, <2>1, <2>2, <2>3 DEF ToDo, Pending, Getting
<1>3. LurSpec => []CommitInv
  BY Zenon, CommitInvHolds
<1>4. LurSpec => []AllPrograms
  BY Zenon, ProgramsAtTop
<1> QED BY <1>1, <1>2, <1>3, <1>4, AllInvInit, PTL DEF LurSpec
=============================================================================
