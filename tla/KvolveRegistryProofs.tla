------------------------ MODULE KvolveRegistryProofs ------------------------
(***************************************************************************)
(* Proofs about the namespace registry, for every set of clients,          *)
(* namespaces, versions, declarations and updates.  Version histories are  *)
(* append only, versions and updates stay parallel, a renamed namespace    *)
(* shares the past of the one it came from, and renames form no cycle.     *)
(***************************************************************************)
EXTENDS KvolveTable, TLAPS

\* Append, as the histories use it.
LEMMA AppendFacts ==
    ASSUME NEW S, NEW s \in Seq(S), NEW e \in S
    PROVE  /\ Append(s, e) \in Seq(S) /\ Append(s, e) # << >>
           /\ Len(Append(s, e)) = Len(s) + 1 /\ Len(s) \in Nat
           /\ \A i \in 1..Len(s) : Append(s, e)[i] = s[i]
           /\ Append(s, e)[Len(s) + 1] = e
<1>1. Append(s, e) \in Seq(S) /\ Len(Append(s, e)) = Len(s) + 1 /\ Len(s) \in Nat
  OBVIOUS
<1>2. Append(s, e) # << >>
  <2>1. Len(<< >>) = 0
    BY Zenon
  <2> QED BY <1>1, <2>1
<1> QED BY <1>1, <1>2

\* What a processed entry of a declaration gives: the version chosen for a
\* named namespace is one the declaration gives it.
LEMMA VersionOfNamed ==
    ASSUME NEW d \in Declarations, NEW n \in {d[i].ns : i \in Processed(d)}
    PROVE  LET k == CHOOSE i \in Processed(d) : d[i].ns = n
           IN  /\ k \in Processed(d) /\ k \in DOMAIN d /\ k \in 1..Len(d)
               /\ d[k].ns = n /\ d[k].vers \in Vers /\ EntryAccepted(d, k)
<1> DEFINE k == CHOOSE i \in Processed(d) : d[i].ns = n
<1>1. d \in Seq([ns : NS, vers : Vers])
  BY Zenon, RegistryAssumption
<1>2. \E i \in Processed(d) : d[i].ns = n
  BY Zenon
<1>3. k \in Processed(d) /\ d[k].ns = n
  BY Zenon, <1>2
<1> HIDE DEF k
<1>4. k \in DOMAIN d /\ k \in 1..Len(d) /\ d[k] \in [ns : NS, vers : Vers]
  <2>1. k \in DOMAIN d
    BY Zenon, <1>3 DEF Processed
  <2> DEFINE Entries == [ns : NS, vers : Vers]
  <2>2. d \in Seq(Entries)
    BY Zenon, <1>1
  <2> HIDE DEF Entries
  <2>3. k \in 1..Len(d) /\ d[k] \in Entries
    BY <2>1, <2>2
  <2> QED BY Zenon, <2>1, <2>3 DEF Entries
<1>5. EntryAccepted(d, k)
  <2>1. \A j \in 1..k : EntryAccepted(d, j)
    BY Zenon, <1>3 DEF Processed
  <2> QED BY <2>1, <1>4
<1> QED BY Zenon, <1>3, <1>4, <1>5 DEF k

\* No step of the registry leaves a field without its type.
LEMMA TypeStep ==
    ASSUME RegistryTypeOK, [RegistryNext]_registryVars
    PROVE  RegistryTypeOK'
<1> USE DEF RegistryTypeOK
<1>1. ASSUME NEW c \in Client, connect(c) PROVE RegistryTypeOK'
  BY Zenon, <1>1 DEF connect, tableVars
<1>2. ASSUME NEW c \in Client, freeClient(c) PROVE RegistryTypeOK'
  BY Zenon, <1>2 DEF freeClient, tableVars
<1>3. ASSUME NEW c \in Client, NEW d \in Declarations, kvolve_check_version(c, d)
      PROVE  RegistryTypeOK'
  <2> DEFINE named == {d[i].ns : i \in Processed(d)}
             versOf(n) == d[CHOOSE i \in Processed(d) : d[i].ns = n].vers
  <2>1. \A n \in named : versOf(n) \in Vers
    BY VersionOfNamed, ZenonT(30)
  <2> HIDE DEF versOf
  <2>2. versions' \in [NS -> Seq(Vers)]
    <3>1. versions' = [n \in NS |-> IF n \in named /\ ~Registered(n)
                                    THEN <<versOf(n)>> ELSE versions[n]]
      BY <1>3 DEF kvolve_check_version, versOf
    <3>2. \A n \in named : <<versOf(n)>> \in Seq(Vers)
      BY <2>1
    <3> QED BY Zenon, <3>1, <3>2
  <2>3. info' \in [NS -> Seq(UpdInfo \cup {NULL})] /\ is' \in [NS -> SUBSET Client]
    <3>1. <<NULL>> \in Seq(UpdInfo \cup {NULL})
      OBVIOUS
    <3>2. info' \in [NS -> Seq(UpdInfo \cup {NULL})]
      BY Zenon, <1>3, <3>1 DEF kvolve_check_version
    <3>3. is' \in [NS -> SUBSET Client]
      BY Zenon, <1>3 DEF kvolve_check_version
    <3> QED BY Zenon, <3>2, <3>3
  <2>4. conn' \in [Client -> {"new", "open", "closed"}]
    BY Zenon, <1>3 DEF kvolve_check_version
  <2>5. declared' \in [Client -> [NS -> Vers \cup {NULL}]]
    BY Zenon, <1>3, <2>1 DEF kvolve_check_version, versOf
  <2> QED BY Zenon, <1>3, <2>2, <2>3, <2>4, <2>5 DEF kvolve_check_version
<1>4. ASSUME NEW c \in Client, NEW u \in Updates, upd_spec_new_ns(c, u)
      PROVE  RegistryTypeOK'
  <2>1. u \in UpdInfo /\ u.from_ns \in NS /\ u.to_ns \in NS /\ u.to_vers \in Vers
    BY Zenon, RegistryAssumption DEF UpdInfo
  <2>2. versions' \in [NS -> Seq(Vers)] /\ info' \in [NS -> Seq(UpdInfo \cup {NULL})]
    <3> DEFINE E == UpdInfo \cup {NULL}
    <3>1. Append(versions[u.from_ns], u.to_vers) \in Seq(Vers)
      BY <2>1
    <3>2. u \in E /\ info[u.from_ns] \in Seq(E) /\ info \in [NS -> Seq(E)]
      BY Zenon, <2>1
    <3> HIDE DEF E
    <3>3. Append(info[u.from_ns], u) \in Seq(E)
      BY <3>2
    <3>4. info' \in [NS -> Seq(E)]
      BY Zenon, <1>4, <2>1, <3>2, <3>3 DEF upd_spec_new_ns
    <3> QED BY Zenon, <1>4, <2>1, <3>1, <3>4 DEF upd_spec_new_ns, E
  <2>3. prev_ns' \in [NS -> NS \cup {NULL}] /\ next_ns' \in [NS -> NS \cup {NULL}]
    BY Zenon, <1>4, <2>1 DEF upd_spec_new_ns
  <2>4. is' \in [NS -> SUBSET Client] /\ conn' \in [Client -> {"new", "open", "closed"}]
    <3> DEFINE L == Lineage(u.from_ns)
    <3>1. PICK keep \in [L -> Client] :
             /\ is' = [IsAfterKill(c, L, keep) EXCEPT ![u.to_ns] = {c}]
             /\ conn' = ConnAfterKill(c, L, keep)
      BY Zenon, <1>4 DEF upd_spec_new_ns
    <3> HIDE DEF L
    <3>2. IsAfterKill(c, L, keep) \in [NS -> SUBSET Client]
      BY Zenon DEF IsAfterKill
    <3>3. ConnAfterKill(c, L, keep) \in [Client -> {"new", "open", "closed"}]
      BY Zenon DEF ConnAfterKill
    <3> QED BY Zenon, <2>1, <3>1, <3>2, <3>3
  <2>5. declared' \in [Client -> [NS -> Vers \cup {NULL}]]
    BY Zenon, <1>4, <2>1 DEF upd_spec_new_ns
  <2> QED BY Zenon, <2>2, <2>3, <2>4, <2>5
<1>5. ASSUME NEW c \in Client, NEW u \in Updates, upd_spec_same_ns(c, u)
      PROVE  RegistryTypeOK'
  <2>1. u \in UpdInfo /\ u.from_ns \in NS /\ u.to_ns \in NS /\ u.to_vers \in Vers
    BY Zenon, RegistryAssumption DEF UpdInfo
  <2>2. versions' \in [NS -> Seq(Vers)] /\ info' \in [NS -> Seq(UpdInfo \cup {NULL})]
    <3> DEFINE E == UpdInfo \cup {NULL}
    <3>1. Append(versions[u.to_ns], u.to_vers) \in Seq(Vers)
      BY <2>1
    <3>2. u \in E /\ info[u.to_ns] \in Seq(E) /\ info \in [NS -> Seq(E)]
      BY Zenon, <2>1
    <3> HIDE DEF E
    <3>3. Append(info[u.to_ns], u) \in Seq(E)
      BY <3>2
    <3>4. info' \in [NS -> Seq(E)]
      BY Zenon, <1>5, <2>1, <3>2, <3>3 DEF upd_spec_same_ns
    <3> QED BY Zenon, <1>5, <2>1, <3>1, <3>4 DEF upd_spec_same_ns, E
  <2>4. is' \in [NS -> SUBSET Client] /\ conn' \in [Client -> {"new", "open", "closed"}]
    <3> DEFINE L == Lineage(u.to_ns)
    <3>1. PICK keep \in [L -> Client] :
             /\ is' = [IsAfterKill(c, L, keep) EXCEPT ![u.to_ns] = @ \cup {c}]
             /\ conn' = ConnAfterKill(c, L, keep)
      BY Zenon, <1>5 DEF upd_spec_same_ns
    <3> HIDE DEF L
    <3>2. IsAfterKill(c, L, keep) \in [NS -> SUBSET Client]
      BY Zenon DEF IsAfterKill
    <3>3. ConnAfterKill(c, L, keep) \in [Client -> {"new", "open", "closed"}]
      BY Zenon DEF ConnAfterKill
    <3> QED BY Zenon, <2>1, <3>1, <3>2, <3>3
  <2>5. declared' \in [Client -> [NS -> Vers \cup {NULL}]]
    BY Zenon, <1>5, <2>1 DEF upd_spec_same_ns
  <2> QED BY Zenon, <1>5, <2>2, <2>4, <2>5 DEF upd_spec_same_ns
<1>6. ASSUME NEW c \in Client, NEW u \in Updates, upd_spec_rejected(c, u)
      PROVE  RegistryTypeOK'
  BY Zenon, <1>6 DEF upd_spec_rejected, registryVars
<1>7. CASE UNCHANGED registryVars
  BY Zenon, <1>7 DEF registryVars
<1> QED
  BY Zenon, <1>1, <1>2, <1>3, <1>4, <1>5, <1>6, <1>7 DEF RegistryNext, kvolve_load_update

\* Every field of the registry keeps its type.
THEOREM TypeCorrect == RegistrySpec => []RegistryTypeOK
<1>1. RegistryInit => RegistryTypeOK
  BY RegistryAssumption DEF RegistryInit, RegistryTypeOK
<1>2. RegistryTypeOK /\ [RegistryNext]_registryVars => RegistryTypeOK'
  BY Zenon, TypeStep
<1> QED
  BY <1>1, <1>2, PTL DEF RegistrySpec

-----------------------------------------------------------------------------
(* The clients left by an update *)

\* The kill loop: whoever is still open is still in the sets it was in, at
\* most one member of each namespace of L is left, and it is the caller if
\* the caller was a member.
LEMMA KillLoop ==
    ASSUME RegistryTypeOK, NEW c \in Client, NEW L \in SUBSET NS, NEW keep
    PROVE  /\ \A x \in Client, n \in NS :
                ConnAfterKill(c, L, keep)[x] = "open" =>
                  /\ conn[x] = "open"
                  /\ x \in is[n] => x \in IsAfterKill(c, L, keep)[n]
           /\ \A n \in L : \A x, y \in IsAfterKill(c, L, keep)[n] : x = y
           /\ \A n \in L : c \in is[n] => IsAfterKill(c, L, keep)[n] = {c}
<1>1. ASSUME NEW x \in Client, NEW n \in NS, ConnAfterKill(c, L, keep)[x] = "open"
      PROVE  conn[x] = "open" /\ (x \in is[n] => x \in IsAfterKill(c, L, keep)[n])
  <2>1. conn[x] = "open" /\ x \notin Killed(c, L, keep)
    BY Zenon, <1>1 DEF ConnAfterKill, RegistryTypeOK
  <2>2. n \notin L => IsAfterKill(c, L, keep)[n] = is[n]
    BY Zenon DEF IsAfterKill
  <2> QED BY <2>1, <2>2 DEF Killed
<1>2. \A n \in L : \A x, y \in IsAfterKill(c, L, keep)[n] : x = y
  BY Zenon DEF IsAfterKill
<1>3. \A n \in L : c \in is[n] => IsAfterKill(c, L, keep)[n] = {c}
  BY Zenon DEF IsAfterKill
<1> QED BY Zenon, <1>1, <1>2, <1>3

\* The walk along prev_ns of kvolve_upd_spec starts at the namespace itself
\* and stays among the namespaces.
LEMMA LineageFacts ==
    ASSUME NEW n \in NS
    PROVE  n \in Lineage(n) /\ Lineage(n) \in SUBSET NS
BY Zenon DEF Lineage

\* What an accepted update knows of its two names.
LEMMA UpdateFacts ==
    ASSUME NEW u \in Updates
    PROVE  u \in UpdInfo /\ u.from_ns \in NS /\ u.to_ns \in NS
           /\ u.from_vers \in Vers /\ u.to_vers \in Vers /\ u # NULL
BY Zenon, RegistryAssumption DEF UpdInfo

\* The invariant that carries AtMostOneStale: typing, and every open client
\* being where the kill loop looks for it.
StaleInv == RegistryTypeOK /\ TableConsistent /\ AtMostOneStale

\* An update that renames a namespace (kvolve_upd_spec, from_ns # to_ns) keeps
\* the invariant: the loop leaves at most one client under the old name.
LEMMA StaleInvNewNs ==
    ASSUME StaleInv, RegistryTypeOK', NEW c \in Client, NEW u \in Updates, upd_spec_new_ns(c, u)
    PROVE  TableConsistent' /\ AtMostOneStale'
<1> DEFINE L == Lineage(u.from_ns)
           f == u.from_ns
           t == u.to_ns
<1>1. f \in NS /\ t \in NS /\ f # t /\ u.to_vers \in Vers /\ u.to_vers # NULL
  BY Zenon, UpdateFacts, RegistryAssumption DEF upd_spec_new_ns
<1>2. Registered(f) /\ ~Registered(t)
  BY Zenon DEF upd_spec_new_ns, upd_spec_accepts
<1>3. f \in L /\ L \in SUBSET NS
  BY Zenon, <1>1, LineageFacts
<1> HIDE DEF L
<1>4. PICK keep :
        /\ is' = [IsAfterKill(c, L, keep) EXCEPT ![t] = {c}]
        /\ conn' = ConnAfterKill(c, L, keep)
  BY Zenon DEF upd_spec_new_ns, L
<1>5. /\ \A x \in Client, n \in NS :
            conn'[x] = "open" => conn[x] = "open" /\ (x \in is[n] => x \in IsAfterKill(c, L, keep)[n])
      /\ \A n \in L : \A x, y \in IsAfterKill(c, L, keep)[n] : x = y
  BY Zenon, <1>3, <1>4, KillLoop DEF StaleInv
<1>6. \A n \in NS : n # t => is'[n] = IsAfterKill(c, L, keep)[n]
  BY Zenon, <1>4 DEF IsAfterKill
<1>7. is'[t] = {c}
  BY Zenon, <1>1, <1>4 DEF IsAfterKill
<1>8. \A n \in NS : n # t => versions'[n] = versions[n] /\ prev_ns'[n] = prev_ns[n]
  BY DEF upd_spec_new_ns, StaleInv, RegistryTypeOK
<1>9. \A n \in NS : n # f => next_ns'[n] = next_ns[n]
  BY DEF upd_spec_new_ns, StaleInv, RegistryTypeOK
<1>10. versions'[t] = Append(versions[f], u.to_vers) /\ versions[f] \in Seq(Vers)
  BY Zenon, <1>1 DEF upd_spec_new_ns, StaleInv, RegistryTypeOK
<1>11. versions'[t] # << >>
  BY <1>1, <1>10
<1>12. \A x \in Client, n \in NS :
          /\ x # c => declared'[x][n] = declared[x][n]
          /\ n # t /\ declared'[x][n] # NULL => declared'[x][n] = declared[x][n]
          /\ n = f /\ declared'[x][n] # NULL => declared[x][n] # NULL
  <2>1. declared \in [Client -> [NS -> Vers \cup {NULL}]]
    BY Zenon DEF StaleInv, RegistryTypeOK
  <2>2. declared' = IF declared[c][f] = NULL THEN declared
                    ELSE [declared EXCEPT ![c] = [@ EXCEPT ![f] = NULL, ![t] = u.to_vers]]
    BY Zenon DEF upd_spec_new_ns
  <2> QED BY Zenon, <1>1, <2>1, <2>2
<1>13. \A x \in Client : conn[x] = "open" => declared[x][t] = NULL
  BY Zenon, <1>1, <1>2 DEF StaleInv, TableConsistent
<1>14. TableConsistent'
  <2>1. ASSUME NEW x \in Client, NEW n \in NS, conn'[x] = "open", declared'[x][n] # NULL
        PROVE  x \in is'[n] /\ Registered(n)'
    <3>1. CASE n = t
      BY <2>1, <3>1, <1>5, <1>7, <1>11, <1>12, <1>13 DEF Registered
    <3>2. CASE n # t
      BY <2>1, <3>2, <1>5, <1>6, <1>8, <1>12 DEF StaleInv, TableConsistent, Registered
    <3> QED BY Zenon, <3>1, <3>2
  <2>2. ASSUME NEW n \in NS, ~Registered(n)'
        PROVE  prev_ns'[n] = NULL /\ next_ns'[n] = NULL
    <3>1. n # t /\ n # f
      BY Zenon, <2>2, <1>1, <1>2, <1>8, <1>11 DEF Registered
    <3> QED BY Zenon, <2>2, <3>1, <1>8, <1>9 DEF StaleInv, TableConsistent, Registered
  <2>3. ASSUME NEW x \in Client, NEW n \in NS, conn'[x] = "new" PROVE declared'[x][n] = NULL
    <3>1. conn[x] = "new"
      BY Zenon, <2>3, <1>4 DEF ConnAfterKill
    <3>2. x # c
      BY Zenon, <3>1 DEF upd_spec_new_ns
    <3> QED BY Zenon, <3>1, <3>2, <1>12 DEF StaleInv, TableConsistent
  <2> QED BY Zenon, <2>1, <2>2, <2>3 DEF TableConsistent
<1>15. AtMostOneStale'
  <2> SUFFICES ASSUME NEW n \in NS, NEW x \in Client, NEW y \in Client, Stale(x, n)', Stale(y, n)'
               PROVE  x = y
    BY Zenon DEF AtMostOneStale
  <2>1. conn'[x] = "open" /\ conn'[y] = "open" /\ declared'[x][n] # NULL /\ declared'[y][n] # NULL
    BY Zenon DEF Stale
  <2>2. CASE n = t
    BY <2>1, <2>2, <1>5, <1>12, <1>13
  <2>3. CASE n # t /\ n \in L
    BY <2>1, <2>3, <1>5, <1>12 DEF StaleInv, TableConsistent
  <2>4. CASE n # t /\ n \notin L
    <3>1. n # f /\ Latest(n)' = Latest(n) /\ next_ns'[n] = next_ns[n]
      BY Zenon, <2>4, <1>3, <1>8, <1>9 DEF Latest
    <3>2. Stale(x, n) /\ Stale(y, n)
      BY <2>1, <2>4, <3>1, <1>5, <1>12 DEF Stale
    <3> QED BY Zenon, <3>2 DEF StaleInv, AtMostOneStale
  <2> QED BY Zenon, <2>2, <2>3, <2>4
<1> QED BY Zenon, <1>14, <1>15

\* So does an update within a namespace, whether or not there was room for
\* the version.
LEMMA StaleInvSameNs ==
    ASSUME StaleInv, RegistryTypeOK', NEW c \in Client, NEW u \in Updates, upd_spec_same_ns(c, u)
    PROVE  TableConsistent' /\ AtMostOneStale'
<1> DEFINE t == u.to_ns
           L == Lineage(t)
<1>1. t \in NS /\ u.to_vers \in Vers /\ u.to_vers # NULL
  BY Zenon, UpdateFacts, RegistryAssumption
<1>2. t \in L /\ L \in SUBSET NS
  BY Zenon, <1>1, LineageFacts
<1> HIDE DEF L
<1>3. PICK keep :
        /\ is' = [IsAfterKill(c, L, keep) EXCEPT ![t] = @ \cup {c}]
        /\ conn' = ConnAfterKill(c, L, keep)
  BY Zenon DEF upd_spec_same_ns, L
<1>4. /\ \A x \in Client, n \in NS :
            conn'[x] = "open" => conn[x] = "open" /\ (x \in is[n] => x \in IsAfterKill(c, L, keep)[n])
      /\ \A n \in L : \A x, y \in IsAfterKill(c, L, keep)[n] : x = y
  BY Zenon, <1>2, <1>3, KillLoop DEF StaleInv
<1>5. \A n \in NS : IsAfterKill(c, L, keep)[n] \subseteq is'[n]
  BY Zenon, <1>3 DEF IsAfterKill
<1>6. \A n \in NS : n # t => versions'[n] = versions[n]
  BY Zenon DEF upd_spec_same_ns, StaleInv, RegistryTypeOK
<1>7. prev_ns' = prev_ns /\ next_ns' = next_ns
  BY Zenon DEF upd_spec_same_ns
<1>8. versions[t] # << >> /\ versions'[t] # << >>
  <2>1. versions[t] # << >>
    BY Zenon DEF upd_spec_same_ns, upd_spec_accepts, Registered
  <2>2. Append(versions[t], u.to_vers) # << >>
    <3>1. versions[t] \in Seq(Vers)
      BY Zenon, <1>1 DEF StaleInv, RegistryTypeOK
    <3> QED BY <3>1, <1>1, AppendFacts
  <2>3. versions'[t] = versions[t] \/ versions'[t] = Append(versions[t], u.to_vers)
    BY Zenon, <1>1 DEF upd_spec_same_ns, StaleInv, RegistryTypeOK
  <2> QED BY Zenon, <2>1, <2>2, <2>3
<1>9. \A x \in Client, n \in NS :
         /\ n # t => declared'[x][n] = declared[x][n]
         /\ declared'[x][n] # NULL => declared[x][n] # NULL
  <2>1. declared \in [Client -> [NS -> Vers \cup {NULL}]]
    BY Zenon DEF StaleInv, RegistryTypeOK
  <2>2. \/ declared' = declared
        \/ /\ declared[c][t] # NULL
           /\ declared' = [declared EXCEPT ![c] = [@ EXCEPT ![t] = u.to_vers]]
    BY Zenon DEF upd_spec_same_ns
  <2> QED BY <1>1, <2>1, <2>2
<1>10. TableConsistent'
  <2>1. ASSUME NEW x \in Client, NEW n \in NS, conn'[x] = "open", declared'[x][n] # NULL
        PROVE  x \in is'[n] /\ Registered(n)'
    <3>1. x \in is[n] /\ Registered(n) /\ conn[x] = "open"
      BY Zenon, <2>1, <1>4, <1>9 DEF StaleInv, TableConsistent
    <3>2. CASE n = t
      BY Zenon, <2>1, <3>1, <3>2, <1>4, <1>5, <1>8 DEF Registered
    <3>3. CASE n # t
      BY Zenon, <2>1, <3>1, <3>3, <1>4, <1>5, <1>6 DEF Registered
    <3> QED BY Zenon, <3>2, <3>3
  <2>2. ASSUME NEW n \in NS, ~Registered(n)'
        PROVE  prev_ns'[n] = NULL /\ next_ns'[n] = NULL
    BY Zenon, <2>2, <1>6, <1>7, <1>8 DEF StaleInv, TableConsistent, Registered
  <2>3. ASSUME NEW x \in Client, NEW n \in NS, conn'[x] = "new" PROVE declared'[x][n] = NULL
    <3>1. conn[x] = "new"
      BY Zenon, <2>3, <1>3 DEF ConnAfterKill
    <3> QED BY Zenon, <3>1, <1>9 DEF StaleInv, TableConsistent
  <2> QED BY Zenon, <2>1, <2>2, <2>3 DEF TableConsistent
<1>11. AtMostOneStale'
  <2> SUFFICES ASSUME NEW n \in NS, NEW x \in Client, NEW y \in Client, Stale(x, n)', Stale(y, n)'
               PROVE  x = y
    BY Zenon DEF AtMostOneStale
  <2>1. conn'[x] = "open" /\ conn'[y] = "open" /\ declared'[x][n] # NULL /\ declared'[y][n] # NULL
    BY Zenon DEF Stale
  <2>2. CASE n \in L
    BY <2>1, <2>2, <1>4, <1>9 DEF StaleInv, TableConsistent
  <2>3. CASE n \notin L
    <3>1. n # t /\ Latest(n)' = Latest(n)
      BY Zenon, <2>3, <1>2, <1>6 DEF Latest
    <3>2. Stale(x, n) /\ Stale(y, n)
      BY <2>1, <3>1, <1>4, <1>7, <1>9 DEF Stale
    <3> QED BY Zenon, <3>2 DEF StaleInv, AtMostOneStale
  <2> QED BY Zenon, <2>2, <2>3
<1> QED BY Zenon, <1>10, <1>11

\* So does kvolve_check_version, which admits a client only at the current
\* version of a name in use: it makes no client stale.
LEMMA StaleInvSetname ==
    ASSUME StaleInv, RegistryTypeOK', NEW c \in Client, NEW d \in Declarations,
           kvolve_check_version(c, d)
    PROVE  /\ TableConsistent' /\ AtMostOneStale'
           /\ \A n \in NS, x \in Client : Stale(x, n)' => Stale(x, n)
<1> DEFINE named == {d[i].ns : i \in Processed(d)}
           versOf(n) == d[CHOOSE i \in Processed(d) : d[i].ns = n].vers
<1>1. \A n \in named : versOf(n) \in Vers
                      /\ (Registered(n) => Latest(n) = versOf(n) /\ next_ns[n] = NULL)
  <2> SUFFICES ASSUME NEW n \in named
               PROVE  /\ versOf(n) \in Vers
                      /\ Registered(n) => Latest(n) = versOf(n) /\ next_ns[n] = NULL
    BY Zenon
  <2> DEFINE k == CHOOSE i \in Processed(d) : d[i].ns = n
  <2>1. d[k].ns = n /\ d[k].vers \in Vers /\ EntryAccepted(d, k)
    BY Zenon, VersionOfNamed
  <2> HIDE DEF k
  <2>2. Registered(n) => Latest(n) = d[k].vers /\ next_ns[n] = NULL
    BY Zenon, <2>1 DEF EntryAccepted
  <2> QED BY Zenon, <2>1, <2>2 DEF k
<1> HIDE DEF versOf
<1>2. \A n \in NS : /\ n \in named /\ ~Registered(n) => versions'[n] = <<versOf(n)>>
                    /\ ~(n \in named /\ ~Registered(n)) => versions'[n] = versions[n]
                    /\ n \in named => c \in is'[n]
                    /\ is[n] \subseteq is'[n]
  BY Zenon DEF kvolve_check_version, versOf
<1>3. prev_ns' = prev_ns /\ next_ns' = next_ns
  BY Zenon DEF kvolve_check_version
<1>4. \A x \in Client, n \in NS :
         /\ conn'[x] = "open" => conn[x] = "open"
         /\ x # c \/ n \notin named => declared'[x][n] = declared[x][n]
  BY Zenon DEF kvolve_check_version, StaleInv, RegistryTypeOK
<1>5. conn'[c] = "open" => \A n \in NS : n \in named => declared'[c][n] = versOf(n)
  BY Zenon DEF kvolve_check_version, versOf, StaleInv, RegistryTypeOK
<1> HIDE DEF named
<1>6. \A n \in NS : Registered(n) \/ n \in named => Registered(n)'
  BY <1>2 DEF Registered
<1>7. TableConsistent'
  <2>1. ASSUME NEW x \in Client, NEW n \in NS, conn'[x] = "open", declared'[x][n] # NULL
        PROVE  x \in is'[n] /\ Registered(n)'
    BY <2>1, <1>2, <1>4, <1>6 DEF StaleInv, TableConsistent
  <2>2. ASSUME NEW n \in NS, ~Registered(n)'
        PROVE  prev_ns'[n] = NULL /\ next_ns'[n] = NULL
    BY Zenon, <2>2, <1>3, <1>6 DEF StaleInv, TableConsistent
  <2>3. ASSUME NEW x \in Client, NEW n \in NS, conn'[x] = "new" PROVE declared'[x][n] = NULL
    <3>1. conn[x] = "new" /\ x # c
      BY Zenon, <2>3 DEF kvolve_check_version, StaleInv, RegistryTypeOK
    <3> QED BY <3>1, <1>4 DEF StaleInv, TableConsistent
  <2> QED BY Zenon, <2>1, <2>2, <2>3 DEF TableConsistent
<1>8. ASSUME NEW n \in NS, NEW x \in Client, Stale(x, n)' PROVE Stale(x, n)
  <2>1. conn'[x] = "open" /\ declared'[x][n] # NULL
        /\ (declared'[x][n] # Latest(n)' \/ next_ns[n] # NULL)
    BY Zenon, <1>3, <1>8 DEF Stale
  <2>2. ~(x = c /\ n \in named)
    <3> SUFFICES ASSUME x = c, n \in named PROVE FALSE
      BY Zenon
    <3>1. declared'[x][n] = versOf(n)
      BY Zenon, <1>5, <2>1
    <3>2. CASE Registered(n)
      BY Zenon, <3>1, <3>2, <2>1, <1>1, <1>2 DEF Latest
    <3>3. CASE ~Registered(n)
      <4>1. versions'[n] = <<versOf(n)>> /\ next_ns[n] = NULL
        BY Zenon, <3>3, <1>2 DEF StaleInv, TableConsistent
      <4>2. Latest(n)' = versOf(n)
        BY <4>1 DEF Latest
      <4> QED BY Zenon, <4>1, <4>2, <3>1, <2>1
    <3> QED BY Zenon, <3>2, <3>3
  <2>3. declared[x][n] = declared'[x][n] /\ conn[x] = "open"
    BY Zenon, <2>1, <2>2, <1>4
  <2>4. Registered(n)
    BY Zenon, <2>1, <2>3 DEF StaleInv, TableConsistent
  <2>5. Latest(n)' = Latest(n)
    BY Zenon, <2>4, <1>2 DEF Latest
  <2> QED BY Zenon, <2>1, <2>3, <2>5 DEF Stale
<1>9. AtMostOneStale'
  BY Zenon, <1>8 DEF AtMostOneStale, StaleInv
<1> QED BY Zenon, <1>7, <1>8, <1>9

\* No step of the registry loses sight of a client or leaves a second one behind.
LEMMA StaleStep ==
    ASSUME StaleInv, RegistryTypeOK', [RegistryNext]_registryVars
    PROVE  TableConsistent' /\ AtMostOneStale'
<1>1. ASSUME NEW c \in Client, connect(c) PROVE TableConsistent' /\ AtMostOneStale'
  BY <1>1 DEF connect, tableVars, StaleInv, RegistryTypeOK, TableConsistent, AtMostOneStale,
              Stale, Registered, Latest
<1>2. ASSUME NEW c \in Client, freeClient(c) PROVE TableConsistent' /\ AtMostOneStale'
  BY <1>2 DEF freeClient, tableVars, StaleInv, RegistryTypeOK, TableConsistent, AtMostOneStale,
              Stale, Registered, Latest
<1>3. CASE UNCHANGED registryVars
  BY <1>3 DEF registryVars, StaleInv, TableConsistent, AtMostOneStale, Stale, Registered, Latest
<1>4. ASSUME NEW c \in Client, NEW u \in Updates, upd_spec_rejected(c, u)
      PROVE  TableConsistent' /\ AtMostOneStale'
  BY Zenon, <1>3, <1>4 DEF upd_spec_rejected
<1> QED
  BY Zenon, <1>1, <1>2, <1>3, <1>4, StaleInvNewNs, StaleInvSameNs, StaleInvSetname
     DEF RegistryNext, kvolve_load_update

\* The loop of kvolve_upd_spec, together with the checks of
\* kvolve_check_version, never leaves two clients of a namespace behind.
THEOREM AtMostOneStaleTheorem == RegistrySpec => [](TableConsistent /\ AtMostOneStale)
<1>1. RegistryInit => TableConsistent /\ AtMostOneStale
  BY DEF RegistryInit, TableConsistent, AtMostOneStale, Stale
<1>2. StaleInv /\ RegistryTypeOK' /\ [RegistryNext]_registryVars
      => TableConsistent' /\ AtMostOneStale'
  BY Zenon, StaleStep
<1> QED
  BY <1>1, <1>2, TypeCorrect, PTL DEF RegistrySpec, StaleInv

\* Clients are where the kill loop looks for them, and names not in the table
\* are linked to nothing, through every connection, declaration and update.
THEOREM Consistent == RegistrySpec => []TableConsistent
BY AtMostOneStaleTheorem, PTL

\* An update loaded by a program that uses the namespace (kvolve_upd_spec with a
\* caller in from_ns) makes no client stale: the loop closes all others of the
\* namespace, and the caller goes on at the new version.
LEMMA MemberUpdateStale ==
    ASSUME RegistryTypeOK, TableConsistent, NoStaleClient, NEW c \in Client, NEW u \in Updates,
           kvolve_load_update(c, u), upd_spec_accepts(u) => declared[c][u.from_ns] # NULL
    PROVE  NoStaleClient'
<1> DEFINE f == u.from_ns
           t == u.to_ns
           L == Lineage(f)
<1>1. f \in NS /\ t \in NS /\ u.to_vers \in Vers /\ u.to_vers # NULL /\ f \in L /\ L \in SUBSET NS
  BY Zenon, UpdateFacts, LineageFacts, RegistryAssumption
<1>2. CASE upd_spec_rejected(c, u)
  BY Zenon, <1>2 DEF upd_spec_rejected, registryVars, NoStaleClient, Stale, Latest
<1>3. ASSUME upd_spec_accepts(u), conn[c] = "open", NEW keep, conn' = ConnAfterKill(c, L, keep)
      PROVE  /\ declared[c][f] # NULL /\ Latest(f) = declared[c][f] /\ next_ns[f] = NULL
             /\ \A x \in Client : conn'[x] = "open" =>
                   conn[x] = "open" /\ (declared[x][f] # NULL => x = c)
  <2>1. declared[c][f] # NULL /\ c \in is[f]
    BY Zenon, <1>1, <1>3 DEF TableConsistent
  <2>2. Latest(f) = declared[c][f] /\ next_ns[f] = NULL
    BY Zenon, <1>1, <1>3, <2>1 DEF NoStaleClient, Stale
  <2> HIDE DEF L
  <2>3. ASSUME NEW x \in Client, conn'[x] = "open"
        PROVE  conn[x] = "open" /\ (declared[x][f] # NULL => x = c)
    <3> HIDE DEF f
    <3>1. ConnAfterKill(c, L, keep)[x] = "open"
      BY Zenon, <1>3, <2>3
    <3>2. conn[x] = "open" /\ (x \in is[f] => x \in IsAfterKill(c, L, keep)[f])
      BY <1>1, <3>1, KillLoop, ZenonT(30)
    <3>3. IsAfterKill(c, L, keep)[f] = {c}
      BY <1>1, <2>1, KillLoop
    <3> QED BY Zenon, <1>1, <3>2, <3>3 DEF TableConsistent
  <2> QED BY Zenon, <2>1, <2>2, <2>3
<1>4. CASE upd_spec_new_ns(c, u)
  <2>1. upd_spec_accepts(u) /\ conn[c] = "open" /\ f # t /\ Registered(f) /\ ~Registered(t)
    BY Zenon, <1>4 DEF upd_spec_new_ns, upd_spec_accepts
  <2>2. PICK keep : conn' = ConnAfterKill(c, L, keep)
    BY Zenon, <1>4 DEF upd_spec_new_ns
  <2>3. /\ declared[c][f] # NULL /\ next_ns[f] = NULL
        /\ \A x \in Client : conn'[x] = "open" =>
              conn[x] = "open" /\ (declared[x][f] # NULL => x = c)
    BY Zenon, <1>3, <2>1, <2>2
  <2>4. declared' = [declared EXCEPT ![c] = [@ EXCEPT ![f] = NULL, ![t] = u.to_vers]]
    BY Zenon, <1>4, <2>3 DEF upd_spec_new_ns
  <2>5. \A n \in NS : /\ n # t => versions'[n] = versions[n]
                      /\ n # f => next_ns'[n] = next_ns[n]
    BY Zenon, <1>4 DEF upd_spec_new_ns, RegistryTypeOK
  <2>6. Latest(t)' = u.to_vers /\ next_ns'[t] = NULL
    <3>1. versions'[t] = Append(versions[f], u.to_vers) /\ versions[f] \in Seq(Vers)
      BY Zenon, <1>1, <1>4 DEF upd_spec_new_ns, RegistryTypeOK
    <3>2. Latest(t)' = u.to_vers
      BY <1>1, <3>1, AppendFacts DEF Latest
    <3> QED BY Zenon, <1>1, <2>1, <2>5, <3>2 DEF TableConsistent
  <2>7. ASSUME NEW x \in Client, NEW n \in NS, Stale(x, n)' PROVE FALSE
    <3>1. conn'[x] = "open" /\ declared'[x][n] # NULL
          /\ (declared'[x][n] # Latest(n)' \/ next_ns'[n] # NULL) /\ conn[x] = "open"
      BY Zenon, <2>3, <2>7 DEF Stale
    <3>2. declared \in [Client -> [NS -> Vers \cup {NULL}]]
      BY Zenon DEF RegistryTypeOK
    <3>3. CASE n = t
      <4>1. x = c
        BY Zenon, <1>1, <2>1, <2>4, <3>1, <3>2, <3>3 DEF TableConsistent
      <4>2. declared'[x][n] = u.to_vers
        BY Zenon, <1>1, <2>4, <3>2, <3>3, <4>1
      <4> QED BY Zenon, <2>6, <3>1, <3>3, <4>2
    <3>4. CASE n = f
      <4>1. x # c
        BY Zenon, <1>1, <2>1, <2>4, <3>1, <3>2, <3>4
      <4> QED BY Zenon, <1>1, <2>3, <2>4, <3>1, <3>2, <3>4, <4>1
    <3>5. CASE n # t /\ n # f
      <4>1. declared'[x][n] = declared[x][n]
        BY Zenon, <1>1, <2>4, <3>2, <3>5
      <4> QED BY <2>5, <3>1, <3>5, <4>1 DEF NoStaleClient, Stale, Latest
    <3> QED BY Zenon, <3>3, <3>4, <3>5
  <2> QED BY Zenon, <2>7 DEF NoStaleClient
<1>5. CASE upd_spec_same_ns(c, u)
  <2>1. upd_spec_accepts(u) /\ conn[c] = "open" /\ f = t
    BY Zenon, <1>5 DEF upd_spec_same_ns
  <2>2. PICK keep : conn' = ConnAfterKill(c, L, keep)
    BY Zenon, <1>5, <2>1 DEF upd_spec_same_ns
  <2>3. /\ declared[c][f] # NULL /\ Latest(f) = declared[c][f] /\ next_ns[f] = NULL
        /\ \A x \in Client : conn'[x] = "open" =>
              conn[x] = "open" /\ (declared[x][f] # NULL => x = c)
    BY Zenon, <1>3, <2>1, <2>2
  <2>4. next_ns' = next_ns /\ \A n \in NS : n # f => versions'[n] = versions[n]
    BY Zenon, <1>5, <2>1 DEF upd_spec_same_ns, RegistryTypeOK
  <2>5. \/ versions' = versions /\ declared' = declared
        \/ /\ versions' = [versions EXCEPT ![f] = Append(@, u.to_vers)]
           /\ declared' = [declared EXCEPT ![c] = [@ EXCEPT ![f] = u.to_vers]]
    BY Zenon, <1>5, <2>1, <2>3 DEF upd_spec_same_ns
  <2>6. declared'[c][f] = Latest(f)'
    <3>1. CASE versions' = versions /\ declared' = declared
      BY Zenon, <2>3, <3>1 DEF Latest
    <3>2. CASE /\ versions' = [versions EXCEPT ![f] = Append(@, u.to_vers)]
               /\ declared' = [declared EXCEPT ![c] = [@ EXCEPT ![f] = u.to_vers]]
      <4>1. versions'[f] = Append(versions[f], u.to_vers) /\ versions[f] \in Seq(Vers)
        BY Zenon, <1>1, <3>2 DEF RegistryTypeOK
      <4>2. Latest(f)' = u.to_vers
        BY <1>1, <4>1, AppendFacts DEF Latest
      <4>3. declared'[c][f] = u.to_vers
        BY Zenon, <1>1, <3>2 DEF RegistryTypeOK
      <4> QED BY Zenon, <4>2, <4>3
    <3> QED BY Zenon, <2>5, <3>1, <3>2
  <2>7. ASSUME NEW x \in Client, NEW n \in NS, Stale(x, n)' PROVE FALSE
    <3>1. conn'[x] = "open" /\ declared'[x][n] # NULL
          /\ (declared'[x][n] # Latest(n)' \/ next_ns[n] # NULL) /\ conn[x] = "open"
      BY Zenon, <2>3, <2>4, <2>7 DEF Stale
    <3>2. x # c \/ n # f => declared'[x][n] = declared[x][n]
      BY <1>1, <2>5 DEF RegistryTypeOK
    <3>3. CASE n = f
      BY Zenon, <2>3, <2>6, <3>1, <3>2, <3>3
    <3>4. CASE n # f
      BY Zenon, <2>4, <3>1, <3>2, <3>4 DEF NoStaleClient, Stale, Latest
    <3> QED BY Zenon, <3>3, <3>4
  <2> QED BY Zenon, <2>7 DEF NoStaleClient
<1> QED BY Zenon, <1>2, <1>4, <1>5 DEF kvolve_load_update

\* An update loaded while no program of the namespace is connected makes no
\* client stale either, whomever the loop of kvolve_upd_spec keeps.
LEMMA OutsideUpdateStale ==
    ASSUME RegistryTypeOK, TableConsistent, NoStaleClient, NEW c \in Client, NEW u \in Updates,
           kvolve_load_update(c, u), \A d \in Client : conn[d] = "open" => declared[d][u.from_ns] = NULL
    PROVE  NoStaleClient'
<1> DEFINE f == u.from_ns
           t == u.to_ns
<1>1. f \in NS /\ t \in NS
  BY Zenon, UpdateFacts
<1>2. CASE upd_spec_rejected(c, u)
  BY Zenon, <1>2 DEF upd_spec_rejected, registryVars, NoStaleClient, Stale, Latest
<1>3. CASE upd_spec_new_ns(c, u) \/ upd_spec_same_ns(c, u)
  <2>1. declared' = declared
    BY Zenon, <1>3 DEF upd_spec_new_ns, upd_spec_same_ns
  <2>2. \A x \in Client : conn'[x] = "open" => conn[x] = "open"
    BY Zenon, <1>3 DEF upd_spec_new_ns, upd_spec_same_ns, ConnAfterKill
  <2>3. \A n \in NS : n # f /\ n # t => versions'[n] = versions[n] /\ next_ns'[n] = next_ns[n]
    BY Zenon, <1>3 DEF upd_spec_new_ns, upd_spec_same_ns, RegistryTypeOK
  <2>4. f = t \/ ~Registered(t)
    BY Zenon, <1>3 DEF upd_spec_new_ns, upd_spec_same_ns, upd_spec_accepts
  <2>5. ASSUME NEW x \in Client, NEW n \in NS, Stale(x, n)' PROVE FALSE
    <3>1. conn[x] = "open" /\ declared[x][n] # NULL
      BY Zenon, <2>1, <2>2, <2>5 DEF Stale
    <3>2. n # f /\ n # t
      BY Zenon, <1>1, <2>4, <3>1 DEF TableConsistent
    <3> QED BY Zenon, <2>1, <2>3, <2>5, <3>1, <3>2 DEF NoStaleClient, Stale, Latest
  <2> QED BY Zenon, <2>5 DEF NoStaleClient
<1> QED BY Zenon, <1>2, <1>3 DEF kvolve_load_update

\* The loop "kill off deprecated clients" spares only the caller when the
\* caller is itself a member of the updated namespace.
THEOREM MemberUpdate == RegistrySpec => MemberUpdateEvictsOthers
<1> DEFINE A == \A c \in Client, u \in Updates :
                  kvolve_load_update(c, u) /\ upd_spec_accepts(u) /\ c \in is[u.from_ns]
                  => \A d \in Client \ {c} :
                       conn[d] = "open" /\ declared[d][u.from_ns] # NULL => conn'[d] = "closed"
<1>1. RegistryTypeOK /\ TableConsistent => A
  <2> SUFFICES ASSUME RegistryTypeOK, TableConsistent, NEW c \in Client, NEW u \in Updates,
                      kvolve_load_update(c, u), upd_spec_accepts(u), c \in is[u.from_ns],
                      NEW d \in Client \ {c}, conn[d] = "open", declared[d][u.from_ns] # NULL
               PROVE  conn'[d] = "closed"
    BY Zenon
  <2> DEFINE L == Lineage(u.from_ns)
  <2>1. u.from_ns \in NS /\ u.from_ns \in L /\ L \in SUBSET NS
    BY Zenon, UpdateFacts, LineageFacts
  <2>2. \E keep : conn' = ConnAfterKill(c, L, keep)
    <3>1. CASE upd_spec_new_ns(c, u)
      BY Zenon, <3>1 DEF upd_spec_new_ns
    <3>2. CASE upd_spec_same_ns(c, u)
      BY Zenon, <3>2 DEF upd_spec_same_ns
    <3> QED BY Zenon, <3>1, <3>2 DEF kvolve_load_update, upd_spec_rejected
  <2> HIDE DEF L
  <2>3. PICK keep : conn' = ConnAfterKill(c, L, keep)
    BY Zenon, <2>2
  <2>4. d \in is[u.from_ns]
    BY Zenon, <2>1 DEF TableConsistent
  <2>5. IsAfterKill(c, L, keep)[u.from_ns] = {c}
    BY Zenon, <2>1 DEF IsAfterKill
  <2>6. d \in Killed(c, L, keep)
    BY <2>1, <2>4, <2>5 DEF Killed
  <2> QED BY Zenon, <2>3, <2>6 DEF ConnAfterKill
<1> HIDE DEF A
<1>2. RegistrySpec => [][A]_registryVars
  BY <1>1, TypeCorrect, AtMostOneStaleTheorem, PTL DEF RegistrySpec
<1> QED BY Zenon, <1>2 DEF MemberUpdateEvictsOthers, A

\* Connections come and go without making anyone stale.
LEMMA ConnectionStale ==
    ASSUME RegistryTypeOK, TableConsistent, NoStaleClient, NEW c \in Client,
           connect(c) \/ freeClient(c)
    PROVE  NoStaleClient'
<1> SUFFICES ASSUME NEW x \in Client, NEW n \in NS, Stale(x, n)' PROVE FALSE
  BY Zenon DEF NoStaleClient
<1>1. conn \in [Client -> {"new", "open", "closed"}]
  BY Zenon DEF RegistryTypeOK
<1>2. UNCHANGED <<versions, next_ns, declared>>
  BY Zenon DEF connect, freeClient, tableVars
<1>3. conn[x] = "open" \/ conn[x] = "new"
  BY Zenon, <1>1 DEF connect, freeClient, Stale
<1> QED BY Zenon, <1>2, <1>3 DEF NoStaleClient, Stale, Latest, TableConsistent

-----------------------------------------------------------------------------
(* The version histories *)

\* The three ways a step changes the table.
Declares(C, vOf) ==
    /\ \A n \in C : n \in NS /\ ~Registered(n) /\ vOf[n] \in Vers
    /\ \A n \in NS : versions'[n] = IF n \in C THEN <<vOf[n]>> ELSE versions[n]
    /\ \A n \in NS : info'[n] = IF n \in C THEN <<NULL>> ELSE info[n]
    /\ prev_ns' = prev_ns /\ next_ns' = next_ns

Renames(u) ==
    /\ u.from_ns # u.to_ns /\ Registered(u.from_ns) /\ ~Registered(u.to_ns)
    /\ \A n \in NS \ {u.to_ns} :
         versions'[n] = versions[n] /\ info'[n] = info[n] /\ prev_ns'[n] = prev_ns[n]
    /\ \A n \in NS \ {u.from_ns} : next_ns'[n] = next_ns[n]
    /\ versions'[u.to_ns] = Append(versions[u.from_ns], u.to_vers)
    /\ info'[u.to_ns] = Append(info[u.from_ns], u)
    /\ prev_ns'[u.to_ns] = u.from_ns /\ next_ns'[u.from_ns] = u.to_ns

Upgrades(u) ==
    /\ u.from_ns = u.to_ns /\ Registered(u.to_ns) /\ u.to_vers \notin Elements(versions[u.to_ns])
    /\ prev_ns[u.to_ns] = NULL => Latest(u.to_ns) = u.from_vers
    /\ \A n \in NS \ {u.to_ns} : versions'[n] = versions[n] /\ info'[n] = info[n]
    /\ versions'[u.to_ns] = Append(versions[u.to_ns], u.to_vers)
    /\ info'[u.to_ns] = Append(info[u.to_ns], u)
    /\ prev_ns' = prev_ns /\ next_ns' = next_ns

\* kvolve_check_version declares namespaces.
LEMMA DeclareStep ==
    ASSUME RegistryTypeOK, NEW c \in Client, NEW d \in Declarations, kvolve_check_version(c, d)
    PROVE  \E C, vOf : Declares(C, vOf)
<1> USE DEF RegistryTypeOK
<1> DEFINE named == {d[i].ns : i \in Processed(d)}
           versOf(n) == d[CHOOSE i \in Processed(d) : d[i].ns = n].vers
           C == {n \in NS : n \in named /\ ~Registered(n)}
           vOf == [n \in NS |-> versOf(n)]
<1>1. \A n \in named : versOf(n) \in Vers
  BY VersionOfNamed, ZenonT(30)
<1> HIDE DEF versOf
<1>2. Declares(C, vOf)
  <2>1. \A n \in C : n \in NS /\ ~Registered(n) /\ vOf[n] \in Vers
    BY Zenon, <1>1
  <2>2. \A n \in NS : versions'[n] = IF n \in C THEN <<vOf[n]>> ELSE versions[n]
    <3>1. versions' = [n \in NS |-> IF n \in named /\ ~Registered(n)
                                    THEN <<versOf(n)>> ELSE versions[n]]
      BY DEF kvolve_check_version, versOf
    <3> QED BY Zenon, <3>1
  <2>3. \A n \in NS : info'[n] = IF n \in C THEN <<NULL>> ELSE info[n]
    BY Zenon DEF kvolve_check_version
  <2>4. prev_ns' = prev_ns /\ next_ns' = next_ns
    BY Zenon DEF kvolve_check_version
  <2> HIDE DEF C, vOf
  <2> QED BY Zenon, <2>1, <2>2, <2>3, <2>4 DEF Declares
<1> QED BY Zenon, <1>2

\* kvolve_upd_spec, where it accepts the update: a new name or a further version.
LEMMA LoadStep ==
    ASSUME RegistryTypeOK, NEW c \in Client, NEW u \in Updates
    PROVE  /\ upd_spec_new_ns(c, u) => Renames(u)
           /\ upd_spec_same_ns(c, u) => UNCHANGED tableVars \/ Upgrades(u)
<1> USE DEF RegistryTypeOK
<1>1. u.from_ns \in NS /\ u.to_ns \in NS
  BY Zenon, UpdateFacts
<1>2. ASSUME upd_spec_new_ns(c, u) PROVE Renames(u)
  BY Zenon, <1>1, <1>2 DEF upd_spec_new_ns, upd_spec_accepts, Renames
<1>3. ASSUME upd_spec_same_ns(c, u) PROVE UNCHANGED tableVars \/ Upgrades(u)
  <2>1. CASE Len(versions[u.to_ns]) <= KV_INIT_SZ
    BY Zenon, <1>1, <1>3, <2>1 DEF upd_spec_same_ns, upd_spec_accepts, Upgrades
  <2>2. CASE ~(Len(versions[u.to_ns]) <= KV_INIT_SZ)
    BY Zenon, <1>3, <2>2 DEF upd_spec_same_ns, tableVars
  <2> QED BY Zenon, <2>1, <2>2
<1> QED BY Zenon, <1>2, <1>3

\* Every step of the registry leaves the table alone, declares namespaces,
\* renames one or adds a version to one.
LEMMA TableSteps ==
    ASSUME RegistryTypeOK, [RegistryNext]_registryVars
    PROVE  \/ UNCHANGED tableVars
           \/ \E C, vOf : Declares(C, vOf)
           \/ \E u \in Updates : Renames(u)
           \/ \E u \in Updates : Upgrades(u)
<1>1. ASSUME NEW c \in Client, connect(c) \/ freeClient(c) PROVE UNCHANGED tableVars
  BY Zenon, <1>1 DEF connect, freeClient
<1>2. ASSUME NEW c \in Client, NEW u \in Updates, upd_spec_rejected(c, u) PROVE UNCHANGED tableVars
  BY Zenon, <1>2 DEF upd_spec_rejected, registryVars, tableVars
<1>3. CASE UNCHANGED registryVars
  BY Zenon, <1>3 DEF registryVars, tableVars
<1> QED
  BY Zenon, <1>1, <1>2, <1>3, DeclareStep, LoadStep DEF RegistryNext, kvolve_load_update

\* Typing of one namespace's fields, for the steps below.
LEMMA FieldTypes ==
    ASSUME RegistryTypeOK, NEW n \in NS
    PROVE  /\ versions[n] \in Seq(Vers) /\ info[n] \in Seq(UpdInfo \cup {NULL})
           /\ Len(versions[n]) \in Nat /\ Len(info[n]) \in Nat
           /\ prev_ns[n] \in NS \cup {NULL} /\ next_ns[n] \in NS \cup {NULL}
<1>1. versions[n] \in Seq(Vers) /\ info[n] \in Seq(UpdInfo \cup {NULL})
      /\ prev_ns[n] \in NS \cup {NULL} /\ next_ns[n] \in NS \cup {NULL}
  BY Zenon DEF RegistryTypeOK
<1> QED BY <1>1

\* The history a step appends to: old entries stay, the new one is last.
LEMMA Grown ==
    ASSUME RegistryTypeOK, NEW f \in NS, NEW u \in Updates
    PROVE  LET vs == Append(versions[f], u.to_vers)
               us == Append(info[f], u)
           IN  /\ Len(vs) = Len(versions[f]) + 1 /\ Len(us) = Len(info[f]) + 1 /\ vs # << >>
               /\ \A i \in 1..Len(versions[f]) : vs[i] = versions[f][i]
               /\ \A i \in 1..Len(info[f]) : us[i] = info[f][i]
               /\ vs[Len(versions[f]) + 1] = u.to_vers /\ us[Len(info[f]) + 1] = u
<1>1. versions[f] \in Seq(Vers) /\ info[f] \in Seq(UpdInfo \cup {NULL})
  BY Zenon, FieldTypes
<1>2. u.to_vers \in Vers /\ u \in UpdInfo \cup {NULL}
  BY Zenon, UpdateFacts
<1> DEFINE E == UpdInfo \cup {NULL}
<1> HIDE DEF E
<1>3. info[f] \in Seq(E) /\ u \in E
  BY Zenon, <1>1, <1>2 DEF E
<1> QED BY <1>1, <1>2, <1>3, AppendFacts

-----------------------------------------------------------------------------
\* No step of the registry appends to one of versions and info alone.
LEMMA AlignedStep ==
    ASSUME RegistryTypeOK, HistoryAligned, [RegistryNext]_registryVars
    PROVE  HistoryAligned'
<1> SUFFICES ASSUME NEW n \in NS
             PROVE  /\ Len(info'[n]) = Len(versions'[n])
                    /\ \A i \in 1..Len(info'[n]) :
                         IF i = 1 THEN info'[n][i] = NULL
                         ELSE info'[n][i] # NULL /\ info'[n][i].to_vers = versions'[n][i]
  BY Zenon DEF HistoryAligned
<1> DEFINE Goal == /\ Len(info'[n]) = Len(versions'[n])
                   /\ \A i \in 1..Len(info'[n]) :
                         IF i = 1 THEN info'[n][i] = NULL
                         ELSE info'[n][i] # NULL /\ info'[n][i].to_vers = versions'[n][i]
<1>1. versions'[n] = versions[n] /\ info'[n] = info[n] => Goal
  BY DEF HistoryAligned
<1>2. ASSUME UNCHANGED tableVars PROVE Goal
  BY Zenon, <1>1, <1>2 DEF tableVars
<1>3. ASSUME NEW C, NEW vOf, Declares(C, vOf) PROVE Goal
  <2>1. CASE n \in C
    <3>1. versions'[n] = <<vOf[n]>> /\ info'[n] = <<NULL>>
      BY Zenon, <1>3, <2>1 DEF Declares
    <3> QED BY <3>1
  <2>2. CASE n \notin C
    BY Zenon, <1>1, <1>3, <2>2 DEF Declares
  <2> QED BY Zenon, <2>1, <2>2
<1>4. ASSUME NEW u \in Updates, NEW f \in NS, Registered(f),
             versions'[n] = Append(versions[f], u.to_vers), info'[n] = Append(info[f], u)
      PROVE  Goal
  <2>1. Len(info[f]) = Len(versions[f]) /\ Len(versions[f]) \in Nat /\ Len(versions[f]) # 0
    BY <1>4, FieldTypes DEF HistoryAligned, Registered
  <2>2. \A i \in 1..Len(info[f]) :
            IF i = 1 THEN info[f][i] = NULL
            ELSE info[f][i] # NULL /\ info[f][i].to_vers = versions[f][i]
    BY Zenon DEF HistoryAligned
  <2>3. u # NULL
    BY Zenon, UpdateFacts
  <2>4. /\ Len(versions'[n]) = Len(versions[f]) + 1 /\ Len(info'[n]) = Len(info[f]) + 1
        /\ \A i \in 1..Len(versions[f]) : versions'[n][i] = versions[f][i]
        /\ \A i \in 1..Len(info[f]) : info'[n][i] = info[f][i]
        /\ versions'[n][Len(versions[f]) + 1] = u.to_vers /\ info'[n][Len(info[f]) + 1] = u
    BY <1>4, Grown
  <2>5. \A i \in 1..Len(info'[n]) : i \in 1..Len(info[f]) \/ (i = Len(info[f]) + 1 /\ i # 1)
    BY <2>1, <2>4
  <2> QED BY <2>1, <2>2, <2>3, <2>4, <2>5
<1> HIDE DEF Goal
<1>5. ASSUME NEW u \in Updates, Renames(u) PROVE Goal
  <2>1. CASE n = u.to_ns
    BY Zenon, <1>4, <1>5, <2>1, UpdateFacts DEF Renames
  <2>2. CASE n # u.to_ns
    BY Zenon, <1>1, <1>5, <2>2 DEF Renames
  <2> QED BY Zenon, <2>1, <2>2
<1>6. ASSUME NEW u \in Updates, Upgrades(u) PROVE Goal
  <2>1. CASE n = u.to_ns
    BY Zenon, <1>4, <1>6, <2>1, UpdateFacts DEF Upgrades
  <2>2. CASE n # u.to_ns
    BY Zenon, <1>1, <1>6, <2>2 DEF Upgrades
  <2> QED BY Zenon, <2>1, <2>2
<1>7. Goal
  BY Zenon, <1>2, <1>3, <1>5, <1>6, TableSteps
<1> QED BY Zenon, <1>7 DEF Goal

\* versions and info stay parallel.
THEOREM Aligned == RegistrySpec => []HistoryAligned
<1>1. RegistryInit => HistoryAligned
  BY DEF RegistryInit, HistoryAligned
<1>2. RegistryTypeOK /\ HistoryAligned /\ [RegistryNext]_registryVars => HistoryAligned'
  BY Zenon, AlignedStep
<1> QED BY <1>1, <1>2, TypeCorrect, PTL DEF RegistrySpec

\* No step of the registry takes anything out of a history.
LEMMA GrowsStep ==
    ASSUME RegistryTypeOK, HistoryAligned, [RegistryNext]_registryVars
    PROVE  Grows
<1> SUFFICES ASSUME NEW n \in NS, Registered(n)
             PROVE  /\ Len(versions'[n]) >= Len(versions[n])
                    /\ \A i \in 1..Len(versions[n]) :
                         versions'[n][i] = versions[n][i] /\ info'[n][i] = info[n][i]
                    /\ prev_ns'[n] = prev_ns[n]
                    /\ next_ns[n] # NULL => next_ns'[n] # NULL
  BY Zenon DEF Grows
<1>0. Len(versions[n]) \in Nat /\ Len(info[n]) = Len(versions[n])
  BY Zenon, FieldTypes DEF HistoryAligned
<1>1. CASE UNCHANGED tableVars
  BY <1>0, <1>1 DEF tableVars
<1>2. ASSUME NEW C, NEW vOf, Declares(C, vOf)
      PROVE  versions'[n] = versions[n] /\ info'[n] = info[n]
             /\ prev_ns'[n] = prev_ns[n] /\ next_ns'[n] = next_ns[n]
  BY Zenon, <1>2 DEF Declares
<1>3. ASSUME NEW u \in Updates, Renames(u)
      PROVE  versions'[n] = versions[n] /\ info'[n] = info[n]
             /\ prev_ns'[n] = prev_ns[n] /\ (next_ns[n] # NULL => next_ns'[n] # NULL)
  <2>1. u.to_ns \in NS /\ u.to_ns # NULL /\ n # u.to_ns
    BY Zenon, <1>3, UpdateFacts, RegistryAssumption DEF Renames
  <2> QED BY Zenon, <1>3, <2>1 DEF Renames
<1>4. ASSUME NEW u \in Updates, Upgrades(u)
      PROVE  /\ Len(versions'[n]) >= Len(versions[n])
             /\ \A i \in 1..Len(versions[n]) :
                  versions'[n][i] = versions[n][i] /\ info'[n][i] = info[n][i]
             /\ prev_ns'[n] = prev_ns[n] /\ next_ns'[n] = next_ns[n]
  <2>1. CASE n = u.to_ns
    <3>1. /\ versions'[n] = Append(versions[n], u.to_vers) /\ info'[n] = Append(info[n], u)
          /\ prev_ns' = prev_ns /\ next_ns' = next_ns
      BY Zenon, <1>4, <2>1 DEF Upgrades
    <3> QED BY <1>0, <3>1, Grown
  <2>2. CASE n # u.to_ns
    BY <1>0, <1>4, <2>2 DEF Upgrades
  <2> QED BY Zenon, <2>1, <2>2
<1> QED BY <1>0, <1>1, <1>2, <1>3, <1>4, TableSteps

\* Histories only grow and renames are never undone.
THEOREM AppendOnly == RegistrySpec => HistoryAppendOnly
<1>1. RegistrySpec => [][Grows]_registryVars
  BY GrowsStep, TypeCorrect, Aligned, PTL DEF RegistrySpec
<1> QED BY Zenon, <1>1 DEF HistoryAppendOnly, Grows

-----------------------------------------------------------------------------
HistoryInv == RegistryTypeOK /\ TableConsistent /\ HistoryAligned

\* The clause of HistoryShared for one namespace n renamed from p.
SharedWith(n, p, b) ==
    /\ Registered(p) /\ p # n /\ next_ns[p] # NULL /\ BornAt(n, b)
    /\ b - 1 <= Len(versions[p])
    /\ \A i \in 1..(b - 1) : versions[n][i] = versions[p][i] /\ info[n][i] = info[p][i]
    /\ \A i \in (b + 1)..Len(info[n]) : info[n][i].from_ns = n /\ info[n][i].to_ns = n
    /\ \A a \in 2..Len(versions[p]) : prev_ns[p] # NULL /\ BornAt(p, a) => a < b

\* Every update in the history of n is from n to n.
OwnUpdates(n) == \A i \in 2..Len(info[n]) : info[n][i].from_ns = n /\ info[n][i].to_ns = n

\* What HistoryShared says of one namespace.
LEMMA SharedForm ==
    HistoryShared <=> \A n \in NS : Registered(n) =>
        IF prev_ns[n] = NULL THEN OwnUpdates(n)
        ELSE \E b \in 2..Len(versions[n]) : SharedWith(n, prev_ns[n], b)
BY Zenon DEF HistoryShared, SharedWith, OwnUpdates

\* A namespace whose history and links did not change, and whose parent's did
\* not either.
LEMMA SharedKept ==
    ASSUME HistoryInv, HistoryShared, NEW n \in NS, Registered(n),
           versions'[n] = versions[n], info'[n] = info[n], prev_ns'[n] = prev_ns[n],
           prev_ns[n] # NULL =>
              /\ versions'[prev_ns[n]] = versions[prev_ns[n]]
              /\ info'[prev_ns[n]] = info[prev_ns[n]]
              /\ prev_ns'[prev_ns[n]] = prev_ns[prev_ns[n]]
              /\ next_ns'[prev_ns[n]] # NULL
    PROVE  IF prev_ns'[n] = NULL THEN OwnUpdates(n)'
           ELSE \E b \in 2..Len(versions'[n]) : SharedWith(n, prev_ns[n], b)'
<1>1. IF prev_ns[n] = NULL THEN OwnUpdates(n)
      ELSE \E b \in 2..Len(versions[n]) : SharedWith(n, prev_ns[n], b)
  BY Zenon, SharedForm
<1>2. CASE prev_ns[n] = NULL
  BY Zenon, <1>1, <1>2 DEF OwnUpdates
<1>3. CASE prev_ns[n] # NULL
  <2>1. PICK b \in 2..Len(versions[n]) : SharedWith(n, prev_ns[n], b)
    BY Zenon, <1>1, <1>3
  <2> DEFINE p == prev_ns[n]
  <2>2. versions'[p] = versions[p] /\ info'[p] = info[p] /\ prev_ns'[p] = prev_ns[p]
        /\ next_ns'[p] # NULL
    BY Zenon, <1>3
  <2>3. prev_ns'[n] = p
    BY Zenon
  <2> HIDE DEF p
  <2>4. SharedWith(n, p, b)
    BY Zenon, <2>1 DEF p
  <2>5. SharedWith(n, p, b)'
    BY <2>2, <2>3, <2>4 DEF SharedWith, Registered, BornAt, p
  <2> QED BY Zenon, <2>1, <2>3, <2>5, <1>3 DEF p
<1> QED BY Zenon, <1>2, <1>3

\* kvolve_create_ns copies the history of from_ns: the new namespace shares it,
\* and the others keep what they shared.
LEMMA SharedRename ==
    ASSUME HistoryInv, HistoryShared, NEW u \in Updates, Renames(u), HistoryAligned',
           NEW n \in NS, Registered(n)'
    PROVE  IF prev_ns'[n] = NULL THEN OwnUpdates(n)'
           ELSE \E b \in 2..Len(versions'[n]) : SharedWith(n, prev_ns[n], b)'
<1> DEFINE f == u.from_ns
           t == u.to_ns
<1>1. f \in NS /\ t \in NS /\ f # t /\ t # NULL /\ f # NULL /\ Registered(f) /\ ~Registered(t)
  BY Zenon, UpdateFacts, RegistryAssumption DEF Renames
<1>2. CASE n = t
  <2>1. Len(versions[f]) \in Nat /\ Len(info[f]) = Len(versions[f]) /\ versions[f] # << >>
        /\ Len(versions[f]) # 0
    BY <1>1, FieldTypes DEF HistoryInv, HistoryAligned, Registered
  <2>0. PICK b \in Nat : b = Len(versions[f]) + 1
    BY <2>1
  <2>2. versions'[f] = versions[f] /\ info'[f] = info[f] /\ prev_ns'[f] = prev_ns[f]
        /\ next_ns'[f] # NULL /\ prev_ns'[t] = f
    BY Zenon, <1>1 DEF Renames
  <2>3. /\ Len(versions'[t]) = b /\ Len(info'[t]) = b /\ info'[t][b] = u
        /\ \A i \in 1..(b - 1) : versions'[t][i] = versions[f][i] /\ info'[t][i] = info[f][i]
    BY <1>1, <2>0, <2>1, Grown DEF Renames, HistoryInv
  <2>4. b \in 2..Len(versions'[t])
    BY <2>0, <2>1, <2>3
  <2>5. SharedWith(t, f, b)'
    <3>1. Registered(f)' /\ BornAt(t, b)'
      BY Zenon, <1>1, <2>1, <2>2, <2>3, <2>4 DEF Registered, BornAt
    <3>2. \A i \in (b + 1)..Len(info'[t]) : FALSE
      BY <2>1, <2>3
    <3>3. b - 1 <= Len(versions'[f]) /\ \A a \in 2..Len(versions'[f]) : a < b
      BY <2>0, <2>1, <2>2
    <3> QED BY Zenon, <1>1, <2>2, <2>3, <3>1, <3>2, <3>3 DEF SharedWith
  <2> QED BY Zenon, <1>1, <1>2, <2>2, <2>4, <2>5
<1>3. CASE n # t
  <2>1. versions'[n] = versions[n] /\ info'[n] = info[n] /\ prev_ns'[n] = prev_ns[n] /\ Registered(n)
    BY Zenon, <1>3 DEF Renames, Registered
  <2>2. ASSUME prev_ns[n] # NULL
        PROVE  prev_ns[n] \in NS /\ prev_ns[n] # t /\ next_ns[prev_ns[n]] # NULL
    <3>1. Registered(prev_ns[n]) /\ next_ns[prev_ns[n]] # NULL
      BY Zenon, <2>1, <2>2, SharedForm DEF SharedWith
    <3> QED BY Zenon, <3>1, <1>1, <2>2, FieldTypes DEF HistoryInv
  <2>3. prev_ns[n] # NULL =>
              /\ versions'[prev_ns[n]] = versions[prev_ns[n]]
              /\ info'[prev_ns[n]] = info[prev_ns[n]]
              /\ prev_ns'[prev_ns[n]] = prev_ns[prev_ns[n]]
              /\ next_ns'[prev_ns[n]] # NULL
    BY Zenon, <1>1, <2>2 DEF Renames
  <2> QED BY Zenon, <2>1, <2>3, SharedKept
<1> QED BY Zenon, <1>2, <1>3

\* A version added to a namespace comes after everything it shares with the
\* one it was renamed from, and leaves what its descendants share with it.
LEMMA SharedUpgrade ==
    ASSUME HistoryInv, HistoryShared, NEW u \in Updates, Upgrades(u), NEW n \in NS, Registered(n)'
    PROVE  IF prev_ns'[n] = NULL THEN OwnUpdates(n)'
           ELSE \E b \in 2..Len(versions'[n]) : SharedWith(n, prev_ns[n], b)'
<1> DEFINE t == u.to_ns
<1>1. t \in NS /\ u.from_ns = t /\ Registered(t) /\ prev_ns' = prev_ns /\ next_ns' = next_ns
  BY Zenon, UpdateFacts DEF Upgrades
<1>2. Registered(n)
  BY Zenon, <1>1 DEF Upgrades, Registered
<1>3. /\ Len(versions[t]) \in Nat /\ Len(info[t]) = Len(versions[t])
      /\ Len(versions'[t]) = Len(versions[t]) + 1 /\ Len(info'[t]) = Len(info[t]) + 1
      /\ \A i \in 1..Len(versions[t]) : versions'[t][i] = versions[t][i] /\ info'[t][i] = info[t][i]
      /\ info'[t][Len(info[t]) + 1] = u
  <2>1. versions'[t] = Append(versions[t], u.to_vers) /\ info'[t] = Append(info[t], u) /\ RegistryTypeOK
    BY Zenon, <1>1 DEF Upgrades, HistoryInv, RegistryTypeOK
  <2>2. Len(versions[t]) \in Nat /\ Len(info[t]) = Len(versions[t])
    BY Zenon, <1>1, <2>1, FieldTypes DEF HistoryInv, HistoryAligned
  <2>3. PICK vs, us : vs = Append(versions[t], u.to_vers) /\ us = Append(info[t], u)
    BY Zenon
  <2>4. /\ Len(vs) = Len(versions[t]) + 1 /\ Len(us) = Len(info[t]) + 1
        /\ \A i \in 1..Len(versions[t]) : vs[i] = versions[t][i]
        /\ \A i \in 1..Len(info[t]) : us[i] = info[t][i]
        /\ us[Len(info[t]) + 1] = u
    BY <1>1, <2>1, <2>3, Grown
  <2> QED BY Zenon, <2>1, <2>2, <2>3, <2>4
<1>3a. PICK k \in Nat : /\ k = Len(versions[t]) /\ k = Len(info[t])
                        /\ Len(versions'[t]) = k + 1 /\ Len(info'[t]) = k + 1
                        /\ \A i \in 1..k : versions'[t][i] = versions[t][i] /\ info'[t][i] = info[t][i]
                        /\ info'[t][k + 1] = u
  BY Zenon, <1>3
<1>4. \A m \in NS \ {t} : versions'[m] = versions[m] /\ info'[m] = info[m]
  BY Zenon DEF Upgrades
<1>5. Registered(t)'
  BY Zenon, <1>1, Grown DEF HistoryInv, Upgrades, Registered
<1>6. CASE prev_ns[n] = NULL
  <2>1. OwnUpdates(n)
    BY Zenon, <1>2, <1>6, SharedForm
  <2>2. OwnUpdates(n)'
    <3>1. CASE n = t
      <4>1. ASSUME NEW i \in 2..(k + 1) PROVE info'[t][i].from_ns = t /\ info'[t][i].to_ns = t
        <5>1. CASE i = k + 1
          BY Zenon, <5>1, <1>1, <1>3a
        <5>2. CASE i # k + 1
          <6>1. i \in 1..k /\ i \in 2..k
            BY <4>1, <5>2
          <6> QED BY Zenon, <6>1, <2>1, <3>1, <1>3a DEF OwnUpdates
        <5> QED BY Zenon, <5>1, <5>2
      <4> QED BY Zenon, <4>1, <3>1, <1>3a DEF OwnUpdates
    <3>2. CASE n # t
      BY Zenon, <2>1, <3>2, <1>4 DEF OwnUpdates
    <3> QED BY Zenon, <3>1, <3>2
  <2> QED BY Zenon, <2>2, <1>1, <1>6
<1>7. CASE prev_ns[n] # NULL
  <2>1. PICK b \in 2..Len(versions[n]) : SharedWith(n, prev_ns[n], b)
    BY Zenon, <1>2, <1>7, SharedForm
  <2>2. PICK p \in NS : p = prev_ns[n]
    BY Zenon, <1>7, FieldTypes DEF HistoryInv
  <2>3. SharedWith(n, p, b) /\ p # n
    BY Zenon, <2>1, <2>2 DEF SharedWith
  <2>4. Len(versions[n]) \in Nat /\ Len(versions[p]) \in Nat /\ Len(info[n]) = Len(versions[n])
        /\ Len(info[p]) = Len(versions[p])
    BY Zenon, FieldTypes DEF HistoryInv, HistoryAligned
  <2>5. CASE n = t
    <3>1. BornAt(n, b)'
      <4>1. b \in 1..k /\ b \in 2..(k + 1)
        BY <2>1, <2>5, <1>3a
      <4>2. info'[t][b] = info[t][b]
        BY Zenon, <4>1, <1>3a
      <4>3. BornAt(t, b)
        BY Zenon, <2>3, <2>5 DEF SharedWith
      <4> QED BY Zenon, <4>1, <4>2, <4>3, <2>5, <1>1, <1>3a DEF BornAt
    <3>2. versions'[p] = versions[p] /\ info'[p] = info[p]
      BY Zenon, <2>3, <2>5, <1>4
    <3>3. \A i \in (b + 1)..Len(info'[n]) : info'[n][i].from_ns = n /\ info'[n][i].to_ns = n
      <4>1. ASSUME NEW i \in (b + 1)..(k + 1) PROVE info'[t][i].from_ns = t /\ info'[t][i].to_ns = t
        <5>1. CASE i = k + 1
          BY Zenon, <5>1, <1>1, <1>3a
        <5>2. CASE i # k + 1
          <6>1. i \in 1..k /\ i \in (b + 1)..k
            BY <4>1, <5>2, <2>1
          <6> QED BY Zenon, <6>1, <2>3, <2>5, <1>3a DEF SharedWith
        <5> QED BY Zenon, <5>1, <5>2
      <4> QED BY Zenon, <4>1, <2>5, <1>3a
    <3>4. \A i \in 1..(b - 1) : versions'[n][i] = versions'[p][i] /\ info'[n][i] = info'[p][i]
      BY <2>3, <2>4, <2>5, <3>2, <1>3 DEF SharedWith
    <3>5. SharedWith(n, p, b)'
      BY Zenon, <2>3, <3>1, <3>2, <3>3, <3>4, <1>1 DEF SharedWith, Registered, BornAt
    <3> QED BY <2>2, <2>4, <2>5, <3>5, <1>1, <1>3, <1>7
  <2>6. CASE n # t /\ p = t
    <3>1. versions'[n] = versions[n] /\ info'[n] = info[n]
      BY Zenon, <2>6, <1>4
    <3>2. BornAt(n, b)'
      BY Zenon, <2>3, <3>1, <1>1 DEF SharedWith, BornAt
    <3>3. \A i \in 1..(b - 1) : versions'[n][i] = versions'[p][i] /\ info'[n][i] = info'[p][i]
      <4>1. b - 1 <= k
        BY Zenon, <2>3, <2>6, <1>3a DEF SharedWith
      <4>2. \A i \in 1..(b - 1) : i \in 1..k
        BY <4>1, <2>1, <2>4
      <4> QED BY Zenon, <4>2, <2>3, <2>6, <3>1, <1>3a DEF SharedWith
    <3>4. ASSUME NEW a \in 2..Len(versions'[p]), prev_ns'[p] # NULL, BornAt(p, a)' PROVE a < b
      <4>1. p # prev_ns[p]
        BY Zenon, <3>4, <1>1, <2>3, SharedForm DEF SharedWith
      <4>2. a # Len(info[t]) + 1
        BY Zenon, <3>4, <4>1, <2>6, <1>1, <1>3 DEF BornAt
      <4>3. a \in 2..Len(versions[p]) /\ info'[p][a] = info[p][a]
        BY <3>4, <4>2, <2>4, <2>6, <1>3
      <4>4. BornAt(p, a)
        BY Zenon, <3>4, <4>3, <1>1 DEF BornAt
      <4> QED BY Zenon, <4>3, <4>4, <3>4, <1>1, <2>3 DEF SharedWith
    <3>5. b - 1 <= Len(versions'[p])
      BY <2>3, <2>4, <2>6, <1>3 DEF SharedWith
    <3>6. SharedWith(n, p, b)'
      BY <2>3, <2>6, <3>1, <3>2, <3>3, <3>4, <3>5, <1>1, <1>5 DEF SharedWith
    <3> QED BY Zenon, <2>2, <3>1, <3>6, <1>1, <1>7
  <2>7. CASE n # t /\ p # t
    BY Zenon, <2>2, <2>3, <2>7, <1>1, <1>2, <1>4, SharedKept DEF SharedWith
  <2> QED BY Zenon, <2>5, <2>6, <2>7
<1> QED BY Zenon, <1>6, <1>7

\* A renamed namespace shares the past of the one it came from.
THEOREM Shared == RegistrySpec => []HistoryShared
<1>1. RegistryInit => HistoryShared
  BY Zenon DEF RegistryInit, HistoryShared, Registered
<1>2. HistoryInv /\ HistoryShared /\ HistoryAligned' /\ [RegistryNext]_registryVars => HistoryShared'
  <2> SUFFICES ASSUME HistoryInv, HistoryShared, HistoryAligned', [RegistryNext]_registryVars,
                      NEW n \in NS, Registered(n)'
               PROVE  IF prev_ns'[n] = NULL THEN OwnUpdates(n)'
                      ELSE \E b \in 2..Len(versions'[n]) : SharedWith(n, prev_ns[n], b)'
    BY Zenon DEF HistoryShared, SharedWith, OwnUpdates
  <2>1. CASE UNCHANGED tableVars
    <3>1. prev_ns[n] # NULL => next_ns[prev_ns[n]] # NULL
      BY Zenon, <2>1, SharedForm DEF tableVars, Registered, SharedWith
    <3> QED BY Zenon, <2>1, <3>1, SharedKept DEF tableVars, Registered
  <2>2. CASE \E C, vOf : Declares(C, vOf)
    <3>1. PICK C, vOf : Declares(C, vOf)
      BY Zenon, <2>2
    <3>2. CASE n \in C
      <4>1. prev_ns'[n] = NULL /\ info'[n] = <<NULL>>
        BY Zenon, <3>1, <3>2 DEF Declares, HistoryInv, TableConsistent
      <4> QED BY <4>1 DEF OwnUpdates
    <3>3. CASE n \notin C
      <4>1. versions'[n] = versions[n] /\ info'[n] = info[n] /\ Registered(n)
            /\ prev_ns' = prev_ns /\ next_ns' = next_ns
        BY Zenon, <3>1, <3>3 DEF Declares, Registered
      <4>2. ASSUME prev_ns[n] # NULL
            PROVE  prev_ns[n] \in NS /\ prev_ns[n] \notin C /\ next_ns[prev_ns[n]] # NULL
        <5>1. Registered(prev_ns[n]) /\ next_ns[prev_ns[n]] # NULL
          BY Zenon, <4>1, <4>2, SharedForm DEF SharedWith
        <5> QED BY Zenon, <5>1, <4>2, <3>1, FieldTypes DEF HistoryInv, Declares
      <4> QED BY Zenon, <3>1, <4>1, <4>2, SharedKept DEF Declares
    <3> QED BY Zenon, <3>2, <3>3
  <2>3. CASE \E u \in Updates : Renames(u)
    BY Zenon, <2>3, SharedRename
  <2>4. CASE \E u \in Updates : Upgrades(u)
    BY Zenon, <2>4, SharedUpgrade
  <2> QED BY Zenon, <2>1, <2>2, <2>3, <2>4, TableSteps DEF HistoryInv
<1> QED
  BY <1>1, <1>2, TypeCorrect, Aligned, AtMostOneStaleTheorem, PTL DEF RegistrySpec, HistoryInv

\* Renames form no cycle: the walk along prev_ns in kvolve_upd_spec ends.
THEOREM Acyclic == RegistrySpec => []AncestryAcyclic
<1>1. RegistryTypeOK /\ TableConsistent /\ HistoryShared => AncestryAcyclic
  <2> SUFFICES ASSUME RegistryTypeOK, TableConsistent, HistoryShared,
                      NEW n \in NS, prev_ns[n] # NULL
               PROVE  n \notin Lineage(prev_ns[n])
    BY Zenon DEF AncestryAcyclic
  <2>1. \A m \in NS : prev_ns[m] # NULL =>
          prev_ns[m] \in NS /\ \E b \in 2..Len(versions[m]) : SharedWith(m, prev_ns[m], b)
    BY Zenon, SharedForm, FieldTypes DEF TableConsistent
  <2>2. PICK B \in 2..Len(versions[n]) : SharedWith(n, prev_ns[n], B)
    BY Zenon, <2>1
  <2> DEFINE S == {m \in NS : prev_ns[m] # NULL =>
                                 \A a \in 2..Len(versions[m]) : BornAt(m, a) => a < B}
  <2>3. \A m \in NS : Len(versions[m]) \in Nat
    BY Zenon, FieldTypes
  <2>4. n \notin S
    BY <2>2, <2>3 DEF SharedWith
  <2>5. prev_ns[n] \in S
    BY Zenon, <2>1, <2>2 DEF SharedWith
  <2>6. ASSUME NEW m \in S, prev_ns[m] # NULL PROVE prev_ns[m] \in S
    <3>1. prev_ns[m] \in NS
      BY Zenon, <2>1, <2>6
    <3>2. PICK b \in 2..Len(versions[m]) : SharedWith(m, prev_ns[m], b)
      BY Zenon, <2>1, <2>6
    <3>3. b < B
      BY Zenon, <2>6, <3>2 DEF SharedWith
    <3>4. ASSUME NEW a \in 2..Len(versions[prev_ns[m]]), prev_ns[prev_ns[m]] # NULL, BornAt(prev_ns[m], a)
          PROVE  a < B
      <4>1. a < b
        BY Zenon, <3>2, <3>4 DEF SharedWith
      <4> QED BY <4>1, <3>1, <3>3, <2>2, <2>3
    <3> QED BY Zenon, <3>1, <3>4
  <2> HIDE DEF S
  <2>7. S \in SUBSET NS
    BY Zenon DEF S
  <2> QED BY Zenon, <2>4, <2>5, <2>6, <2>7 DEF Lineage
<1> QED
  BY <1>1, TypeCorrect, AtMostOneStaleTheorem, Shared, PTL

-----------------------------------------------------------------------------
\* In a namespace that was never renamed each update starts from the version
\* before it: kvolve_upd_spec compares from_vers with the last version.
THEOREM Chain == RegistrySpec => []UpdatesChain
<1>1. RegistryInit => UpdatesChain
  BY DEF RegistryInit, UpdatesChain
<1>2. HistoryInv /\ UpdatesChain /\ [RegistryNext]_registryVars => UpdatesChain'
  <2> SUFFICES ASSUME HistoryInv, UpdatesChain, [RegistryNext]_registryVars,
                      NEW n \in NS, prev_ns'[n] = NULL, NEW i \in 2..Len(info'[n])
               PROVE  info'[n][i].from_vers = versions'[n][i - 1]
    BY Zenon DEF UpdatesChain
  <2>1. CASE UNCHANGED tableVars
    BY Zenon, <2>1 DEF tableVars, UpdatesChain
  <2>2. CASE \E C, vOf : Declares(C, vOf)
    <3>1. PICK C, vOf : Declares(C, vOf)
      BY Zenon, <2>2
    <3>2. CASE n \in C
      BY <3>1, <3>2 DEF Declares
    <3>3. CASE n \notin C
      BY Zenon, <3>1, <3>3 DEF Declares, UpdatesChain
    <3> QED BY Zenon, <3>2, <3>3
  <2>3. CASE \E u \in Updates : Renames(u)
    <3>1. PICK u \in Updates : Renames(u)
      BY Zenon, <2>3
    <3>2. n # u.to_ns
      BY Zenon, <3>1, UpdateFacts, RegistryAssumption DEF Renames
    <3> QED BY <3>1, <3>2 DEF Renames, UpdatesChain
  <2>4. CASE \E u \in Updates : Upgrades(u)
    <3>1. PICK u \in Updates : Upgrades(u)
      BY Zenon, <2>4
    <3>2. CASE n # u.to_ns
      <4>1. versions'[n] = versions[n] /\ info'[n] = info[n] /\ prev_ns' = prev_ns
        BY Zenon, <3>1, <3>2 DEF Upgrades
      <4> QED BY Zenon, <4>1 DEF UpdatesChain
    <3>3. CASE n = u.to_ns
      <4>1. PICK k \in Nat : k = Len(versions[n])
        BY Zenon, FieldTypes DEF HistoryInv
      <4>2. /\ Len(info'[n]) = k + 1 /\ k = Len(info[n]) /\ info'[n][k + 1] = u
            /\ \A j \in 1..k : versions'[n][j] = versions[n][j] /\ info'[n][j] = info[n][j]
        <5>1. k = Len(info[n])
          BY Zenon, <4>1 DEF HistoryInv, HistoryAligned
        <5>2. versions'[n] = Append(versions[n], u.to_vers) /\ info'[n] = Append(info[n], u)
          BY Zenon, <3>1, <3>3 DEF Upgrades
        <5>3. /\ Len(info'[n]) = Len(info[n]) + 1 /\ info'[n][Len(info[n]) + 1] = u
              /\ \A j \in 1..Len(versions[n]) : versions'[n][j] = versions[n][j]
              /\ \A j \in 1..Len(info[n]) : info'[n][j] = info[n][j]
          BY <5>2, Grown DEF HistoryInv
        <5> QED BY Zenon, <4>1, <5>1, <5>3
      <4>3. CASE i = k + 1
        <5>1. i - 1 = k /\ k \in 1..k
          BY <4>2, <4>3
        <5>2. versions[n][k] = u.from_vers
          BY Zenon, <3>1, <3>3, <4>1 DEF Upgrades, Latest
        <5> QED BY Zenon, <4>2, <4>3, <5>1, <5>2
      <4>4. CASE i # k + 1
        <5>1. i \in 2..k /\ i \in 1..k /\ i - 1 \in 1..k
          BY <4>2, <4>4
        <5>2. info[n][i].from_vers = versions[n][i - 1]
          BY Zenon, <3>1, <4>2, <5>1 DEF UpdatesChain, Upgrades
        <5> QED BY Zenon, <4>2, <5>1, <5>2
      <4> QED BY Zenon, <4>3, <4>4
    <3> QED BY Zenon, <3>2, <3>3
  <2> QED BY Zenon, <2>1, <2>2, <2>3, <2>4, TableSteps DEF HistoryInv
<1> QED
  BY <1>1, <1>2, TypeCorrect, Aligned, AtMostOneStaleTheorem, PTL DEF RegistrySpec, HistoryInv

\* A version number comes back in a history only through a rename: an update
\* within a namespace is turned down when its to_vers is already there.
THEOREM Repeats == RegistrySpec => []RepeatsOnlyByRename
<1>1. RegistryInit => RepeatsOnlyByRename
  BY DEF RegistryInit, RepeatsOnlyByRename
<1>2. HistoryInv /\ RepeatsOnlyByRename /\ [RegistryNext]_registryVars => RepeatsOnlyByRename'
  <2> SUFFICES ASSUME HistoryInv, RepeatsOnlyByRename, [RegistryNext]_registryVars,
                      NEW n \in NS, NEW i \in 1..Len(versions'[n]), NEW j \in 1..Len(versions'[n]),
                      i < j, versions'[n][i] = versions'[n][j]
               PROVE  info'[n][j].from_ns # info'[n][j].to_ns
    BY Zenon DEF RepeatsOnlyByRename
  <2>1. CASE UNCHANGED tableVars
    BY Zenon, <2>1 DEF tableVars, RepeatsOnlyByRename
  <2>2. CASE \E C, vOf : Declares(C, vOf)
    <3>1. PICK C, vOf : Declares(C, vOf)
      BY Zenon, <2>2
    <3>2. CASE n \in C
      <4>1. versions'[n] = <<vOf[n]>>
        BY Zenon, <3>1, <3>2 DEF Declares
      <4>2. Len(versions'[n]) = 1
        BY <4>1
      <4> QED BY <4>2
    <3>3. CASE n \notin C
      <4>1. versions'[n] = versions[n] /\ info'[n] = info[n]
        BY Zenon, <3>1, <3>3 DEF Declares
      <4> QED BY Zenon, <4>1 DEF RepeatsOnlyByRename
    <3> QED BY Zenon, <3>2, <3>3
  <2>3. ASSUME NEW u \in Updates, NEW f \in NS,
               versions'[n] = Append(versions[f], u.to_vers), info'[n] = Append(info[f], u),
               u.from_ns = u.to_ns => u.to_vers \notin Elements(versions[f])
        PROVE  info'[n][j].from_ns # info'[n][j].to_ns
    <3>1. PICK k \in Nat : k = Len(versions[f])
      BY Zenon, FieldTypes DEF HistoryInv
    <3>2. /\ Len(versions'[n]) = k + 1 /\ info'[n][k + 1] = u /\ versions'[n][k + 1] = u.to_vers
          /\ \A x \in 1..k : versions'[n][x] = versions[f][x] /\ info'[n][x] = info[f][x]
      <4>1. RegistryTypeOK
        BY Zenon DEF HistoryInv
      <4>2. Len(info[f]) = k
        BY Zenon, <3>1 DEF HistoryInv, HistoryAligned
      <4>3. /\ Len(versions'[n]) = Len(versions[f]) + 1 /\ info'[n][Len(info[f]) + 1] = u
            /\ versions'[n][Len(versions[f]) + 1] = u.to_vers
            /\ \A x \in 1..Len(versions[f]) : versions'[n][x] = versions[f][x]
            /\ \A x \in 1..Len(info[f]) : info'[n][x] = info[f][x]
        BY <2>3, <4>1, Grown
      <4> QED BY Zenon, <3>1, <4>2, <4>3
    <3>3. CASE j = k + 1
      <4>1. i \in 1..k
        BY <3>2, <3>3
      <4>2. versions[f] \in Seq(Vers) /\ DOMAIN versions[f] = 1..k
        BY <3>1, FieldTypes DEF HistoryInv
      <4>3. u.to_vers \in Elements(versions[f])
        BY Zenon, <3>2, <3>3, <4>1, <4>2 DEF Elements
      <4> QED BY Zenon, <2>3, <3>2, <3>3, <4>3
    <3>4. CASE j # k + 1
      <4>1. i \in 1..k /\ j \in 1..k
        BY <3>2, <3>4
      <4> QED BY <3>1, <3>2, <4>1 DEF RepeatsOnlyByRename
    <3> QED BY Zenon, <3>3, <3>4
  <2>4. CASE \E u \in Updates : Renames(u)
    <3>1. PICK u \in Updates : Renames(u)
      BY Zenon, <2>4
    <3>2. CASE n = u.to_ns
      <4>1. /\ u.from_ns # u.to_ns /\ versions'[n] = Append(versions[u.from_ns], u.to_vers)
            /\ info'[n] = Append(info[u.from_ns], u)
        BY Zenon, <3>1, <3>2 DEF Renames
      <4>2. u.from_ns \in NS
        BY Zenon, UpdateFacts
      <4> QED BY Zenon, <2>3, <4>1, <4>2
    <3>3. CASE n # u.to_ns
      <4>1. versions'[n] = versions[n] /\ info'[n] = info[n]
        BY Zenon, <3>1, <3>3 DEF Renames
      <4> QED BY Zenon, <4>1 DEF RepeatsOnlyByRename
    <3> QED BY Zenon, <3>2, <3>3
  <2>5. CASE \E u \in Updates : Upgrades(u)
    <3>1. PICK u \in Updates : Upgrades(u)
      BY Zenon, <2>5
    <3>2. CASE n = u.to_ns
      BY Zenon, <2>3, <3>1, <3>2 DEF Upgrades
    <3>3. CASE n # u.to_ns
      <4>1. versions'[n] = versions[n] /\ info'[n] = info[n]
        BY Zenon, <3>1, <3>3 DEF Upgrades
      <4> QED BY Zenon, <4>1 DEF RepeatsOnlyByRename
    <3> QED BY Zenon, <3>2, <3>3
  <2> QED BY Zenon, <2>1, <2>2, <2>4, <2>5, TableSteps DEF HistoryInv
<1> QED
  BY <1>1, <1>2, TypeCorrect, Aligned, AtMostOneStaleTheorem, PTL DEF RegistrySpec, HistoryInv

-----------------------------------------------------------------------------
(* Updates used as documented make no client stale *)

\* Registry commands with the documented updates only make no client stale.
LEMMA RegistryStepStale ==
    ASSUME RegistryTypeOK, RegistryTypeOK', TableConsistent, NoStaleClient, NEW c \in Client,
           TableStep(c)
    PROVE  NoStaleClient'
<1>1. CASE connect(c) \/ freeClient(c)
  BY Zenon, <1>1, ConnectionStale
<1>2. ASSUME NEW d \in Declarations, kvolve_check_version(c, d) PROVE NoStaleClient'
  <2>1. StaleInv
    BY Zenon DEF StaleInv, AtMostOneStale, NoStaleClient
  <2>2. \A n \in NS, x \in Client : Stale(x, n)' => Stale(x, n)
    BY Zenon, <1>2, <2>1, StaleInvSetname
  <2> QED BY Zenon, <2>2 DEF NoStaleClient
<1>3. ASSUME NEW u \in Updates, DocumentedUpdate(c, u), kvolve_load_update(c, u)
      PROVE  NoStaleClient'
  <2>1. u.from_vers # NULL
    BY Zenon, UpdateFacts, RegistryAssumption
  <2>2. \/ upd_spec_accepts(u) => declared[c][u.from_ns] # NULL
        \/ \A d \in Client : conn[d] = "open" => declared[d][u.from_ns] = NULL
    BY Zenon, <1>3, <2>1 DEF DocumentedUpdate
  <2> QED BY Zenon, <1>3, <2>2, MemberUpdateStale, OutsideUpdateStale
<1> QED BY Zenon, <1>1, <1>2, <1>3 DEF TableStep

\* At the start nobody has declared anything.
LEMMA NoStaleInit == RegistryInit => NoStaleClient
BY Zenon DEF RegistryInit, NoStaleClient, Stale

\* What is not touched is not stale.
LEMMA NoStaleUnchanged == NoStaleClient /\ UNCHANGED registryVars => NoStaleClient'
BY DEF NoStaleClient, Stale, Latest, registryVars

-----------------------------------------------------------------------------
(* The histories that documented updates make *)

\* What an entry of a history is.
LEMMA HistoryFacts ==
    ASSUME RegistryTypeOK, HistoryAligned, NEW n \in NS, NEW i \in 2..Len(versions[n])
    PROVE  /\ info[n][i] \in UpdInfo /\ info[n][i] # NULL
           /\ info[n][i].from_ns \in NS /\ info[n][i].to_vers = versions[n][i]
<1>1. info[n] \in Seq(UpdInfo \cup {NULL}) /\ Len(info[n]) = Len(versions[n]) /\ Len(versions[n]) \in Nat
  BY DEF RegistryTypeOK, HistoryAligned
<1>2. i \in 1..Len(info[n]) /\ i # 1
  BY <1>1
<1>3. info[n][i] # NULL /\ info[n][i].to_vers = versions[n][i]
  BY Zenon, <1>2 DEF HistoryAligned
<1>4. info[n][i] \in UpdInfo \cup {NULL}
  BY <1>1, <1>2
<1> QED BY Zenon, <1>3, <1>4 DEF UpdInfo

\* The three ways a documented step changes the table.
LEMMA DocumentedSteps ==
    ASSUME RegistryTypeOK, NEW c \in Client, TableStep(c)
    PROVE  \/ UNCHANGED tableVars
           \/ \E C, vOf : Declares(C, vOf)
           \/ \E u \in Updates : Renames(u) /\ Documented(u)
           \/ \E u \in Updates : Upgrades(u) /\ Documented(u)
<1>1. CASE connect(c) \/ freeClient(c)
  BY Zenon, <1>1 DEF connect, freeClient
<1>2. ASSUME NEW d \in Declarations, kvolve_check_version(c, d)
      PROVE  UNCHANGED tableVars \/ \E C, vOf : Declares(C, vOf)
  BY Zenon, <1>2, DeclareStep
<1>3. ASSUME NEW u \in Updates, DocumentedUpdate(c, u), kvolve_load_update(c, u)
      PROVE  UNCHANGED tableVars \/ ((Renames(u) \/ Upgrades(u)) /\ Documented(u))
  <2>1. CASE upd_spec_rejected(c, u)
    BY Zenon, <2>1 DEF upd_spec_rejected, registryVars, tableVars
  <2>2. CASE upd_spec_new_ns(c, u)
    <3>1. upd_spec_accepts(u)
      BY Zenon, <2>2 DEF upd_spec_new_ns
    <3> QED BY Zenon, <1>3, <2>2, <3>1, LoadStep DEF DocumentedUpdate, Documented
  <2>3. CASE upd_spec_same_ns(c, u)
    <3>1. upd_spec_accepts(u)
      BY Zenon, <2>3 DEF upd_spec_same_ns
    <3> QED BY Zenon, <1>3, <2>3, <3>1, LoadStep DEF DocumentedUpdate, Documented
  <2> QED BY Zenon, <1>3, <2>1, <2>2, <2>3 DEF kvolve_load_update
<1> QED BY Zenon, <1>1, <1>2, <1>3 DEF TableStep

\* Declaring namespaces keeps the histories in order.
LEMMA DocDeclares ==
    ASSUME RegistryTypeOK, TableConsistent, HistoryAligned, DocHistory,
           NEW C, NEW vOf, Declares(C, vOf)
    PROVE  DocHistory'
<1> SUFFICES ASSUME NEW n \in NS PROVE HistoryOf(n)' /\ LinksOf(n)'
  BY Zenon DEF DocHistory
<1>1. HistoryOf(n) /\ LinksOf(n)
  BY Zenon DEF DocHistory
<1>2. \A m \in NS : Registered(m) => versions'[m] = versions[m] /\ info'[m] = info[m] /\ Registered(m)'
  BY Zenon DEF Declares, Registered
<1>3. prev_ns' = prev_ns /\ next_ns' = next_ns
  BY Zenon DEF Declares
<1>4. \A m \in NS : prev_ns[m] # NULL => prev_ns[m] \in NS /\ Registered(prev_ns[m]) /\ Registered(m)
  BY Zenon, FieldTypes DEF DocHistory, LinksOf, TableConsistent
<1>5. CASE Registered(n)
  <2>1. HistoryOf(n)'
    <3>1. ASSUME NEW i \in 2..Len(versions[n])
          PROVE  /\ versions'[info[n][i].from_ns] # << >>
                 /\ prev_ns[info[n][i].from_ns] # NULL =>
                      i > Len(versions'[prev_ns[info[n][i].from_ns]]) + 1
      <4>1. info[n][i].from_ns \in NS /\ Registered(info[n][i].from_ns)
        BY Zenon, <1>1, HistoryFacts DEF HistoryOf
      <4>2. prev_ns[info[n][i].from_ns] # NULL =>
              versions'[prev_ns[info[n][i].from_ns]] = versions[prev_ns[info[n][i].from_ns]]
        BY Zenon, <1>2, <1>4, <4>1
      <4>3. versions'[info[n][i].from_ns] # << >>
        BY Zenon, <1>2, <4>1 DEF Registered
      <4> QED BY Zenon, <1>1, <4>2, <4>3 DEF HistoryOf
    <3>2. versions'[n] = versions[n] /\ info'[n] = info[n]
      BY Zenon, <1>2, <1>5
    <3> QED BY Zenon, <1>1, <1>3, <3>1, <3>2 DEF HistoryOf, Registered
  <2>2. LinksOf(n)'
    BY Zenon, <1>1, <1>2, <1>3, <1>4, <1>5 DEF LinksOf
  <2> QED BY Zenon, <2>1, <2>2
<1>6. CASE ~Registered(n)
  <2>1. Len(versions'[n]) \in {0, 1}
    <3>1. versions'[n] = << >> \/ versions'[n] = <<vOf[n]>>
      BY Zenon, <1>6 DEF Declares, Registered
    <3>2. CASE versions'[n] = << >>
      BY Zenon, <3>2
    <3>3. CASE versions'[n] = <<vOf[n]>>
      BY Zenon, <3>3
    <3> QED BY Zenon, <3>1, <3>2, <3>3
  <2>2. prev_ns[n] = NULL /\ next_ns[n] = NULL
    BY Zenon, <1>6 DEF TableConsistent
  <2>3. HistoryOf(n)'
    <3>1. PICK k \in 0..1 : Len(versions'[n]) = k
      BY <2>1
    <3>2. \A i, j \in 1..Len(versions'[n]) : i = j
      BY <3>1
    <3>3. \A i \in 2..Len(versions'[n]) : FALSE
      BY <3>1
    <3> QED BY Zenon, <3>2, <3>3 DEF HistoryOf
  <2> QED BY Zenon, <1>3, <2>2, <2>3 DEF LinksOf
<1> QED BY Zenon, <1>5, <1>6

\* A namespace whose entry is not appended to keeps its history: the names in it
\* are registered, so a new name is none of them, and the ones that were renamed
\* are not appended to.
LEMMA HistoryKept ==
    ASSUME RegistryTypeOK, HistoryAligned, DocHistory, NEW n \in NS,
           versions'[n] = versions[n], info'[n] = info[n],
           \A m \in NS : Registered(m) =>
             /\ versions'[m] # << >> /\ prev_ns'[m] = prev_ns[m]
             /\ prev_ns[m] # NULL => versions'[prev_ns[m]] = versions[prev_ns[m]]
    PROVE  HistoryOf(n)'
<1>1. HistoryOf(n)
  BY Zenon DEF DocHistory
<1>2. ASSUME NEW i \in 2..Len(versions[n])
      PROVE  /\ versions'[info[n][i].from_ns] # << >>
             /\ prev_ns'[info[n][i].from_ns] # NULL =>
                  i > Len(versions'[prev_ns'[info[n][i].from_ns]]) + 1
  <2>1. info[n][i].from_ns \in NS /\ Registered(info[n][i].from_ns)
    BY Zenon, <1>1, HistoryFacts DEF HistoryOf
  <2>2. /\ versions'[info[n][i].from_ns] # << >>
        /\ prev_ns'[info[n][i].from_ns] = prev_ns[info[n][i].from_ns]
        /\ prev_ns[info[n][i].from_ns] # NULL =>
             versions'[prev_ns[info[n][i].from_ns]] = versions[prev_ns[info[n][i].from_ns]]
    BY Zenon, <2>1
  <2> QED BY Zenon, <1>1, <2>2 DEF HistoryOf
<1> QED BY Zenon, <1>1, <1>2 DEF HistoryOf, Registered

\* A documented update appends to the history of f, under the name t, the version
\* it leads to: nothing is repeated and the chain goes on.
LEMMA HistoryGrown ==
    ASSUME RegistryTypeOK, HistoryAligned, DocHistory, NEW u \in Updates, Documented(u),
           NEW t \in NS, Registered(u.from_ns),
           versions'[t] = Append(versions[u.from_ns], u.to_vers),
           info'[t] = Append(info[u.from_ns], u),
           \A m \in NS : Registered(m) =>
             /\ versions'[m] # << >> /\ prev_ns'[m] = prev_ns[m]
             /\ prev_ns[m] # NULL => versions'[prev_ns[m]] = versions[prev_ns[m]]
    PROVE  HistoryOf(t)'
<1> DEFINE f == u.from_ns
           k == Len(versions[f])
<1>1. f \in NS /\ u \in UpdInfo /\ HistoryOf(f) /\ LinksOf(f)
  BY Zenon, UpdateFacts DEF DocHistory
<1>2. k \in Nat /\ Len(info[f]) = k
  BY Zenon, <1>1, FieldTypes DEF HistoryAligned
<1>3. /\ Len(versions'[t]) = k + 1
      /\ \A i \in 1..k : versions'[t][i] = versions[f][i] /\ info'[t][i] = info[f][i]
      /\ versions'[t][k + 1] = u.to_vers /\ info'[t][k + 1] = u
  BY <1>1, <1>2, Grown
<1>4. \A i \in 1..k : versions[f][i] # u.to_vers
  <2>1. versions[f] \in Seq(Vers)
    BY Zenon, <1>1, FieldTypes
  <2>2. DOMAIN versions[f] = 1..k
    BY <2>1
  <2> QED BY Zenon, <2>2 DEF Documented, Elements
<1>5. k > 0 /\ versions[f][k] = u.from_vers
  <2>1. versions[f] \in Seq(Vers) /\ versions[f] # << >>
    BY Zenon, <1>1, FieldTypes DEF Registered
  <2>2. k > 0
    BY <2>1
  <2> QED BY Zenon, <2>2 DEF Documented, Latest
<1>6. /\ versions'[f] # << >> /\ prev_ns'[f] = prev_ns[f]
      /\ prev_ns[f] # NULL => k + 1 > Len(versions'[prev_ns'[f]]) + 1
  <2>1. prev_ns[f] # NULL => prev_ns[f] \in NS /\ Len(versions[prev_ns[f]]) < k
    BY Zenon, <1>1, FieldTypes DEF LinksOf
  <2>2. prev_ns[f] # NULL => Len(versions[prev_ns[f]]) \in Nat
    BY Zenon, <2>1, FieldTypes
  <2> QED BY <1>1, <1>2, <2>1, <2>2
<1>7. ASSUME NEW i \in 2..k
      PROVE  /\ info[f][i].from_vers = versions[f][i - 1]
             /\ versions'[info[f][i].from_ns] # << >>
             /\ prev_ns'[info[f][i].from_ns] # NULL =>
                  i > Len(versions'[prev_ns'[info[f][i].from_ns]]) + 1
  <2>1. info[f][i].from_ns \in NS /\ Registered(info[f][i].from_ns)
    BY Zenon, <1>1, HistoryFacts DEF HistoryOf
  <2>2. /\ versions'[info[f][i].from_ns] # << >>
        /\ prev_ns'[info[f][i].from_ns] = prev_ns[info[f][i].from_ns]
        /\ prev_ns[info[f][i].from_ns] # NULL =>
             versions'[prev_ns[info[f][i].from_ns]] = versions[prev_ns[info[f][i].from_ns]]
    BY Zenon, <2>1
  <2> QED BY Zenon, <1>1, <2>2 DEF HistoryOf
<1>8. \A i, j \in 1..k : versions[f][i] = versions[f][j] => i = j
  BY Zenon, <1>1 DEF HistoryOf
<1> HIDE DEF f, k
<1>9. Len(versions'[t]) = k + 1
  BY Zenon, <1>3
<1>10. ASSUME NEW i \in 1..Len(versions'[t]), NEW j \in 1..Len(versions'[t]),
              versions'[t][i] = versions'[t][j]
       PROVE  i = j
  <2>1. (i \in 1..k \/ i = k + 1) /\ (j \in 1..k \/ j = k + 1)
    BY <1>2, <1>9
  <2>2. CASE i \in 1..k /\ j \in 1..k
    <3>1. versions[f][i] = versions[f][j]
      BY Zenon, <1>3, <1>10, <2>2
    <3> QED BY Zenon, <1>8, <2>2, <3>1
  <2>3. CASE i \in 1..k /\ j = k + 1
    <3>1. versions[f][i] = u.to_vers
      BY Zenon, <1>3, <1>10, <2>3
    <3> QED BY Zenon, <1>4, <2>3, <3>1
  <2>4. CASE i = k + 1 /\ j \in 1..k
    <3>1. versions[f][j] = u.to_vers
      BY Zenon, <1>3, <1>10, <2>4
    <3> QED BY Zenon, <1>4, <2>4, <3>1
  <2> QED BY Zenon, <2>1, <2>2, <2>3, <2>4
<1>11. ASSUME NEW i \in 2..Len(versions'[t])
       PROVE  /\ info'[t][i].from_vers = versions'[t][i - 1]
              /\ versions'[info'[t][i].from_ns] # << >>
              /\ prev_ns'[info'[t][i].from_ns] # NULL =>
                   i > Len(versions'[prev_ns'[info'[t][i].from_ns]]) + 1
  <2>1. CASE i \in 2..k
    <3>1. i \in 1..k /\ i - 1 \in 1..k
      BY <1>2, <2>1
    <3>2. info'[t][i] = info[f][i] /\ versions'[t][i - 1] = versions[f][i - 1]
      BY Zenon, <1>3, <3>1
    <3> QED BY Zenon, <1>7, <2>1, <3>2
  <2>2. CASE i = k + 1
    <3>1. i - 1 = k /\ k \in 1..k
      BY <1>2, <1>5, <2>2
    <3>2. info'[t][i] = u /\ u.from_ns = f
      BY Zenon, <1>3, <2>2 DEF f
    <3>3. versions'[t][k] = u.from_vers
      BY Zenon, <1>3, <1>5, <3>1
    <3>4. prev_ns'[f] # NULL => i > Len(versions'[prev_ns'[f]]) + 1
      BY Zenon, <1>6, <2>2
    <3> QED BY Zenon, <1>6, <3>1, <3>2, <3>3, <3>4
  <2>3. i \in 2..k \/ i = k + 1
    BY <1>2, <1>9
  <2> QED BY Zenon, <2>1, <2>2, <2>3
<1> QED BY Zenon, <1>10, <1>11 DEF HistoryOf, Registered

\* A documented rename keeps the histories in order: the new name goes on where
\* the old one stops for good.
LEMMA DocRenames ==
    ASSUME RegistryTypeOK, TableConsistent, HistoryAligned, DocHistory,
           NEW u \in Updates, Renames(u), Documented(u)
    PROVE  DocHistory'
<1> DEFINE f == u.from_ns
           t == u.to_ns
<1>1. f \in NS /\ t \in NS /\ f # t /\ Registered(f) /\ ~Registered(t)
  BY Zenon, UpdateFacts DEF Renames
<1>2. \A m \in NS : prev_ns[m] # NULL =>
        /\ prev_ns[m] \in NS /\ Registered(prev_ns[m]) /\ next_ns[prev_ns[m]] = m /\ prev_ns[m] # m
        /\ prev_ns[m] # t
  BY Zenon, <1>1, FieldTypes DEF DocHistory, LinksOf
<1>3. /\ \A m \in NS \ {t} : versions'[m] = versions[m] /\ info'[m] = info[m] /\ prev_ns'[m] = prev_ns[m]
      /\ \A m \in NS \ {f} : next_ns'[m] = next_ns[m]
      /\ versions'[t] = Append(versions[f], u.to_vers) /\ info'[t] = Append(info[f], u)
      /\ prev_ns'[t] = f /\ next_ns'[f] = t
  BY Zenon DEF Renames
<1>4. \A m \in NS : Registered(m) =>
        /\ versions'[m] # << >> /\ prev_ns'[m] = prev_ns[m]
        /\ prev_ns[m] # NULL => versions'[prev_ns[m]] = versions[prev_ns[m]]
  BY Zenon, <1>1, <1>2, <1>3 DEF Registered
<1>5. prev_ns[t] = NULL /\ next_ns[t] = NULL /\ next_ns[f] = NULL
  BY Zenon, <1>1 DEF TableConsistent, Documented
<1>6. ASSUME NEW n \in NS PROVE HistoryOf(n)'
  <2>1. CASE n = t
    BY Zenon, <1>1, <1>3, <1>4, <2>1, HistoryGrown
  <2>2. CASE n # t
    BY Zenon, <1>3, <1>4, <2>2, HistoryKept
  <2> QED BY Zenon, <2>1, <2>2
<1>7. ASSUME NEW n \in NS PROVE LinksOf(n)'
  <2>1. CASE n = t
    <3>1. /\ Len(versions'[t]) = Len(versions[f]) + 1
          /\ \A i \in 1..Len(versions[f]) : versions'[t][i] = versions[f][i]
      BY <1>1, <1>3, Grown
    <3>2. Len(versions[f]) \in Nat /\ versions'[f] = versions[f] /\ Registered(f)'
      BY Zenon, <1>1, <1>3, FieldTypes DEF Registered
    <3>3. Len(versions'[f]) < Len(versions'[t])
      BY <3>1, <3>2
    <3>4. next_ns'[t] = NULL /\ prev_ns'[t] = f /\ next_ns'[f] = t
      BY Zenon, <1>1, <1>3, <1>5
    <3> QED BY Zenon, <1>1, <2>1, <3>1, <3>2, <3>3, <3>4 DEF LinksOf, Registered
  <2>2. CASE n # t
    <3>1. LinksOf(n) /\ versions'[n] = versions[n] /\ prev_ns'[n] = prev_ns[n]
      BY Zenon, <1>3, <2>2 DEF DocHistory
    <3>2. ASSUME prev_ns[n] # NULL
          PROVE  /\ versions'[prev_ns[n]] = versions[prev_ns[n]]
                 /\ next_ns'[prev_ns[n]] = next_ns[prev_ns[n]]
      <4>1. prev_ns[n] \in NS /\ prev_ns[n] # t /\ next_ns[prev_ns[n]] = n
        BY Zenon, <1>2, <3>2
      <4>2. prev_ns[n] # f
        BY Zenon, <1>5, <4>1, RegistryAssumption
      <4> QED BY Zenon, <1>3, <4>1, <4>2
    <3>3. ASSUME next_ns'[n] # NULL PROVE prev_ns'[next_ns'[n]] = n
      <4>1. CASE n = f
        BY Zenon, <1>3, <4>1
      <4>2. CASE n # f
        <5>1. next_ns'[n] = next_ns[n]
          BY Zenon, <1>3, <4>2
        <5>2. next_ns[n] \in NS /\ prev_ns[next_ns[n]] = n
          BY Zenon, <3>1, <3>3, <5>1, FieldTypes DEF LinksOf
        <5>3. next_ns[n] # t
          BY Zenon, <1>5, <5>2, RegistryAssumption
        <5> QED BY Zenon, <1>3, <5>1, <5>2, <5>3
      <4> QED BY Zenon, <4>1, <4>2
    <3> QED BY Zenon, <3>1, <3>2, <3>3 DEF LinksOf, Registered
  <2> QED BY Zenon, <2>1, <2>2
<1> QED BY Zenon, <1>6, <1>7 DEF DocHistory

\* So does a documented update within a namespace: nothing was renamed from it.
LEMMA DocUpgrades ==
    ASSUME RegistryTypeOK, TableConsistent, HistoryAligned, DocHistory,
           NEW u \in Updates, Upgrades(u), Documented(u)
    PROVE  DocHistory'
<1> DEFINE t == u.to_ns
<1>1. t \in NS /\ u.from_ns = t /\ Registered(t) /\ next_ns[t] = NULL
  BY Zenon, UpdateFacts DEF Upgrades, Documented
<1>2. \A m \in NS : prev_ns[m] # NULL =>
        prev_ns[m] \in NS /\ next_ns[prev_ns[m]] = m /\ prev_ns[m] # t
  BY <1>1, FieldTypes, RegistryAssumption DEF DocHistory, LinksOf
<1>3. /\ \A m \in NS \ {t} : versions'[m] = versions[m] /\ info'[m] = info[m]
      /\ versions'[t] = Append(versions[t], u.to_vers) /\ info'[t] = Append(info[t], u)
      /\ prev_ns' = prev_ns /\ next_ns' = next_ns
  BY Zenon DEF Upgrades
<1>4. /\ Len(versions'[t]) = Len(versions[t]) + 1 /\ versions'[t] # << >>
      /\ \A i \in 1..Len(versions[t]) : versions'[t][i] = versions[t][i]
  BY <1>1, <1>3, Grown
<1>5. \A m \in NS : Registered(m) =>
        /\ versions'[m] # << >> /\ prev_ns'[m] = prev_ns[m]
        /\ prev_ns[m] # NULL => versions'[prev_ns[m]] = versions[prev_ns[m]]
  BY Zenon, <1>1, <1>2, <1>3, <1>4 DEF Registered
<1>6. ASSUME NEW n \in NS PROVE HistoryOf(n)'
  <2>1. CASE n = t
    BY <1>1, <1>3, <1>5, <2>1, HistoryGrown
  <2>2. CASE n # t
    BY Zenon, <1>3, <1>5, <2>2, HistoryKept
  <2> QED BY Zenon, <2>1, <2>2
<1>7. ASSUME NEW n \in NS PROVE LinksOf(n)'
  <2>1. LinksOf(n) /\ prev_ns'[n] = prev_ns[n] /\ next_ns'[n] = next_ns[n]
    BY Zenon, <1>3 DEF DocHistory
  <2>2. ASSUME prev_ns[n] # NULL
        PROVE  /\ versions'[prev_ns[n]] = versions[prev_ns[n]]
               /\ Len(versions[prev_ns[n]]) < Len(versions'[n])
               /\ \A i \in 1..Len(versions[prev_ns[n]]) : versions'[n][i] = versions[prev_ns[n]][i]
    <3>1. prev_ns[n] \in NS \ {t}
      BY Zenon, <1>2, <2>2
    <3>2. versions'[prev_ns[n]] = versions[prev_ns[n]]
      BY Zenon, <1>3, <3>1
    <3>3. /\ Len(versions[prev_ns[n]]) < Len(versions[n])
          /\ \A i \in 1..Len(versions[prev_ns[n]]) : versions[n][i] = versions[prev_ns[n]][i]
      BY Zenon, <2>1, <2>2 DEF LinksOf
    <3>4. Len(versions[prev_ns[n]]) \in Nat /\ Len(versions[n]) \in Nat
      BY Zenon, <3>1, FieldTypes
    <3>5. CASE n = t
      <4>1. Len(versions[prev_ns[n]]) < Len(versions'[n])
        BY <1>4, <3>3, <3>4, <3>5
      <4>2. \A i \in 1..Len(versions[prev_ns[n]]) : i \in 1..Len(versions[n])
        BY <3>3, <3>4
      <4> QED BY Zenon, <1>4, <3>2, <3>3, <3>5, <4>1, <4>2
    <3>6. CASE n # t
      BY Zenon, <1>3, <3>2, <3>3, <3>6
    <3> QED BY Zenon, <3>5, <3>6
  <2> QED BY Zenon, <1>3, <2>1, <2>2 DEF LinksOf, Registered
<1> QED BY Zenon, <1>6, <1>7 DEF DocHistory

\* At the start the table is empty.
LEMMA TableInvInit == RegistryInit => TableInv
<1> SUFFICES ASSUME RegistryInit PROVE TableInv
  BY Zenon
<1>1. RegistryTypeOK /\ TableConsistent /\ HistoryAligned
  BY RegistryAssumption DEF RegistryInit, RegistryTypeOK, TableConsistent, HistoryAligned
<1>2. ASSUME NEW n \in NS PROVE HistoryOf(n) /\ LinksOf(n)
  <2>1. versions[n] = << >> /\ prev_ns[n] = NULL /\ next_ns[n] = NULL
    BY Zenon DEF RegistryInit
  <2> QED BY <2>1 DEF HistoryOf, LinksOf
<1> QED BY Zenon, <1>1, <1>2, NoStaleInit DEF TableInv, DocHistory

\* What does not touch the registry keeps it in order.
LEMMA TableInvUnchanged == ASSUME TableInv, UNCHANGED registryVars PROVE TableInv'
<1>1. NoStaleClient'
  BY Zenon, NoStaleUnchanged DEF TableInv
<1>2. DocHistory'
  <2>1. versions' = versions /\ info' = info /\ prev_ns' = prev_ns /\ next_ns' = next_ns
    BY Zenon DEF registryVars
  <2>2. ASSUME NEW n \in NS PROVE HistoryOf(n)' /\ LinksOf(n)'
    <3>1. HistoryOf(n) /\ LinksOf(n)
      BY Zenon DEF TableInv, DocHistory
    <3>2. HistoryOf(n)'
      BY Zenon, <2>1, <3>1 DEF HistoryOf, Registered
    <3>3. LinksOf(n)'
      BY Zenon, <2>1, <3>1 DEF LinksOf, Registered
    <3> QED BY Zenon, <3>2, <3>3
  <2> QED BY Zenon, <2>2 DEF DocHistory
<1> QED
  BY <1>1, <1>2 DEF TableInv, registryVars, RegistryTypeOK, TableConsistent, HistoryAligned, Registered

\* Connections, declarations and documented updates keep the registry in order.
LEMMA TableInvStep ==
    ASSUME TableInv, NEW c \in Client, TableStep(c)
    PROVE  TableInv'
<1> USE DEF TableInv
<1>1. RegistryNext
  BY Zenon DEF TableStep, RegistryNext
<1>2. RegistryTypeOK'
  BY Zenon, <1>1, TypeStep
<1>3. TableConsistent'
  BY Zenon, <1>1, <1>2, StaleStep DEF StaleInv, AtMostOneStale, NoStaleClient
<1>4. HistoryAligned'
  BY Zenon, <1>1, AlignedStep
<1>5. NoStaleClient'
  BY Zenon, <1>2, RegistryStepStale
<1>6. DocHistory'
  <2>1. CASE UNCHANGED tableVars
    BY <2>1 DEF tableVars, DocHistory, HistoryOf, LinksOf, Registered
  <2> QED BY Zenon, <2>1, DocumentedSteps, DocDeclares, DocRenames, DocUpgrades
<1> QED BY Zenon, <1>2, <1>3, <1>4, <1>5, <1>6

-----------------------------------------------------------------------------
(* Names that follow each other *)

\* Only kvolve_upd_spec links names.
LEMMA LinksStep ==
    ASSUME RegistryTypeOK, ByRename, [RegistryNext]_registryVars
    PROVE  ByRename'
<1>1. CASE prev_ns' = prev_ns
  BY Zenon, <1>1 DEF ByRename
<1>2. ASSUME NEW c \in Client, NEW u \in Updates, upd_spec_new_ns(c, u) PROVE ByRename'
  <2>1. u.from_ns # u.to_ns /\ prev_ns' = [prev_ns EXCEPT ![u.to_ns] = u.from_ns]
    BY Zenon, <1>2 DEF upd_spec_new_ns
  <2>2. \A n \in NS : prev_ns'[n] = IF n = u.to_ns THEN u.from_ns ELSE prev_ns[n]
    BY Zenon, <2>1 DEF RegistryTypeOK
  <2> QED BY <2>1, <2>2 DEF ByRename
<1> QED BY Zenon, <1>1, <1>2 DEF RegistryNext, registryVars, tableVars, connect, freeClient,
                          kvolve_check_version, kvolve_load_update, upd_spec_same_ns, upd_spec_rejected

\* An empty table has no links.
LEMMA LinksInit == RegistryInit => ByRename
BY Zenon DEF RegistryInit, ByRename

\* What a step of the registry does where updates are used as documented.
LEMMA RegistryFacts ==
    ASSUME TableInv, ByRename, NEW c \in Client, TableStep(c)
    PROVE  TableInv' /\ Grows /\ ByRename'
<1>1. RegistryNext
  BY Zenon DEF TableStep, RegistryNext
<1> QED BY Zenon, <1>1, TableInvStep, GrowsStep, LinksStep DEF TableInv

\* A namespace in the table keeps the names before it.
LEMMA LineageKept ==
    ASSUME TableInv, RegistryTypeOK', Grows, NEW n \in NS, Registered(n)
    PROVE  Root(n)' = Root(n)
<1> DEFINE R == {m \in NS : Registered(m)}
<1>1. /\ n \in R /\ R \in SUBSET NS
      /\ \A m \in R : prev_ns'[m] = prev_ns[m] /\ (prev_ns[m] # NULL => prev_ns[m] \in R)
  <2>1. ASSUME NEW m \in R PROVE prev_ns'[m] = prev_ns[m]
    BY Zenon, <2>1 DEF Grows
  <2>2. ASSUME NEW m \in R, prev_ns[m] # NULL PROVE prev_ns[m] \in R
    BY <2>2 DEF TableInv, RegistryTypeOK, DocHistory, LinksOf
  <2> QED BY Zenon, <2>1, <2>2
<1> HIDE DEF R
<1>2. ASSUME NEW m \in Lineage(n) PROVE m \in R /\ m \in NS
  BY Zenon, <1>1 DEF Lineage
<1>3. ASSUME NEW m \in Lineage(n) PROVE m \in Lineage(n)'
  <2> SUFFICES ASSUME NEW S \in SUBSET NS, n \in S, \A x \in S : prev_ns'[x] # NULL => prev_ns'[x] \in S
               PROVE  m \in S
    BY Zenon, <1>2 DEF Lineage
  <2> DEFINE Q == S \cap R
  <2>1. Q \in SUBSET NS /\ n \in Q /\ \A x \in Q : prev_ns[x] # NULL => prev_ns[x] \in Q
    BY Zenon, <1>1
  <2> HIDE DEF Q
  <2>2. m \in Q
    BY Zenon, <2>1 DEF Lineage
  <2> QED BY Zenon, <2>2 DEF Q
<1>4. ASSUME NEW m, m \in Lineage(n)' PROVE m \in Lineage(n)
  <2>1. m \in NS
    BY Zenon, <1>4 DEF Lineage
  <2> SUFFICES ASSUME NEW S \in SUBSET NS, n \in S, \A x \in S : prev_ns[x] # NULL => prev_ns[x] \in S
               PROVE  m \in S
    BY Zenon, <2>1 DEF Lineage
  <2> DEFINE Q == S \cap R
  <2>2. Q \in SUBSET NS /\ n \in Q /\ \A x \in Q : prev_ns'[x] # NULL => prev_ns'[x] \in Q
    BY Zenon, <1>1
  <2> HIDE DEF Q
  <2>3. m \in Q
    BY Zenon, <1>4, <2>2 DEF Lineage
  <2> QED BY Zenon, <2>3 DEF Q
<1>5. \A m : m \in Lineage(n)' /\ prev_ns'[m] = NULL <=> m \in Lineage(n) /\ prev_ns[m] = NULL
  BY Zenon, <1>1, <1>2, <1>3, <1>4
<1> QED BY Zenon, <1>5 DEF Root
=============================================================================
