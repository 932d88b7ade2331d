---------------------------- MODULE LurDataProofs ---------------------------
(***************************************************************************)
(* Proofs about LazyUpdateRedis, for any number of clients, namespaces,    *)
(* versions, update files and keys: what clients that work at the same     *)
(* time, fail and crash cannot do to the version lists and to the stored   *)
(* update files; that get, set, delete and the scan of do_upd_all_now do   *)
(* not disturb it; what the chain of update functions makes of a value;    *)
(* and everything keeps its type.                                          *)
(***************************************************************************)
EXTENDS LurInvariants, TLAPS, WellFoundedInduction

-----------------------------------------------------------------------------
(* Connecting and updating: do_upd *)

\* The Redis keys of two lists are different, and none is that of the files.
LEMMA KeysDiffer ==
    /\ \A m, n \in NS : List(m) = List(n) => m = n
    /\ \A n \in NS : List(n) # DslStrings
BY Zenon DEF List, DslStrings

\* The entries of two lists put together (LPUSH and RPUSH).
LEMMA ElementsOfConcat ==
    ASSUME NEW s \in Seq(Entry), NEW t \in Seq(Entry)
    PROVE  s \o t \in Seq(Entry) /\ Elements(s \o t) = Elements(s) \cup Elements(t)
<1> DEFINE E == Entry
<1>1. s \in Seq(E) /\ t \in Seq(E)
  BY Zenon
<1> HIDE DEF E
<1>2. s \o t \in Seq(E) /\ Len(s \o t) = Len(s) + Len(t)
  BY <1>1
<1>3. \A i \in 1..Len(s) : (s \o t)[i] = s[i]
  BY <1>1
<1>4. \A i \in 1..Len(t) : (s \o t)[Len(s) + i] = t[i]
  BY <1>1
<1>5. Elements(s \o t) \subseteq Elements(s) \cup Elements(t)
  BY <1>1, <1>2 DEF Elements
<1>6. Elements(s) \cup Elements(t) \subseteq Elements(s \o t)
  <2>1. DOMAIN s = 1..Len(s) /\ DOMAIN t = 1..Len(t) /\ DOMAIN (s \o t) = 1..(Len(s) + Len(t))
        /\ Len(s) \in Nat /\ Len(t) \in Nat
    BY <1>1, <1>2
  <2>2. \A i \in DOMAIN s : i \in DOMAIN (s \o t)
    BY <2>1
  <2>3. \A i \in DOMAIN t : Len(s) + i \in DOMAIN (s \o t)
    BY <2>1
  <2> QED BY <1>3, <1>4, <2>1, <2>2, <2>3 DEF Elements
<1> QED BY Zenon, <1>2, <1>5, <1>6 DEF E

-----------------------------------------------------------------------------
\* The invariant for the others follows from Frame, so each action has to
\* show three things.
LEMMA FrameSuffices ==
    ASSUME UpdInv, NEW c \in Client, Typed', Frame(c), Own(c)
    PROVE  UpdInv'
<1> SUFFICES ASSUME NEW d \in Client \ {c}
             PROVE  (JobTyped(d) /\ RenameReady(d) /\ FileReady(d))'
  BY Zenon DEF UpdInv, Own
<1>1. JobTyped(d) /\ RenameReady(d) /\ FileReady(d)
  BY Zenon DEF UpdInv
<1>2. /\ pc'[d] = pc[d] /\ job'[d] = job[d] /\ ns_versions_dict'[d] = ns_versions_dict[d]
      /\ watched'[d] \subseteq watched[d]
      /\ \A n \in NS : UPDATE_VERSIONS'[n] # UPDATE_VERSIONS[n] => List(n) \notin watched'[d]
      /\ UPDATE_DSL_STRINGS' # UPDATE_DSL_STRINGS => DslStrings \notin watched'[d]
  BY Zenon DEF Frame
<1>3. JobTyped(d)'
  BY Zenon, <1>1, <1>2 DEF JobTyped
<1>4. RenameReady(d)'
  <2> DEFINE u == job[d].file
  <2> SUFFICES ASSUME pc[d] = "r_exec", List(u.ns) \in watched'[d], List(u.oldns) \in watched'[d]
               PROVE  ns_versions_dict[d][u.ns] = Renamed(u, UPDATE_VERSIONS'[u.oldns])
    BY Zenon, <1>2 DEF RenameReady, Renamed
  <2>1. u.oldns \in NS
    BY Zenon, <1>1, LurAssumption DEF JobTyped, Updating
  <2>2. UPDATE_VERSIONS'[u.oldns] = UPDATE_VERSIONS[u.oldns]
    BY Zenon, <1>2, <2>1
  <2>3. ns_versions_dict[d][u.ns] = Renamed(u, UPDATE_VERSIONS[u.oldns])
    BY Zenon, <1>1, <1>2 DEF RenameReady
  <2> QED BY Zenon, <2>2, <2>3
<1>5. FileReady(d)'
  BY Zenon, <1>1, <1>2 DEF FileReady, SameUpdate
<1> QED BY Zenon, <1>3, <1>4, <1>5

-----------------------------------------------------------------------------
\* What Goto, and a change of the client's own job and WATCH, leave alone.
LEMMA OwnState ==
    ASSUME Typed, NEW c \in Client
    PROVE  /\ \A x : Goto(c, x) =>
                 pc' = [d \in Client |-> pc'[d]] /\ pc'[c] = x /\ \A d \in Client \ {c} : pc'[d] = pc[d]
           /\ OwnJob(c) =>
                 job' = [d \in Client |-> job'[d]] /\ \A d \in Client \ {c} : job'[d] = job[d]
           /\ Takes(c) =>
                 /\ watched' = [d \in Client |-> watched'[d]]
                 /\ \A d \in Client \ {c} : watched'[d] \subseteq watched[d]
<1>1. \A x : Goto(c, x) =>
        pc' = [d \in Client |-> pc'[d]] /\ pc'[c] = x /\ \A d \in Client \ {c} : pc'[d] = pc[d]
  BY Zenon DEF Typed, Goto
<1>2. OwnJob(c) =>
        job' = [d \in Client |-> job'[d]] /\ \A d \in Client \ {c} : job'[d] = job[d]
  BY Zenon DEF Typed, OwnJob
<1>3. Takes(c) =>
        /\ watched' = [d \in Client |-> watched'[d]]
        /\ \A d \in Client \ {c} : watched'[d] \subseteq watched[d]
  BY Zenon DEF Typed, Takes
<1> QED BY Zenon, <1>1, <1>2, <1>3

\* Quiet steps keep the invariant.
LEMMA QuietKeeps ==
    ASSUME UpdInv, NEW c \in Client, Quiet(c)
    PROVE  UpdInv'
<1>1. PICK x \in Outside : Goto(c, x)
  BY Zenon DEF Quiet
<1>2. /\ pc' = [d \in Client |-> pc'[d]] /\ pc'[c] = x /\ \A d \in Client \ {c} : pc'[d] = pc[d]
      /\ job' = [d \in Client |-> job'[d]] /\ \A d \in Client \ {c} : job'[d] = job[d]
      /\ watched' = [d \in Client |-> watched'[d]]
      /\ \A d \in Client \ {c} : watched'[d] \subseteq watched[d]
  <2>1. Typed /\ OwnJob(c) /\ Takes(c)
    BY Zenon DEF Quiet, UpdInv
  <2> QED BY Zenon, <1>1, <2>1, OwnState
<1>3. Typed'
  BY Zenon, <1>2 DEF UpdInv, Typed, Quiet
<1>4. Frame(c)
  BY Zenon, <1>2 DEF Quiet, Frame
<1>5. Own(c)
  BY Zenon, <1>2 DEF Own, Outside, JobTyped, RenameReady, FileReady, Updating, Renaming, Checked
<1> QED BY Zenon, <1>3, <1>4, <1>5, FrameSuffices

-----------------------------------------------------------------------------
\* The client's own lists are lists after the step, and those of the others
\* are the same.
LEMMA DictTyped ==
    ASSUME Typed, NEW c \in Client, OwnDict(c)
    PROVE  /\ ns_versions_dict' \in [Client -> [NS -> Seq(Entry)]]
           /\ \A d \in Client \ {c} : ns_versions_dict'[d] = ns_versions_dict[d]
<1> DEFINE L == [NS -> Seq(Entry)]
<1>1. ns_versions_dict \in [Client -> L]
  BY Zenon DEF Typed
<1>2. \/ ns_versions_dict' = ns_versions_dict
      \/ \E f \in L : ns_versions_dict' = [ns_versions_dict EXCEPT ![c] = f]
  BY Zenon DEF OwnDict
<1> HIDE DEF L
<1>3. /\ ns_versions_dict' \in [Client -> L]
      /\ \A d \in Client \ {c} : ns_versions_dict'[d] = ns_versions_dict[d]
  BY Zenon, <1>1, <1>2
<1> QED BY Zenon, <1>3 DEF L

\* So of a local step only what it means for c itself is left to show.
LEMMA LocalSuffices ==
    ASSUME UpdInv, NEW c \in Client, NEW x, Local(c, x)
    PROVE  pc'[c] = x /\ (Own(c) => UpdInv')
<1>1. Typed /\ Goto(c, x) /\ OwnJob(c) /\ Takes(c) /\ OwnDict(c)
  BY Zenon DEF UpdInv, Local
<1>2. /\ pc' = [d \in Client |-> pc'[d]] /\ pc'[c] = x /\ \A d \in Client \ {c} : pc'[d] = pc[d]
      /\ job' = [d \in Client |-> job'[d]] /\ \A d \in Client \ {c} : job'[d] = job[d]
      /\ watched' = [d \in Client |-> watched'[d]]
      /\ \A d \in Client \ {c} : watched'[d] \subseteq watched[d]
  BY Zenon, <1>1, OwnState
<1>3. /\ ns_versions_dict' \in [Client -> [NS -> Seq(Entry)]]
      /\ \A d \in Client \ {c} : ns_versions_dict'[d] = ns_versions_dict[d]
  BY Zenon, <1>1, DictTyped
<1>4. UPDATE_VERSIONS' = UPDATE_VERSIONS /\ UPDATE_DSL_STRINGS' = UPDATE_DSL_STRINGS
  BY Zenon DEF Local, listVars
<1>5. Typed'
  BY Zenon, <1>1, <1>2, <1>3, <1>4 DEF Typed
<1>6. Frame(c)
  BY Zenon, <1>2, <1>3, <1>4 DEF Frame
<1> QED BY Zenon, <1>2, <1>5, <1>6, FrameSuffices

\* exit, and a connection that is turned down: the client's state is reset.
LEMMA ResetKeeps ==
    ASSUME UpdInv, NEW c \in Client, Reset(c), UNCHANGED listVars
    PROVE  UpdInv'
<1>1. NoLists \in [NS -> Seq(Entry)]
  BY DEF NoLists
<1>2. Local(c, "off")
  BY Zenon, <1>1 DEF Local, Reset, Unwatch, OwnJob, Takes, OwnDict
<1>3. pc'[c] = "off" /\ (Own(c) => UpdInv')
  BY Zenon, <1>2, LocalSuffices
<1>4. Own(c)
  BY Zenon, <1>3 DEF Own, JobTyped, RenameReady, FileReady, Updating, Renaming, Checked
<1> QED BY Zenon, <1>3, <1>4

\* A prefixed list, as clients make it for themselves.
LEMMA Prefixed ==
    ASSUME NEW l \in Seq(Entry), NEW e \in Entry
    PROVE  <<e>> \o l \in Seq(Entry) /\ <<e>> \in Seq(Entry)
<1> DEFINE E == Entry
<1>1. l \in Seq(E) /\ e \in E
  BY Zenon
<1> HIDE DEF E
<1>2. <<e>> \in Seq(E) /\ <<e>> \o l \in Seq(E)
  BY <1>1
<1> QED BY Zenon, <1>2 DEF E

\* The list of one namespace replaced in the client's own lists.
LEMMA DictReplaced ==
    ASSUME Typed, NEW c \in Client, NEW n, NEW l \in Seq(Entry),
           ns_versions_dict' = [ns_versions_dict EXCEPT ![c][n] = l]
    PROVE  OwnDict(c)
<1> DEFINE S == Seq(Entry)
<1>1. ns_versions_dict[c] \in [NS -> S] /\ l \in S
  BY Zenon DEF Typed
<1> HIDE DEF S
<1>2. [ns_versions_dict[c] EXCEPT ![n] = l] \in [NS -> S]
  BY Zenon, <1>1
<1>3. ns_versions_dict' = [ns_versions_dict EXCEPT ![c] = [ns_versions_dict[c] EXCEPT ![n] = l]]
  BY Zenon
<1> QED BY Zenon, <1>2, <1>3 DEF OwnDict, S

-----------------------------------------------------------------------------
(* Connecting *)

\* A change of one list, with the clients that watch it told (Touch).
LEMMA ListChangeFrame ==
    ASSUME Typed, NEW c \in Client, NEW x, Goto(c, x), OwnJob(c),
           NEW S \in SUBSET NS, Touch({List(n) : n \in S}),
           \A n \in NS \ S : UPDATE_VERSIONS'[n] = UPDATE_VERSIONS[n],
           UPDATE_VERSIONS' \in [NS -> Seq(Entry)],
           UNCHANGED <<UPDATE_DSL_STRINGS, ns_versions_dict>>
    PROVE  Typed' /\ Frame(c) /\ pc'[c] = x
<1>1. /\ watched' = [d \in Client |-> watched'[d]]
      /\ \A d \in Client : watched'[d] = watched[d] \ {List(n) : n \in S}
  BY Zenon DEF Touch
<1>2. /\ pc' = [d \in Client |-> pc'[d]] /\ pc'[c] = x /\ \A d \in Client \ {c} : pc'[d] = pc[d]
      /\ job' = [d \in Client |-> job'[d]] /\ \A d \in Client \ {c} : job'[d] = job[d]
  BY Zenon, OwnState
<1>3. Typed'
  BY Zenon, <1>1, <1>2 DEF Typed
<1>4. Frame(c)
  BY <1>1, <1>2 DEF Frame
<1> QED BY Zenon, <1>2, <1>3, <1>4

\* __init__ keeps the invariant, whether it wins or loses its race.
LEMMA ConnectKeeps ==
    ASSUME UpdInv, NEW c \in Client, ConnectStep(c)
    PROVE  UpdInv'
<1> USE DEF UpdInv
<1>1. ASSUME NEW p \in Programs, connect(c, p) PROVE UpdInv'
  <2>1. Local(c, "c_read")
    BY Zenon, <1>1 DEF connect, Local, OwnJob, Takes, OwnDict, Watch, localVars
  <2>2. pc'[c] = "c_read" /\ (Own(c) => UpdInv')
    BY Zenon, <2>1, LocalSuffices
  <2>3. job'[c] = p /\ p \in Entry
    BY Zenon, <1>1, LurAssumption DEF connect, Typed
  <2>4. Own(c)
    BY Zenon, <2>2, <2>3 DEF Own, JobTyped, RenameReady, FileReady, Updating, Renaming, Checked
  <2> QED BY Zenon, <2>2, <2>4
<1>2. CASE connect_read(c)
  <2> DEFINE p == job[c]
             l == UPDATE_VERSIONS[p.ns]
  <2>1. p \in Entry /\ p.ns \in NS
    BY Zenon, <1>2 DEF connect_read, JobTyped, Entry
  <2>2. l \in Seq(Entry) /\ <<p>> \in Seq(Entry)
    <3>1. l \in Seq(Entry)
      BY Zenon, <2>1 DEF Typed
    <3> QED BY Zenon, <2>1, <3>1, Prefixed
  <2>3. CASE Reset(c)
    BY Zenon, <1>2, <2>3, ResetKeeps DEF connect_read
  <2>4. ASSUME NEW x \in {"c_load", "c_exec"}, Goto(c, x), OwnDict(c),
               UNCHANGED <<job, watched, UPDATE_VERSIONS, UPDATE_DSL_STRINGS>>
        PROVE  UpdInv'
    <3>1. Local(c, x)
      BY Zenon, <2>4 DEF Local, OwnJob, Takes, listVars
    <3>2. pc'[c] = x /\ (Own(c) => UpdInv')
      BY Zenon, <3>1, LocalSuffices
    <3>3. Own(c)
      BY Zenon, <2>1, <2>4, <3>2 DEF Own, JobTyped, RenameReady, FileReady, Updating, Renaming, Checked
    <3> QED BY Zenon, <3>2, <3>3
  <2>5. CASE Goto(c, "c_load") /\ ns_versions_dict' = [ns_versions_dict EXCEPT ![c][p.ns] = l]
             /\ UNCHANGED <<job, watched>>
    <3>1. OwnDict(c)
      BY Zenon, <2>2, <2>5, DictReplaced
    <3> QED BY Zenon, <1>2, <2>4, <2>5, <3>1 DEF connect_read, listVars
  <2>6. CASE Goto(c, "c_exec") /\ ns_versions_dict' = [ns_versions_dict EXCEPT ![c][p.ns] = <<p>>]
             /\ UNCHANGED <<job, watched>>
    <3>1. OwnDict(c)
      BY Zenon, <2>2, <2>6, DictReplaced
    <3> QED BY Zenon, <1>2, <2>4, <2>6, <3>1 DEF connect_read, listVars
  <2> QED BY Zenon, <1>2, <2>3, <2>5, <2>6 DEF connect_read
<1>3. CASE connect_exec(c)
  <2> DEFINE p == job[c]
  <2>1. p \in Entry /\ p.ns \in NS
    BY Zenon, <1>3 DEF connect_exec, JobTyped, Entry
  <2>2. Goto(c, "c_load") /\ job' = job /\ OwnJob(c)
        /\ UNCHANGED <<UPDATE_DSL_STRINGS, ns_versions_dict>>
    BY Zenon, <1>3 DEF connect_exec, localVars, OwnJob
  <2>3. CASE UNCHANGED <<UPDATE_VERSIONS, watched>>
    <3>1. Quiet(c)
      BY Zenon, <2>2, <2>3 DEF Quiet, Outside, Takes
    <3> QED BY Zenon, <3>1, QuietKeeps
  <2>4. CASE UPDATE_VERSIONS' = [UPDATE_VERSIONS EXCEPT ![p.ns] = <<p>> \o @]
             /\ Touch({List(p.ns)})
    <3>1. UPDATE_VERSIONS[p.ns] \in Seq(Entry)
      BY Zenon, <2>1 DEF Typed
    <3>2. <<p>> \o UPDATE_VERSIONS[p.ns] \in Seq(Entry)
      BY Zenon, <2>1, <3>1, Prefixed
    <3>3. /\ UPDATE_VERSIONS' \in [NS -> Seq(Entry)]
          /\ \A n \in NS \ {p.ns} : UPDATE_VERSIONS'[n] = UPDATE_VERSIONS[n]
      BY Zenon, <2>1, <2>4, <3>2 DEF Typed
    <3>4. Touch({List(n) : n \in {p.ns}})
      BY Zenon, <2>4
    <3>5. Typed' /\ Frame(c) /\ pc'[c] = "c_load"
      BY Zenon, <2>1, <2>2, <3>3, <3>4, ListChangeFrame
    <3>6. Own(c)
      BY Zenon, <3>5 DEF Own, JobTyped, RenameReady, FileReady, Updating, Renaming, Checked
    <3> QED BY Zenon, <3>5, <3>6, FrameSuffices
  <2> QED BY Zenon, <1>3, <2>3, <2>4 DEF connect_exec
<1>4. CASE load_upd_tuples(c)
  <2>1. Quiet(c)
    BY Zenon, <1>4 DEF load_upd_tuples, Quiet, Outside, OwnJob, Takes, listVars
  <2> QED BY Zenon, <2>1, QuietKeeps
<1>5. CASE connect_setname(c)
  <2>1. Quiet(c)
    BY Zenon, <1>5 DEF connect_setname, Quiet, Outside, OwnJob, Takes, Unwatch, listVars
  <2> QED BY Zenon, <2>1, QuietKeeps
<1> QED BY Zenon, <1>1, <1>2, <1>3, <1>4, <1>5 DEF ConnectStep

-----------------------------------------------------------------------------
(* Updating *)

\* What a client that is in do_upd works on: an update file.
LEMMA JobOf ==
    ASSUME UpdInv, NEW c \in Client, pc[c] \in Updating
    PROVE  /\ job[c] \in [file : Files, hset : BOOLEAN]
           /\ job[c].file.ns \in NS /\ job[c].file.oldns \in NS
           /\ [ver |-> job[c].file.to, ns |-> job[c].file.ns] \in Entry
           /\ UPDATE_VERSIONS[job[c].file.ns] \in Seq(Entry)
           /\ UPDATE_VERSIONS[job[c].file.oldns] \in Seq(Entry)
<1>1. job[c] \in [file : Files, hset : BOOLEAN]
  BY Zenon DEF UpdInv, JobTyped
<1>2. job[c].file.ns \in NS /\ job[c].file.oldns \in NS /\ job[c].file.to \in Ver
  BY Zenon, <1>1, LurAssumption
<1>3. \A n \in NS : UPDATE_VERSIONS[n] \in Seq(Entry)
  BY Zenon DEF UpdInv, Typed
<1> QED BY Zenon, <1>1, <1>2, <1>3 DEF Entry

\* do_upd returning or raising is quiet.
LEMMA LeaveKeeps ==
    ASSUME UpdInv, NEW c \in Client, Leave(c),
           UNCHANGED <<UPDATE_VERSIONS, UPDATE_DSL_STRINGS, ns_versions_dict>>
    PROVE  UpdInv'
<1>1. Quiet(c)
  BY Zenon DEF Leave, Quiet, Outside, OwnJob, Takes, Unwatch
<1> QED BY Zenon, <1>1, QuietKeeps

\* The lists change with the WATCH of everybody: what is left is that the
\* client still has an update file to store.
LEMMA ListChangeKeeps ==
    ASSUME UpdInv, NEW c \in Client, pc[c] \in {"u_exec", "r_exec"}, Goto(c, "u_hset"),
           NEW S \in SUBSET NS, Touch({List(n) : n \in S}),
           \A n \in NS \ S : UPDATE_VERSIONS'[n] = UPDATE_VERSIONS[n],
           UPDATE_VERSIONS' \in [NS -> Seq(Entry)],
           UNCHANGED <<UPDATE_DSL_STRINGS, ns_versions_dict, job>>
    PROVE  UpdInv'
<1>1. Typed /\ OwnJob(c)
  BY Zenon DEF UpdInv, OwnJob
<1>2. Typed' /\ Frame(c) /\ pc'[c] = "u_hset"
  BY Zenon, <1>1, ListChangeFrame
<1>3. JobTyped(c)'
  BY Zenon, <1>2, JobOf DEF JobTyped, Updating, Renaming
<1>4. RenameReady(c)'
  BY Zenon, <1>2 DEF RenameReady
<1>5. FileReady(c)'
  <2>1. watched'[c] \subseteq watched[c]
    BY Zenon DEF Touch
  <2> QED BY Zenon, <1>2, <2>1 DEF UpdInv, FileReady, Checked, Renaming
<1> QED BY Zenon, <1>2, <1>3, <1>4, <1>5, FrameSuffices DEF Own

\* do_upd up to its transactions: one that goes on to the label x with the same
\* file, and with what it has found out about the stored files.
LEMMA GoesOn ==
    ASSUME UpdInv, NEW c \in Client, NEW x \in Checked, pc[c] \in Checked, Local(c, x),
           UNCHANGED job, DslStrings \in watched'[c] => DslStrings \in watched[c],
           x \in Renaming => pc[c] \in Renaming, RenameReady(c)'
    PROVE  UpdInv'
<1>1. pc'[c] = x /\ (Own(c) => UpdInv')
  BY Zenon, LocalSuffices
<1>2. JobTyped(c)'
  BY Zenon, <1>1 DEF UpdInv, JobTyped, Checked, Renaming, Updating
<1>3. FileReady(c)'
  BY Zenon, <1>1 DEF UpdInv, FileReady, Local, listVars
<1> QED BY Zenon, <1>1, <1>2, <1>3 DEF Own

\* do_upd opens its transaction and looks for a file of the same versions.
LEMMA UpdateStartKeeps ==
    ASSUME UpdInv, NEW c \in Client, (\E u \in Files : do_upd(c, u)) \/ upd_hget(c)
    PROVE  UpdInv'
<1>1. ASSUME NEW u \in Files, do_upd(c, u) PROVE UpdInv'
  <2>1. Local(c, "u_hget")
    BY Zenon, <1>1 DEF do_upd, Local, OwnJob, Takes, OwnDict, Watch, localVars
  <2>2. pc'[c] = "u_hget" /\ (Own(c) => UpdInv')
    BY Zenon, <2>1, LocalSuffices
  <2>3. job'[c] = [file |-> u, hset |-> FALSE]
    BY Zenon, <1>1 DEF do_upd, UpdInv, Typed
  <2>4. Own(c)
    BY <2>2, <2>3, SMTT(30) DEF Own, JobTyped, RenameReady, FileReady, Updating, Renaming, Checked
  <2> QED BY Zenon, <2>2, <2>4
<1>2. CASE upd_hget(c)
  <2> DEFINE u == job[c].file
             prev == {w \in UPDATE_DSL_STRINGS : SameUpdate(u, w)}
             x == IF u.oldns = u.ns THEN "u_watch" ELSE "r_exists"
  <2>1. pc[c] = "u_hget" /\ UNCHANGED <<UPDATE_VERSIONS, UPDATE_DSL_STRINGS, ns_versions_dict>>
    BY Zenon, <1>2 DEF upd_hget, listVars, localVars
  <2>2. CASE Goto(c, x) /\ job' = [job EXCEPT ![c].hset = prev = {}] /\ UNCHANGED watched
    <3>1. Local(c, x)
      <4>1. OwnJob(c)
        BY Zenon, <2>2 DEF OwnJob
      <4> QED BY Zenon, <2>1, <2>2, <4>1 DEF Local, Takes, OwnDict, listVars
    <3>2. pc'[c] = x /\ (Own(c) => UpdInv')
      BY <3>1, LocalSuffices
    <3>3. job[c] \in [file : Files, hset : BOOLEAN]
      BY Zenon, <2>1, JobOf DEF Updating
    <3>4. job'[c] = [file |-> u, hset |-> prev = {}]
      BY Zenon, <2>2, <3>3 DEF UpdInv, Typed
    <3>5. JobTyped(c)'
      BY <3>2, <3>3, <3>4 DEF JobTyped, Updating, Renaming
    <3>6. RenameReady(c)'
      BY Zenon, <3>2 DEF RenameReady
    <3>7. FileReady(c)'
      <4> DEFINE none == prev = {}
      <4>1. job'[c] = [file |-> u, hset |-> none]
        BY Zenon, <3>4
      <4> HIDE DEF none
      <4>2. job'[c].file = u /\ job'[c].hset = none
        BY <4>1
      <4>3. job'[c].hset => prev = {}
        BY Zenon, <4>2 DEF none
      <4> QED BY Zenon, <2>1, <4>2, <4>3 DEF FileReady, SameUpdate
    <3> QED BY Zenon, <3>2, <3>5, <3>6, <3>7 DEF Own
  <2>3. CASE Leave(c)
    BY Zenon, <2>1, <2>3, LeaveKeeps
  <2> QED BY Zenon, <1>2, <2>2, <2>3 DEF upd_hget
<1> QED BY Zenon, <1>1, <1>2

\* append_new_version: the new version goes in front of the list.
LEMMA AppendKeeps ==
    ASSUME UpdInv, NEW c \in Client, upd_watch(c) \/ upd_read(c) \/ upd_exec(c)
    PROVE  UpdInv'
<1> DEFINE u == job[c].file
           e == [ver |-> u.to, ns |-> u.ns]
           l == UPDATE_VERSIONS[u.ns]
<1>1. pc[c] \in {"u_watch", "u_read", "u_exec"}
  BY Zenon DEF upd_watch, upd_read, upd_exec
<1>2. u.ns \in NS /\ e \in Entry /\ l \in Seq(Entry)
  BY Zenon, <1>1, JobOf DEF Updating
<1>3. <<e>> \o l \in Seq(Entry)
  BY Zenon, <1>2, Prefixed
<1>4. \A x \in Checked : Goto(c, x) /\ x # "r_exec" => RenameReady(c)'
  BY Zenon, OwnState DEF UpdInv, RenameReady
<1>5. CASE upd_watch(c)
  <2>1. Local(c, "u_read") /\ RenameReady(c)' /\ UNCHANGED job
    BY Zenon, <1>4, <1>5 DEF upd_watch, Local, OwnJob, Takes, OwnDict, Watch, localVars, Checked
  <2>2. DslStrings \in watched'[c] => DslStrings \in watched[c]
    BY Zenon, <1>2, <1>5, KeysDiffer DEF upd_watch, Watch, UpdInv, Typed
  <2> QED BY Zenon, <1>1, <2>1, <2>2, GoesOn DEF Checked, Renaming
<1>6. CASE upd_read(c)
  <2>1. PICK x \in {"u_hset", "u_exec"} : Goto(c, x)
    BY Zenon, <1>6 DEF upd_read
  <2>2. OwnDict(c)
    <3>1. \/ ns_versions_dict' = ns_versions_dict
          \/ ns_versions_dict' = [ns_versions_dict EXCEPT ![c][u.ns] = <<e>> \o l]
      BY Zenon, <1>6 DEF upd_read
    <3>2. CASE ns_versions_dict' = ns_versions_dict
      BY Zenon, <3>2 DEF OwnDict
    <3>3. CASE ns_versions_dict' = [ns_versions_dict EXCEPT ![c][u.ns] = <<e>> \o l]
      BY Zenon, <1>3, <3>3, DictReplaced DEF UpdInv
    <3> QED BY Zenon, <3>1, <3>2, <3>3
  <2>3. Local(c, x) /\ RenameReady(c)' /\ UNCHANGED <<job, watched>>
    BY Zenon, <1>4, <1>6, <2>1, <2>2 DEF upd_read, Local, OwnJob, Takes, Checked
  <2> QED BY Zenon, <1>1, <2>1, <2>3, GoesOn DEF Checked, Renaming
<1>7. CASE upd_exec(c)
  <2>1. UNCHANGED <<UPDATE_DSL_STRINGS, ns_versions_dict>> /\ pc[c] = "u_exec"
    BY Zenon, <1>7 DEF upd_exec, localVars
  <2>2. CASE /\ Goto(c, "u_hset") /\ UNCHANGED job /\ Touch({List(u.ns)})
             /\ UPDATE_VERSIONS' = [UPDATE_VERSIONS EXCEPT ![u.ns] = <<e>> \o @]
    <3>1. /\ UPDATE_VERSIONS' \in [NS -> Seq(Entry)]
          /\ \A n \in NS \ {u.ns} : UPDATE_VERSIONS'[n] = UPDATE_VERSIONS[n]
      BY Zenon, <1>2, <1>3, <2>2 DEF UpdInv, Typed
    <3>2. Touch({List(n) : n \in {u.ns}}) /\ {u.ns} \in SUBSET NS
      BY Zenon, <1>2, <2>2
    <3> QED BY Zenon, <2>1, <2>2, <3>1, <3>2, ListChangeKeeps
  <2>3. CASE Leave(c) /\ UNCHANGED UPDATE_VERSIONS
    BY Zenon, <2>1, <2>3, LeaveKeeps
  <2> QED BY Zenon, <1>7, <2>2, <2>3 DEF upd_exec
<1> QED BY Zenon, <1>5, <1>6, <1>7

\* append_new_version_updated_ns: the list moves to the new name.
LEMMA RenameKeeps ==
    ASSUME UpdInv, NEW c \in Client,
           rename_exists(c) \/ rename_watch(c) \/ rename_read(c) \/ rename_exec(c)
    PROVE  UpdInv'
<1> DEFINE u == job[c].file
           l == UPDATE_VERSIONS[u.oldns]
<1>1. pc[c] \in Renaming
  BY Zenon DEF rename_exists, rename_watch, rename_read, rename_exec, Renaming
<1>2. u.ns \in NS /\ u.oldns \in NS /\ u.ns # u.oldns /\ l \in Seq(Entry)
      /\ UPDATE_VERSIONS[u.ns] \in Seq(Entry)
  BY Zenon, <1>1, JobOf DEF UpdInv, JobTyped, Updating, Renaming
<1>3. Renamed(u, l) \in Seq(Entry) /\ << >> \in Seq(Entry)
  <2> DEFINE e == [ver |-> u.to, ns |-> u.ns]
  <2>1. e \in Entry
    BY Zenon, <1>1, JobOf DEF Updating, Renaming
  <2> HIDE DEF e
  <2>2. <<e>> \o l \in Seq(Entry)
    BY Zenon, <1>2, <2>1, Prefixed
  <2>3. Renamed(u, l) = <<e>> \o l
    BY Zenon DEF Renamed, e
  <2>4. << >> \in Seq(Entry)
    OBVIOUS
  <2> QED BY Zenon, <2>2, <2>3, <2>4
<1>4. \A x \in Checked : Goto(c, x) /\ x # "r_exec" => RenameReady(c)'
  BY Zenon, OwnState DEF UpdInv, RenameReady
<1>5. CASE rename_exists(c)
  <2>1. UNCHANGED <<UPDATE_VERSIONS, UPDATE_DSL_STRINGS, ns_versions_dict>>
    BY Zenon, <1>5 DEF rename_exists, listVars, localVars
  <2>2. CASE Goto(c, "r_watch") /\ UNCHANGED <<job, watched>>
    <3>1. Local(c, "r_watch") /\ RenameReady(c)'
      BY Zenon, <1>4, <2>1, <2>2 DEF Local, OwnJob, Takes, OwnDict, listVars, Checked, Renaming
    <3> QED BY Zenon, <1>1, <2>2, <3>1, GoesOn DEF Checked, Renaming
  <2>3. CASE Leave(c)
    BY Zenon, <2>1, <2>3, LeaveKeeps
  <2> QED BY Zenon, <1>5, <2>2, <2>3 DEF rename_exists
<1>6. CASE rename_watch(c)
  <2>1. Local(c, "r_read") /\ RenameReady(c)' /\ UNCHANGED job
    BY Zenon, <1>4, <1>6 DEF rename_watch, Local, OwnJob, Takes, OwnDict, Watch, localVars,
                             Checked, Renaming
  <2>2. DslStrings \in watched'[c] => DslStrings \in watched[c]
    BY Zenon, <1>2, <1>6, KeysDiffer DEF rename_watch, Watch, UpdInv, Typed
  <2> QED BY Zenon, <1>1, <2>1, <2>2, GoesOn DEF Checked, Renaming
<1>7. CASE rename_read(c)
  <2>1. UNCHANGED <<UPDATE_VERSIONS, UPDATE_DSL_STRINGS>>
    BY Zenon, <1>7 DEF rename_read, listVars
  <2>2. CASE /\ Goto(c, "r_exec") /\ UNCHANGED <<job, watched>>
             /\ ns_versions_dict' =
                  [ns_versions_dict EXCEPT ![c][u.ns] = Renamed(u, l), ![c][u.oldns] = << >>]
    <3>1. OwnDict(c) /\ ns_versions_dict'[c][u.ns] = Renamed(u, l)
      <4> DEFINE S == Seq(Entry)
                 r == Renamed(u, l)
                 d == [ns_versions_dict[c] EXCEPT ![u.ns] = r, ![u.oldns] = << >>]
      <4>1. ns_versions_dict \in [Client -> [NS -> S]] /\ r \in S /\ << >> \in S
        BY Zenon, <1>3 DEF UpdInv, Typed
      <4>2. ns_versions_dict' =
              [ns_versions_dict EXCEPT ![c][u.ns] = r, ![c][u.oldns] = << >>]
        BY Zenon, <2>2
      <4> HIDE DEF S, r
      <4>3. d \in [NS -> S] /\ d[u.ns] = r
        BY Zenon, <1>2, <4>1
      <4>4. ns_versions_dict' = [ns_versions_dict EXCEPT ![c] = d]
        BY Zenon, <4>1, <4>2
      <4>5. ns_versions_dict'[c] = d
        BY Zenon, <4>1, <4>4
      <4> HIDE DEF d
      <4> QED BY Zenon, <4>3, <4>4, <4>5 DEF OwnDict, S, r
    <3>2. Local(c, "r_exec")
      BY Zenon, <2>1, <2>2, <3>1 DEF Local, OwnJob, Takes, listVars
    <3>3. RenameReady(c)'
      BY Zenon, <2>1, <2>2, <3>1 DEF RenameReady, Renamed
    <3> QED BY Zenon, <1>1, <2>2, <3>2, <3>3, GoesOn DEF Checked, Renaming
  <2>3. CASE Leave(c) /\ UNCHANGED ns_versions_dict
    BY Zenon, <2>1, <2>3, LeaveKeeps
  <2> QED BY Zenon, <1>7, <2>2, <2>3 DEF rename_read
<1>8. CASE rename_exec(c)
  <2>1. UNCHANGED <<UPDATE_DSL_STRINGS, ns_versions_dict>> /\ pc[c] = "r_exec"
    BY Zenon, <1>8 DEF rename_exec, localVars
  <2>2. CASE /\ Goto(c, "u_hset") /\ UNCHANGED job /\ Touch({List(u.ns), List(u.oldns)})
             /\ UPDATE_VERSIONS' = [UPDATE_VERSIONS EXCEPT
                  ![u.ns] = @ \o ns_versions_dict[c][u.ns], ![u.oldns] = << >>]
    <3> DEFINE m == UPDATE_VERSIONS[u.ns] \o ns_versions_dict[c][u.ns]
               S == Seq(Entry)
    <3>1. m \in S /\ << >> \in S
      <4>1. ns_versions_dict[c][u.ns] \in Seq(Entry)
        BY Zenon, <1>2 DEF UpdInv, Typed
      <4> QED BY Zenon, <1>2, <1>3, <4>1, ElementsOfConcat
    <3>2. UPDATE_VERSIONS \in [NS -> S]
          /\ UPDATE_VERSIONS' = [UPDATE_VERSIONS EXCEPT ![u.ns] = m, ![u.oldns] = << >>]
      BY Zenon, <2>2 DEF UpdInv, Typed
    <3> HIDE DEF m, S
    <3>3. /\ UPDATE_VERSIONS' \in [NS -> S]
          /\ \A n \in NS \ {u.ns, u.oldns} : UPDATE_VERSIONS'[n] = UPDATE_VERSIONS[n]
      BY Zenon, <3>1, <3>2
    <3>4. {List(n) : n \in {u.ns, u.oldns}} = {List(u.ns), List(u.oldns)}
          /\ {u.ns, u.oldns} \in SUBSET NS
      BY Zenon, <1>2
    <3> QED BY Zenon, <2>1, <2>2, <3>3, <3>4, ListChangeKeeps DEF S
  <2>3. CASE Leave(c) /\ UNCHANGED UPDATE_VERSIONS
    BY Zenon, <2>1, <2>3, LeaveKeeps
  <2> QED BY Zenon, <1>8, <2>2, <2>3 DEF rename_exec
<1> QED BY Zenon, <1>5, <1>6, <1>7, <1>8

\* The file is stored, the client named, and the others cut off.
LEMMA UpdateEndKeeps ==
    ASSUME UpdInv, NEW c \in Client,
           upd_hset(c) \/ upd_setname(c) \/ kill_connected_clients_at(c)
    PROVE  UpdInv'
<1>1. pc[c] \in Updating
  BY Zenon DEF upd_hset, upd_setname, kill_connected_clients_at, Updating
<1>2. job[c] \in [file : Files, hset : BOOLEAN]
  BY Zenon, <1>1, JobOf
<1>3. ASSUME NEW x \in {"u_setname", "u_kill"}, pc'[c] = x, UNCHANGED job
      PROVE  Own(c)
  BY Zenon, <1>2, <1>3 DEF Own, JobTyped, RenameReady, FileReady, Updating, Renaming, Checked
<1>4. CASE upd_hset(c)
  <2>1. UNCHANGED <<UPDATE_VERSIONS, ns_versions_dict>>
    BY Zenon, <1>4 DEF upd_hset
  <2>2. CASE Leave(c) /\ UNCHANGED UPDATE_DSL_STRINGS
    BY Zenon, <2>1, <2>2, LeaveKeeps
  <2>3. CASE /\ Goto(c, "u_setname") /\ UNCHANGED job
             /\ job[c].hset \/ UPDATE_DSL_STRINGS' = UPDATE_DSL_STRINGS
             /\ Touch(IF job[c].hset THEN {DslStrings} ELSE {})
    <3>1. /\ pc' = [d \in Client |-> pc'[d]] /\ pc'[c] = "u_setname"
          /\ \A d \in Client \ {c} : pc'[d] = pc[d]
      BY Zenon, <2>3, OwnState DEF UpdInv
    <3>2. /\ watched' = [d \in Client |-> watched'[d]]
          /\ \A d \in Client : watched'[d] \subseteq watched[d]
          /\ \A d \in Client : job[c].hset => DslStrings \notin watched'[d]
      BY Zenon, <2>3 DEF Touch
    <3>3. Typed'
      BY Zenon, <2>1, <2>3, <3>1, <3>2 DEF UpdInv, Typed
    <3>4. Frame(c)
      BY Zenon, <2>1, <2>3, <3>1, <3>2 DEF Frame
    <3> QED BY Zenon, <1>3, <2>3, <3>1, <3>3, <3>4, FrameSuffices
  <2> QED BY Zenon, <1>4, <2>2, <2>3 DEF upd_hset
<1>5. CASE upd_setname(c)
  <2>1. Local(c, "u_kill") /\ UNCHANGED job
    BY Zenon, <1>5 DEF upd_setname, Local, OwnJob, Takes, OwnDict
  <2> QED BY Zenon, <1>3, <2>1, LocalSuffices
<1>6. CASE kill_connected_clients_at(c)
  BY Zenon, <1>6, LeaveKeeps DEF kill_connected_clients_at, listVars
<1> QED BY Zenon, <1>4, <1>5, <1>6

\* do_upd keeps the invariant, wherever it fails.
LEMMA UpdateKeeps ==
    ASSUME UpdInv, NEW c \in Client, UpdateStep(c)
    PROVE  UpdInv'
BY Zenon, UpdateStartKeeps, AppendKeeps, RenameKeeps, UpdateEndKeeps DEF UpdateStep

-----------------------------------------------------------------------------
(* What the steps do to the lists and the files *)

\* An entry put in front of one list keeps what is in the lists.
LEMMA PrependKeepsVersions ==
    ASSUME Typed, NEW n \in NS, NEW e \in Entry,
           UPDATE_VERSIONS' = [UPDATE_VERSIONS EXCEPT ![n] = <<e>> \o @]
    PROVE  VersionsKept
<1> DEFINE l == UPDATE_VERSIONS[n]
           r == <<e>> \o l
<1>1. Elements(l) \subseteq Elements(r)
  <2>1. l \in Seq(Entry)
    BY Zenon DEF Typed
  <2>2. <<e>> \in Seq(Entry)
    BY Zenon, <2>1, Prefixed
  <2> QED BY Zenon, <2>1, <2>2, ElementsOfConcat
<1>2. UPDATE_VERSIONS'[n] = r /\ \A m \in NS \ {n} : UPDATE_VERSIONS'[m] = UPDATE_VERSIONS[m]
  BY Zenon DEF Typed
<1> HIDE DEF r
<1> QED BY Zenon, <1>1, <1>2 DEF VersionsKept

\* The rename moves the entries of the old name to the new one.
LEMMA RenameKeepsVersions ==
    ASSUME UpdInv, NEW c \in Client, rename_exec(c)
    PROVE  VersionsKept
<1> DEFINE u == job[c].file
           l == UPDATE_VERSIONS[u.ns]
           o == UPDATE_VERSIONS[u.oldns]
           m == l \o ns_versions_dict[c][u.ns]
<1>1. CASE UNCHANGED UPDATE_VERSIONS
  BY Zenon, <1>1 DEF VersionsKept
<1>2. CASE /\ WatchHolds(c, {List(u.ns), List(u.oldns)})
           /\ UPDATE_VERSIONS' = [UPDATE_VERSIONS EXCEPT
                ![u.ns] = @ \o ns_versions_dict[c][u.ns], ![u.oldns] = << >>]
  <2>1. pc[c] = "r_exec"
    BY Zenon DEF rename_exec
  <2>2. /\ u.ns \in NS /\ u.oldns \in NS /\ u.ns # u.oldns /\ l \in Seq(Entry) /\ o \in Seq(Entry)
        /\ [ver |-> u.to, ns |-> u.ns] \in Entry
    BY Zenon, <2>1, JobOf DEF UpdInv, JobTyped, Updating, Renaming
  <2>3. ns_versions_dict[c][u.ns] = <<[ver |-> u.to, ns |-> u.ns]>> \o o
    BY Zenon, <1>2, <2>1 DEF UpdInv, RenameReady, WatchHolds, Renamed
  <2>4. Elements(l) \subseteq Elements(m) /\ Elements(o) \subseteq Elements(m)
    <3> DEFINE e == [ver |-> u.to, ns |-> u.ns]
               r == <<e>> \o o
    <3>1. <<e>> \in Seq(Entry) /\ r \in Seq(Entry)
      BY Zenon, <2>2, Prefixed
    <3>2. Elements(o) \subseteq Elements(r)
      BY Zenon, <2>2, <3>1, ElementsOfConcat
    <3>3. m = l \o r
      BY Zenon, <2>3
    <3> HIDE DEF e, r, m
    <3> QED BY Zenon, <2>2, <3>1, <3>2, <3>3, ElementsOfConcat
  <2>5. UPDATE_VERSIONS'[u.ns] = m /\ \A n \in NS \ {u.ns, u.oldns} : UPDATE_VERSIONS'[n] = UPDATE_VERSIONS[n]
    BY Zenon, <1>2, <2>2 DEF UpdInv, Typed
  <2> HIDE DEF m
  <2> QED BY Zenon, <2>2, <2>4, <2>5 DEF VersionsKept
<1> QED BY Zenon, <1>1, <1>2 DEF rename_exec

\* No step of __init__ or do_upd takes an entry from the lists.
LEMMA VersionStepsKeep ==
    ASSUME UpdInv, NEW c \in Client, ConnectStep(c) \/ UpdateStep(c)
    PROVE  VersionsKept
<1>1. CASE UNCHANGED UPDATE_VERSIONS
  BY Zenon, <1>1 DEF VersionsKept
<1>2. CASE connect_exec(c)
  <2>1. job[c] \in Entry /\ job[c].ns \in NS
    BY Zenon, <1>2 DEF connect_exec, UpdInv, JobTyped, Entry
  <2> QED BY Zenon, <1>1, <1>2, <2>1, PrependKeepsVersions DEF connect_exec, UpdInv
<1>3. CASE upd_exec(c)
  <2>1. job[c].file.ns \in NS /\ [ver |-> job[c].file.to, ns |-> job[c].file.ns] \in Entry
    BY Zenon, <1>3, JobOf DEF upd_exec, Updating
  <2> QED BY Zenon, <1>1, <1>3, <2>1, PrependKeepsVersions DEF upd_exec, UpdInv
<1>4. CASE rename_exec(c)
  BY Zenon, <1>4, RenameKeepsVersions
<1>5. UNCHANGED UPDATE_VERSIONS \/ connect_exec(c) \/ upd_exec(c) \/ rename_exec(c)
  BY Zenon DEF ConnectStep, UpdateStep, listVars, connect, connect_read, load_upd_tuples,
         connect_setname, do_upd, upd_hget, upd_watch, upd_read, rename_exists, rename_watch,
         rename_read, upd_hset, upd_setname, kill_connected_clients_at
<1> QED BY Zenon, <1>1, <1>2, <1>3, <1>4, <1>5

\* No step of __init__ or do_upd takes a file, or puts another in its place.
LEMMA FileStepsKeep ==
    ASSUME UpdInv, NEW c \in Client, ConnectStep(c) \/ UpdateStep(c)
    PROVE  UPDATE_DSL_STRINGS \subseteq UPDATE_DSL_STRINGS'
<1>1. CASE upd_hset(c)
  <2>1. pc[c] \in Checked /\ FileReady(c)
    BY Zenon, <1>1 DEF upd_hset, Checked, UpdInv
  <2>2. CASE ~job[c].hset \/ ~WatchHolds(c, {DslStrings})
    BY Zenon, <1>1, <2>2 DEF upd_hset
  <2>3. CASE job[c].hset /\ WatchHolds(c, {DslStrings})
    BY Zenon, <1>1, <2>1, <2>3 DEF upd_hset, FileReady, WatchHolds
  <2> QED BY Zenon, <2>2, <2>3
<1>2. UNCHANGED UPDATE_DSL_STRINGS \/ upd_hset(c)
  BY Zenon DEF ConnectStep, UpdateStep, listVars, connect, connect_read, connect_exec,
         load_upd_tuples, connect_setname, do_upd, upd_hget, upd_watch, upd_read, upd_exec,
         rename_exists, rename_watch, rename_read, rename_exec, upd_setname,
         kill_connected_clients_at
<1> QED BY Zenon, <1>1, <1>2

-----------------------------------------------------------------------------
(* The data *)

\* get, set, delete and the scan are quiet: what they change is data.
LEMMA DataStepsQuiet ==
    ASSUME UpdInv, NEW c \in Client, Continue(c) \/ Call(c)
    PROVE  Quiet(c)
<1> USE DEF Quiet, Outside, OwnJob, Takes, listVars, localVars
<1>1. ASSUME NEW k, get(c, k) PROVE Quiet(c)
  BY Zenon, <1>1 DEF get
<1>2. CASE get_mget(c)
  BY Zenon, <1>2 DEF get_mget
<1>3. CASE get_mark(c)
  BY Zenon, <1>3 DEF get_mark, Done, Touch
<1>4. CASE get_watch(c)
  BY Zenon, <1>4 DEF get_watch, WatchKeys, Watch
<1>5. CASE get_read(c)
  BY Zenon, <1>5 DEF get_read, Raise, Done, Unwatch
<1>6. CASE get_exec(c)
  BY Zenon, <1>6 DEF get_exec, Raise, Done, Unwatch
<1>7. CASE set_del(c)
  BY Zenon, <1>7 DEF set_del, Done, Touch
<1>8. ASSUME NEW k, delete(c, k) PROVE Quiet(c)
  BY Zenon, <1>8 DEF delete, Touch
<1>9. ASSUME NEW k, NEW p, set(c, k, p) PROVE Quiet(c)
  BY Zenon, <1>9 DEF set, Touch
<1>10. ASSUME NEW k, NEW p, NEW flag, set_flagged(c, k, p, flag) PROVE Quiet(c)
  BY Zenon, <1>10 DEF set_flagged, Touch
<1>11. CASE scan_call(c) \/ scan_return(c)
  BY Zenon, <1>11 DEF scan_call, scan_return, Scanned, Scanning
<1>12. ASSUME NEW x, scan_get(c, x) PROVE Quiet(c)
  BY Zenon, <1>1, <1>12 DEF scan_get, Scanning
<1> QED
  BY Zenon, <1>1, <1>2, <1>3, <1>4, <1>5, <1>6, <1>7, <1>8, <1>9, <1>10, <1>11, <1>12 DEF Continue, Call

-----------------------------------------------------------------------------
\* No client has started: there is nothing to be wrong about.
LEMMA UpdInvInit == LurInit => UpdInv
<1> SUFFICES ASSUME LurInit PROVE UpdInv
  BY Zenon
<1>1. NoLists \in [NS -> Seq(Entry)]
  BY DEF NoLists
<1>2. \A c \in Client : pc[c] = "off"
  BY Zenon DEF LurInit, VersionsInit
<1>3. Typed
  BY Zenon, <1>1 DEF LurInit, VersionsInit, NoLists, Typed
<1>4. \A c \in Client : JobTyped(c) /\ RenameReady(c) /\ FileReady(c)
  BY Zenon, <1>2 DEF JobTyped, RenameReady, FileReady, Updating, Renaming, Checked
<1> QED BY Zenon, <1>3, <1>4 DEF UpdInv

\* Every step of every client keeps the invariant, the lists and the files.
LEMMA LurStepKeeps ==
    ASSUME UpdInv, [LurNext]_lurVars
    PROVE  UpdInv' /\ VersionsKept /\ UPDATE_DSL_STRINGS \subseteq UPDATE_DSL_STRINGS'
<1>1. CASE UNCHANGED lurVars
  BY Zenon, <1>1 DEF lurVars, versionVars, listVars, localVars, UpdInv, Typed, JobTyped, RenameReady,
              FileReady, VersionsKept
<1>2. ASSUME NEW c \in Client, VersionStep(c) \/ UpdateAll(c) \/ stop(c) \/ Continue(c) \/ Call(c)
      PROVE  UpdInv' /\ VersionsKept /\ UPDATE_DSL_STRINGS \subseteq UPDATE_DSL_STRINGS'
  <2>1. CASE VersionStep(c)
    BY Zenon, <2>1, ConnectKeeps, UpdateKeeps, VersionStepsKeep, FileStepsKeep DEF VersionStep
  <2>4. CASE UpdateAll(c)
    <3>1. UpdateStep(c)
      BY Zenon, <2>4 DEF UpdateAll, do_upd_all_now, UpdateStep
    <3> QED BY Zenon, <3>1, UpdateKeeps, VersionStepsKeep, FileStepsKeep
  <2>2. CASE stop(c)
    BY Zenon, <2>2, ResetKeeps DEF stop, exit, listVars, VersionsKept
  <2>3. CASE Continue(c) \/ Call(c)
    <3>1. Quiet(c)
      BY Zenon, <2>3, DataStepsQuiet
    <3>2. UpdInv'
      BY Zenon, <3>1, QuietKeeps
    <3> QED BY Zenon, <3>1, <3>2 DEF Quiet, VersionsKept
  <2> QED BY Zenon, <1>2, <2>1, <2>2, <2>3, <2>4
<1> QED BY Zenon, <1>1, <1>2 DEF LurNext

\* What __init__ and do_upd rely on holds always: a rename stores the list it
\* has read, and a file is stored only where there is none.
THEOREM UpdInvHolds == LurSpec => []UpdInv
<1>1. UpdInv /\ [LurNext]_lurVars => UpdInv'
  BY Zenon, LurStepKeeps
<1> QED BY UpdInvInit, <1>1, PTL DEF LurSpec

\* However many clients connect, load updates and rename namespaces at the same
\* time, wherever they fail or crash, no version leaves the lists
\* (append_new_version, append_new_version_updated_ns).
THEOREM NoVersionLostTheorem == LurSpec => NoVersionLost
<1>1. UpdInv /\ [LurNext]_lurVars =>
        [\A n \in NS : \A e \in Elements(UPDATE_VERSIONS[n]) :
            \E m \in NS : e \in Elements(UPDATE_VERSIONS'[m])]_lurVars
  BY Zenon, LurStepKeeps DEF VersionsKept
<1> QED BY UpdInvHolds, <1>1, PTL DEF LurSpec, NoVersionLost

\* A file stored in UPDATE_DSL_STRINGS stays: of two rival files for the same
\* versions the second is refused, or its transaction fails (do_upd).
THEOREM FilesKeptTheorem == LurSpec => FilesKept
<1>1. UpdInv /\ [LurNext]_lurVars => [UPDATE_DSL_STRINGS \subseteq UPDATE_DSL_STRINGS']_lurVars
  BY Zenon, LurStepKeeps
<1> QED BY UpdInvHolds, <1>1, PTL DEF LurSpec, FilesKept

-----------------------------------------------------------------------------
(* Induction over the positions of a version list *)

\* Natural numbers are well founded: a set of them has a least one.
LEMMA Least ==
    ASSUME NEW T \in SUBSET Nat, T # {}
    PROVE  \E n \in T : \A m \in T : n <= m
<1> DEFINE R == OpToRel(<, Nat)
<1>1. IsWellFoundedOn(R, Nat)
  BY Zenon, NatLessThanWellFounded
<1>2. \A x, y \in Nat : <<y, x>> \in R <=> y < x
  BY Zenon DEF OpToRel
<1> HIDE DEF R
<1>3. PICK x \in T : \A y \in T : ~(<<y, x>> \in R)
  BY Zenon, <1>1, WFMin
<1>4. ASSUME NEW y \in T PROVE x <= y
  <2>1. ~(<<y, x>> \in R) /\ x \in Nat /\ y \in Nat
    BY Zenon, <1>3
  <2>2. ~(y < x)
    BY Zenon, <1>2, <2>1
  <2> QED BY <2>1, <2>2
<1> QED BY Zenon, <1>4

\* So a set that has 0, and with each number the next, has them all.
LEMMA Induct ==
    ASSUME NEW T, 0 \in T, \A n \in Nat : n \in T => n + 1 \in T
    PROVE  Nat \subseteq T
<1> SUFFICES ASSUME NEW k \in Nat, k \notin T PROVE FALSE
  BY Zenon
<1> DEFINE B == Nat \ T
<1>1. PICK n \in B : \A m \in B : n <= m
  BY Zenon, Least
<1>2. n - 1 \in Nat /\ n - 1 \notin B
  BY <1>1
<1> QED BY <1>2

\* The recursive definition in Updated has a solution: the loop, from the
\* position the value was found at down to 1.
LEMMA UpdatedUnfolds ==
    ASSUME NEW c, NEW k, NEW o, NEW idx \in Nat \ {0}
    PROVE  \E val : Steps(c, k, o, idx, val)
<1> DEFINE Once(i, w) == UpdateOnce(c, k, idx, i, w)
           Solves(g) == g = [i \in 1..idx |-> IF i = idx THEN o ELSE Once(i, g[i + 1])]
           From(g, j) == g[idx] = o /\ \A i \in j..(idx - 1) : g[i] = Once(i, g[i + 1])
           T == {m \in Nat : m < idx => \E g : From(g, idx - m)}
<1>1. 0 \in T
  <2> DEFINE g == [n \in {idx} |-> o]
  <2>1. g[idx] = o
    BY Zenon
  <2> HIDE DEF g, Once
  <2>2. idx - 0 = idx /\ (idx..(idx - 1)) = {}
    OBVIOUS
  <2> QED BY Zenon, <2>1, <2>2
<1>2. ASSUME NEW m \in Nat, m \in T PROVE m + 1 \in T
  <2> HIDE DEF Once
  <2> SUFFICES ASSUME m + 1 < idx PROVE \E h : From(h, idx - (m + 1))
    OBVIOUS
  <2>1. PICK g : From(g, idx - m)
    BY <1>2
  <2> DEFINE j == idx - (m + 1)
             h == [i \in 1..idx |-> IF i = j THEN Once(j, g[j + 1]) ELSE g[i]]
  <2>2. j \in 1..idx /\ j + 1 \in 1..idx /\ j + 1 # j /\ j # idx /\ j + 1 = idx - m
    OBVIOUS
  <2>3. h[idx] = o
    BY <2>1, <2>2
  <2>4. ASSUME NEW i \in j..(idx - 1) PROVE h[i] = Once(i, h[i + 1])
    <3>1. i + 1 \in 1..idx /\ i + 1 # j /\ i \in 1..idx
      BY <2>2
    <3>2. h[i + 1] = g[i + 1]
      BY Zenon, <3>1
    <3>3. CASE i = j
      <4>1. h[i] = Once(j, g[j + 1])
        BY Zenon, <3>1, <3>3
      <4> QED BY Zenon, <3>2, <3>3, <4>1
    <3>4. CASE i # j
      <4>1. h[i] = g[i] /\ i \in (idx - m)..(idx - 1)
        BY <2>2, <3>1, <3>4
      <4> QED BY Zenon, <2>1, <3>2, <4>1
    <3> QED BY Zenon, <3>3, <3>4
  <2> HIDE DEF h
  <2> QED BY Zenon, <2>3, <2>4
<1>3. \E g : From(g, 1)
  <2>1. idx - 1 \in T
    <3> HIDE DEF T
    <3> QED BY <1>1, <1>2, Induct
  <2> HIDE DEF Once
  <2> QED BY <2>1
<1>4. \E g : Solves(g)
  <2> HIDE DEF Once
  <2>1. PICK g : From(g, 1)
    BY Zenon, <1>3
  <2> DEFINE h == [i \in 1..idx |-> g[i]]
  <2>2. ASSUME NEW i \in 1..idx PROVE h[i] = IF i = idx THEN o ELSE Once(i, h[i + 1])
    <3>1. CASE i = idx
      BY Zenon, <2>1, <3>1
    <3>2. CASE i # idx
      <4>1. i + 1 \in 1..idx /\ i \in 1..(idx - 1)
        BY <3>2
      <4>2. h[i + 1] = g[i + 1] /\ h[i] = g[i]
        BY Zenon, <4>1
      <4> QED BY Zenon, <2>1, <4>1, <4>2
    <3> QED BY Zenon, <3>1, <3>2
  <2>3. h = [i \in 1..idx |-> h[i]]
    BY Zenon
  <2> HIDE DEF h
  <2>4. Solves(h)
    BY Zenon, <2>2, <2>3
  <2> QED BY Zenon, <2>4
<1>5. PICK val : Solves(val) /\ Updated(c, k, o, idx) = val[1]
  BY Zenon, <1>4 DEF Updated, UpdateOnce
<1>6. val[idx] = o /\ \A i \in 1..(idx - 1) : val[i] = Once(i, val[i + 1])
  <2> HIDE DEF Once
  <2> QED BY <1>5
<1> QED BY Zenon, <1>5, <1>6 DEF Steps

\* Positions of a list: a value is found beyond the first.
LEMMA Beyond ==
    ASSUME NEW n, n \in Nat, NEW j, j \in 2..n
    PROVE  j \in 1..n /\ j \in Nat \ {0} /\ 1 \in 1..(j - 1)
OBVIOUS

\* What comes before a position is in the list.
LEMMA Before ==
    ASSUME NEW n, n \in Nat, NEW j, j \in 1..n
    PROVE  \A i \in 1..(j - 1) : i \in 1..n
OBVIOUS

\* What get remembers of what it has found.
LEMMA Found ==
    ASSUME NEW r, NEW k, NEW j, NEW o, NEW w, r = [key |-> k, idx |-> j, orig_val |-> o, val |-> w]
    PROVE  r.key = k /\ r.idx = j /\ r.orig_val = o /\ r.val = w
BY Zenon

\* The list of a client that is in use, and its head.
LEMMA ListFacts ==
    ASSUME NEW l \in Seq(Entry), l # << >>
    PROVE  /\ Len(l) \in Nat \ {0} /\ DOMAIN l = 1..Len(l) /\ 1 \in DOMAIN l
           /\ \A i \in 1..Len(l) : l[i] \in Entry /\ l[i].ver \in Ver /\ l[i].ns \in NS
<1> DEFINE E == Entry
<1>1. l \in Seq(E)
  BY Zenon
<1> HIDE DEF E
<1>2. Len(l) \in Nat \ {0} /\ DOMAIN l = 1..Len(l) /\ \A i \in 1..Len(l) : l[i] \in E
  BY <1>1
<1> QED BY <1>2 DEF E, Entry

\* What get makes of a value found at position idx: a value of the newest
\* version if it was of the version it was stored under, or an exception; a
\* marker stays a marker or is an exception.
LEMMA UpdatedFacts ==
    ASSUME NEW c, NEW k, NEW o \in Value \cup {Marker}, vers_list(c) \in Seq(Entry),
           NEW idx \in 1..Len(vers_list(c)), vers_list(c) # << >>
    PROVE  LET new == Updated(c, k, o, idx) IN
           /\ new \in Value \cup {NULL, Marker}
           /\ o \in Value => new \in Value \cup {NULL}
           /\ o = Marker => new \in {NULL, Marker}
           /\ (o \in Value /\ o.conf = vers_list(c)[idx].ver /\ new \in Value)
                => new.conf = vers_list(c)[1].ver
<1> DEFINE l == vers_list(c)
           S == Value \cup {NULL}
           Good(i, w) == IF o = Marker THEN w \in {NULL, Marker}
                         ELSE w \in S /\ (o.conf = l[idx].ver /\ w # NULL => w.conf = l[i].ver)
<1>1. idx \in Nat \ {0} /\ \A i \in 1..idx : l[i].ver \in Ver
  BY ListFacts
<1>a. PICK val : Steps(c, k, o, idx, val)
  BY Zenon, <1>1, UpdatedUnfolds
<1>2. /\ val[idx] = o
      /\ \A i \in 1..(idx - 1) : val[i] = UpdateOnce(c, k, idx, i, val[i + 1])
      /\ Updated(c, k, o, idx) = val[1]
  BY Zenon, <1>a DEF Steps
<1>3. Marker \notin Value /\ NULL \notin Value /\ Marker # NULL
  BY Zenon, DataAssumption DEF Value
<1>4. ASSUME NEW i \in 1..(idx - 1), NEW w, Good(i + 1, w)
      PROVE  Good(i, UpdateOnce(c, k, idx, i, w))
  <2> DEFINE x == UpdateOnce(c, k, idx, i, w)
             m == [w EXCEPT !.conf = IF @ = l[i + 1].ver THEN l[i].ver ELSE Garbled]
  <2>1. x = NULL \/ (w = Marker /\ x = Marker) \/ (w # Marker /\ w # NULL /\ x = m)
    BY Zenon DEF UpdateOnce
  <2>2. CASE o = Marker
    BY Zenon, <1>4, <2>1, <2>2
  <2>3. CASE o # Marker
    <3>1. w \in S /\ (o.conf = l[idx].ver /\ w # NULL => w.conf = l[i + 1].ver)
      BY Zenon, <1>4, <2>3
    <3>2. CASE x = NULL
      BY Zenon, <2>3, <3>2
    <3>3. CASE w \in Value /\ x = m
      <4>1. l[i].ver \in Ver
        BY <1>1
      <4>2. m \in Value /\ (w.conf = l[i + 1].ver => m.conf = l[i].ver)
        <5> DEFINE v == IF w.conf = l[i + 1].ver THEN l[i].ver ELSE Garbled
        <5>1. v \in Ver \cup {Garbled} /\ m = [w EXCEPT !.conf = v]
          BY Zenon, <4>1
        <5> HIDE DEF v, m
        <5>2. m \in Value /\ m.conf = v
          BY Zenon, <3>3, <5>1 DEF Value
        <5> QED BY Zenon, <5>2 DEF v
      <4> HIDE DEF m, x
      <4>3. Good(i, x)
        BY Zenon, <1>3, <2>3, <3>1, <3>3, <4>2
      <4> QED BY Zenon, <4>3 DEF x
    <3> HIDE DEF x, m
    <3> QED BY Zenon, <1>3, <2>1, <3>1, <3>2, <3>3
  <2> QED BY Zenon, <2>2, <2>3
<1> HIDE DEF Good
<1>5. Good(idx, o)
  BY Zenon, <1>3 DEF Good
<1> DEFINE T == {m \in Nat : m < idx => Good(idx - m, val[idx - m])}
<1>6. 0 \in T
  BY <1>1, <1>2, <1>5
<1>7. ASSUME NEW m \in Nat, m \in T PROVE m + 1 \in T
  <2> SUFFICES ASSUME m + 1 < idx PROVE Good(idx - (m + 1), val[idx - (m + 1)])
    OBVIOUS
  <2> DEFINE i == idx - (m + 1)
  <2>1. i \in 1..(idx - 1) /\ i + 1 = idx - m /\ m < idx
    BY <1>1
  <2>2. Good(i + 1, val[i + 1])
    BY Zenon, <1>7, <2>1
  <2> HIDE DEF i
  <2>3. Good(i, val[i])
    BY Zenon, <1>2, <1>4, <2>1, <2>2
  <2> QED BY Zenon, <2>3 DEF i
<1>8. Good(1, val[1])
  <2>1. idx - 1 \in T
    <3> HIDE DEF T
    <3> QED BY <1>1, <1>6, <1>7, Induct
  <2> QED BY <1>1, <2>1
<1> DEFINE new == Updated(c, k, o, idx)
<1>9. Good(1, new)
  BY Zenon, <1>2, <1>8
<1>10. CASE o = Marker
  BY Zenon, <1>3, <1>9, <1>10 DEF Good
<1>11. CASE o # Marker
  <2>1. new \in S /\ (o.conf = l[idx].ver /\ new # NULL => new.conf = l[1].ver)
    BY Zenon, <1>9, <1>11 DEF Good
  <2> HIDE DEF new
  <2>2. /\ new \in Value \cup {NULL, Marker}
        /\ o \in Value => new \in Value \cup {NULL}
        /\ (o \in Value /\ o.conf = l[idx].ver /\ new \in Value) => new.conf = l[1].ver
    BY Zenon, <1>3, <2>1
  <2> QED BY Zenon, <1>11, <2>2 DEF new
<1> QED BY Zenon, <1>10, <1>11

\* Nothing found is nothing at the newest version: RENAME is an error.
LEMMA UpdatedNothing ==
    ASSUME NEW c, NEW k, NEW idx \in Nat \ {0}
    PROVE  Updated(c, k, NULL, idx) = NULL
<1>a. PICK val : Steps(c, k, NULL, idx, val)
  BY Zenon, UpdatedUnfolds
<1>1. /\ val[idx] = NULL
      /\ \A i \in 1..(idx - 1) : val[i] = UpdateOnce(c, k, idx, i, val[i + 1])
      /\ Updated(c, k, NULL, idx) = val[1]
  BY Zenon, <1>a DEF Steps
<1> DEFINE T == {m \in Nat : m < idx => val[idx - m] = NULL}
<1>2. 0 \in T
  BY <1>1
<1>3. ASSUME NEW m \in Nat, m \in T PROVE m + 1 \in T
  <2> SUFFICES ASSUME m + 1 < idx PROVE val[idx - (m + 1)] = NULL
    OBVIOUS
  <2> DEFINE i == idx - (m + 1)
  <2>1. i \in 1..(idx - 1) /\ i + 1 = idx - m /\ m < idx
    OBVIOUS
  <2>2. val[i + 1] = NULL
    BY Zenon, <1>3, <2>1
  <2> HIDE DEF i
  <2>3. val[i] = NULL
    BY Zenon, <1>1, <2>1, <2>2 DEF UpdateOnce
  <2> QED BY Zenon, <2>3 DEF i
<1>4. idx - 1 \in T
  <2> HIDE DEF T
  <2> QED BY <1>2, <1>3, Induct
<1>5. val[1] = NULL
  BY <1>4
<1> QED BY Zenon, <1>1, <1>5

-----------------------------------------------------------------------------
(* Types *)

\* What the client's own state decides depends on nothing else.
LEMMA OthersTyped ==
    ASSUME TypeInv, NEW c \in Client, Rest(c), NEW d \in Client \ {c}
    PROVE  ClientTyped(d)'
<1>1. pc'[d] = pc[d] /\ job'[d] = job[d] /\ program'[d] = program[d]
      /\ ns_versions_dict'[d] = ns_versions_dict[d]
  BY Zenon DEF Rest
<1>2. ClientTyped(d)
  BY Zenon DEF TypeInv
<1> QED BY Zenon, <1>1, <1>2 DEF ClientTyped, InUse, vers_list, Here

\* They are the only ways in which it changes.
LEMMA WatchSteps ==
    ASSUME VersionTyped, NEW c \in Client
    PROVE  /\ UNCHANGED watched => OwnWatch(c)
           /\ \A S \in SUBSET Things : Watch(c, S) => OwnWatch(c)
           /\ Unwatch(c) => OwnWatch(c)
           /\ \A S : Touch(S) => OwnWatch(c)
           /\ \A S : watched' = [d \in Client |-> IF d = c THEN {} ELSE watched[d] \ S] => OwnWatch(c)
<1>1. watched \in [Client -> SUBSET Things]
  BY Zenon DEF VersionTyped
<1> QED BY Zenon, <1>1 DEF OwnWatch, Watch, Unwatch, Touch

\* The name a client gives consists of entries.
LEMMA NameTyped ==
    ASSUME Typed, NEW c \in Client
    PROVE  NameOf(c) \subseteq Entry
<1> SUFFICES ASSUME NEW n \in NS, ns_versions_dict[c][n] # << >>
             PROVE  [ns |-> n, ver |-> ns_versions_dict[c][n][1].ver] \in Entry
  BY Zenon DEF NameOf
<1>1. ns_versions_dict[c][n] \in Seq(Entry)
  BY Zenon DEF Typed
<1>2. ns_versions_dict[c][n][1].ver \in Ver
  BY Zenon, <1>1, ListFacts
<1> QED BY Zenon, <1>2 DEF Entry

\* The lists of a client that is in use.
LEMMA InUseFacts ==
    ASSUME Typed, NEW c \in Client, InUse(c)
    PROVE  /\ Here(c) \in NS /\ vers_list(c) \in Seq(Entry) /\ vers_list(c) # << >>
           /\ Len(vers_list(c)) \in Nat \ {0} /\ DOMAIN vers_list(c) = 1..Len(vers_list(c))
           /\ 1 \in DOMAIN vers_list(c)
           /\ \A i \in 1..Len(vers_list(c)) :
                vers_list(c)[i] \in Entry /\ vers_list(c)[i].ver \in Ver /\ vers_list(c)[i].ns \in NS
<1>1. Here(c) \in NS /\ ns_versions_dict[c][Here(c)] # << >>
  BY Zenon DEF InUse, Here
<1>2. vers_list(c) \in Seq(Entry) /\ vers_list(c) # << >>
  BY Zenon, <1>1 DEF vers_list, Typed
<1> QED BY Zenon, <1>1, <1>2, ListFacts

\* A client that starts afresh: exit, and a connection that is turned down.
LEMMA ResetTypes ==
    ASSUME TypeInv, NEW c \in Client, Reset(c), UNCHANGED listVars, OwnScan(c)
    PROVE  VersionTyped' /\ Rest(c) /\ ClientTyped(c)'
<1>1. OwnWatch(c)
  BY Zenon, WatchSteps DEF Reset, TypeInv, UpdInv, Typed
<1>2. VersionTyped'
  BY Zenon, <1>1 DEF Reset, VersionTyped, OwnWatch, listVars, TypeInv, UpdInv, Typed
<1>3. pc'[c] = "off"
  BY Zenon DEF Reset, Goto, TypeInv, UpdInv, Typed
<1>4. ClientTyped(c)'
  BY Zenon, <1>3 DEF ClientTyped, Serving, Getting
<1>5. Rest(c)
  BY Zenon, <1>1 DEF Rest, Reset, Goto, OwnWatch, VersionTyped, DataTyped, OwnScan, TypeInv, UpdInv, Typed
<1> QED BY Zenon, <1>2, <1>4, <1>5

\* __init__ keeps the types.
LEMMA ConnectTypes ==
    ASSUME TypeInv, UpdInv', NEW c \in Client, ConnectStep(c), OwnScan(c)
    PROVE  VersionTyped' /\ Rest(c) /\ ClientTyped(c)'
<1>1. ASSUME NEW p \in Programs, connect(c, p) PROVE VersionTyped' /\ Rest(c) /\ ClientTyped(c)'
  <2>1. p \in Entry /\ p.ver \in Ver /\ p.ns \in NS
    BY Zenon, LurAssumption DEF Entry
  <2>2. OwnWatch(c)
    BY <1>1, <2>1, WatchSteps DEF connect, Things, TypeInv, UpdInv, Typed
  <2>3. pc'[c] = "c_read" /\ program'[c] = p.ver
    BY Zenon, <1>1 DEF connect, Goto, VersionTyped, TypeInv, UpdInv, Typed
  <2>4. VersionTyped'
    BY Zenon, <1>1, <2>1, <2>2 DEF connect, VersionTyped, OwnWatch, listVars, localVars, TypeInv, UpdInv, Typed
  <2>5. ClientTyped(c)'
    BY Zenon, <2>1, <2>3 DEF ClientTyped, Serving, Getting
  <2>6. Rest(c)
    BY Zenon, <1>1, <2>2 DEF Rest, connect, Goto, OwnWatch, VersionTyped, DataTyped, localVars,
                             OwnScan, TypeInv, UpdInv, Typed
  <2> QED BY Zenon, <2>4, <2>5, <2>6
<1>2. CASE connect_read(c)
  <2> DEFINE p == job[c]
             l == UPDATE_VERSIONS[p.ns]
  <2>1. p \in Entry /\ p.ns \in NS /\ pc[c] = "c_read" /\ program[c] \in Ver
    BY Zenon, <1>2 DEF connect_read, JobTyped, Entry, ClientTyped, TypeInv, UpdInv, Typed
  <2>2. CASE Reset(c)
    BY Zenon, <1>2, <2>1, <2>2, ResetTypes DEF connect_read
  <2>3. ASSUME NEW x \in {"c_load", "c_exec"}, Goto(c, x), NEW m, m # << >>,
               ns_versions_dict' = [ns_versions_dict EXCEPT ![c][p.ns] = m],
               UNCHANGED <<job, program, upd_dict, name, killed, watched, UPDATE_VERSIONS, UPDATE_DSL_STRINGS>>
        PROVE  VersionTyped' /\ Rest(c) /\ ClientTyped(c)'
    <3>1. VersionTyped'
      BY Zenon, <2>3 DEF VersionTyped, TypeInv, UpdInv, Typed
    <3>2. pc'[c] = x /\ program'[c] \in Ver /\ ns_versions_dict'[c][p.ns] = m
      BY Zenon, <2>1, <2>3 DEF Goto, TypeInv, UpdInv, Typed
    <3>3. InUse(c)'
      BY Zenon, <2>1, <2>3, <3>2 DEF InUse
    <3>4. ClientTyped(c)'
      BY Zenon, <2>3, <3>2, <3>3 DEF ClientTyped, Serving, Getting
    <3>5. Rest(c)
      BY Zenon, <2>3 DEF Rest, Goto, OwnScan, DataTyped, TypeInv, UpdInv, Typed
    <3> QED BY Zenon, <3>1, <3>4, <3>5
  <2>4. CASE l # << >> /\ Goto(c, "c_load") /\ ns_versions_dict' = [ns_versions_dict EXCEPT ![c][p.ns] = l]
             /\ UNCHANGED <<job, program, upd_dict, name, killed, watched>>
    BY Zenon, <1>2, <2>3, <2>4 DEF connect_read, listVars
  <2>5. CASE Goto(c, "c_exec") /\ ns_versions_dict' = [ns_versions_dict EXCEPT ![c][p.ns] = <<p>>]
             /\ UNCHANGED <<job, program, upd_dict, name, killed, watched>>
    BY Zenon, <1>2, <2>3, <2>5 DEF connect_read, listVars
  <2> QED BY Zenon, <1>2, <2>2, <2>4, <2>5 DEF connect_read
<1>3. CASE connect_exec(c)
  <2>1. pc[c] = "c_exec" /\ pc'[c] = "c_load"
    BY Zenon, <1>3 DEF connect_exec, Goto, TypeInv, UpdInv, Typed
  <2>2. OwnWatch(c)
    BY Zenon, <1>3, WatchSteps DEF connect_exec, TypeInv, UpdInv, Typed
  <2>3. VersionTyped'
    BY Zenon, <1>3, <2>2 DEF connect_exec, VersionTyped, OwnWatch, localVars, TypeInv, UpdInv, Typed
  <2>4. ClientTyped(c)'
    BY Zenon, <1>3, <2>1 DEF connect_exec, ClientTyped, Serving, Getting, InUse, localVars,
                             TypeInv, UpdInv, Typed
  <2>5. Rest(c)
    BY Zenon, <1>3, <2>2 DEF Rest, connect_exec, Goto, OwnWatch, localVars, OwnScan, DataTyped, TypeInv,
                      UpdInv, Typed
  <2> QED BY Zenon, <2>3, <2>4, <2>5
<1>4. CASE load_upd_tuples(c)
  <2>1. pc[c] = "c_load" /\ pc'[c] = "c_setname"
    BY Zenon, <1>4 DEF load_upd_tuples, Goto, TypeInv, UpdInv, Typed
  <2>2. VersionTyped'
    BY Zenon, <1>4 DEF load_upd_tuples, VersionTyped, listVars, TypeInv, UpdInv, Typed
  <2>3. ClientTyped(c)'
    BY Zenon, <1>4, <2>1 DEF load_upd_tuples, ClientTyped, Serving, Getting, InUse, TypeInv, UpdInv, Typed
  <2>4. Rest(c)
    BY Zenon, <1>4 DEF Rest, load_upd_tuples, Goto, VersionTyped, OwnScan, DataTyped, TypeInv, UpdInv, Typed
  <2> QED BY Zenon, <2>2, <2>3, <2>4
<1>5. CASE connect_setname(c)
  <2>1. pc[c] = "c_setname" /\ pc'[c] = "ready"
    BY Zenon, <1>5 DEF connect_setname, Goto, TypeInv, UpdInv, Typed
  <2>2. OwnWatch(c)
    BY Zenon, <1>5, WatchSteps DEF connect_setname, TypeInv, UpdInv, Typed
  <2>3. VersionTyped'
    BY Zenon, <1>5, <2>2, NameTyped DEF connect_setname, VersionTyped, OwnWatch, listVars, TypeInv, UpdInv, Typed
  <2>4. ClientTyped(c)'
    BY Zenon, <1>5, <2>1 DEF connect_setname, ClientTyped, Serving, Getting, InUse, TypeInv, UpdInv, Typed
  <2>5. Rest(c)
    BY Zenon, <1>5, <2>2 DEF Rest, connect_setname, Goto, VersionTyped, OwnWatch, OwnScan,
                             DataTyped, TypeInv, UpdInv, Typed
  <2> QED BY Zenon, <2>3, <2>4, <2>5
<1> QED BY Zenon, <1>1, <1>2, <1>3, <1>4, <1>5 DEF ConnectStep

\* Such a step keeps the types, if the client still has a version list.
LEMMA OwnUpdateTypes ==
    ASSUME TypeInv, NEW c \in Client, pc[c] \in Updating \cup {"ready"},
           NEW x \in Updating \cup {"ready"}, Goto(c, x), OwnJob(c), OwnWatch(c), OwnScan(c),
           OwnDict(c), InUse(c)', OwnUpdate(c)
    PROVE  VersionTyped' /\ Rest(c) /\ ClientTyped(c)'
<1>1. VersionTyped'
  BY DEF VersionTyped, OwnUpdate, OwnWatch, TypeInv, UpdInv
<1>2. /\ pc'[c] = x /\ \A d \in Client \ {c} : pc'[d] = pc[d] /\ job'[d] = job[d]
      /\ \A d \in Client \ {c} : ns_versions_dict'[d] = ns_versions_dict[d]
  BY Zenon, OwnState, DictTyped DEF TypeInv, UpdInv
<1>3. program'[c] \in Ver
  <2>1. program[c] \in Ver
    BY Zenon DEF ClientTyped, Updating, TypeInv, UpdInv
  <2> QED BY Zenon, <2>1 DEF OwnUpdate, VersionTyped, TypeInv, UpdInv
<1>4. ClientTyped(c)'
  BY Zenon, <1>2, <1>3 DEF ClientTyped, Serving, Getting, Updating
<1>5. Rest(c)
  <2>1. \A d \in Client \ {c} : scan'[d] = scan[d]
    BY Zenon DEF OwnScan, DataTyped, TypeInv
  <2>2. \A d \in Client \ {c} :
          program'[d] = program[d] /\ upd_dict'[d] = upd_dict[d] /\ name'[d] = name[d]
    BY Zenon DEF OwnUpdate, VersionTyped, TypeInv
  <2> QED BY Zenon, <1>2, <2>1, <2>2 DEF Rest, OwnWatch
<1> QED BY Zenon, <1>1, <1>4, <1>5

\* do_upd keeps the types: the client has a version list all the way.
LEMMA UpdateTypes ==
    ASSUME TypeInv, UpdInv', NEW c \in Client, UpdateStep(c), OwnScan(c)
    PROVE  VersionTyped' /\ Rest(c) /\ ClientTyped(c)'
<1> DEFINE u == job[c].file
<1>1. pc[c] \in Updating \cup {"ready"}
  BY Zenon DEF UpdateStep, do_upd, upd_hget, upd_watch, upd_read, upd_exec, rename_exists, rename_watch,
         rename_read, rename_exec, upd_hset, upd_setname, kill_connected_clients_at, Updating
<1>2. pc[c] \in Updating => u \in Files /\ u.ns \in NS /\ u.oldns \in NS /\ u.to \in Ver
  BY Zenon, LurAssumption DEF JobTyped, TypeInv, UpdInv
<1>3. InUse(c)
  BY Zenon, <1>1 DEF ClientTyped, Updating, TypeInv, UpdInv
<1>4. UNCHANGED localVars => OwnDict(c) /\ InUse(c)'
  BY Zenon, <1>3 DEF OwnDict, InUse, localVars
<1>5. UNCHANGED <<listVars, program, localVars>> => OwnUpdate(c)
  BY Zenon DEF OwnUpdate, localVars, listVars, VersionTyped, TypeInv, UpdInv
<1>6. DslStrings \in Things /\ \A n \in NS : List(n) \in Things
  BY Zenon DEF Things
<1>7. Leave(c) => Goto(c, "ready") /\ OwnJob(c) /\ OwnWatch(c)
  BY Zenon, WatchSteps DEF Leave, OwnJob, TypeInv, UpdInv
<1>8. ASSUME NEW f \in Files, do_upd(c, f) PROVE VersionTyped' /\ Rest(c) /\ ClientTyped(c)'
  <2>1. OwnWatch(c)
    BY Zenon, <1>6, <1>8, WatchSteps DEF do_upd, Things, TypeInv, UpdInv
  <2>2. Goto(c, "u_hget") /\ OwnJob(c)
    BY Zenon, <1>8 DEF do_upd, OwnJob
  <2> QED BY Zenon, <1>1, <1>4, <1>5, <1>8, <2>1, <2>2, OwnUpdateTypes DEF do_upd, Updating
<1>9. CASE upd_hget(c)
  <2>1. \E x \in Updating \cup {"ready"} : Goto(c, x)
    BY Zenon, <1>7, <1>9 DEF upd_hget, Updating
  <2>2. OwnJob(c) /\ OwnWatch(c)
    BY Zenon, <1>7, <1>9, WatchSteps DEF upd_hget, OwnJob, TypeInv, UpdInv
  <2> QED BY Zenon, <1>1, <1>4, <1>5, <1>9, <2>1, <2>2, OwnUpdateTypes DEF upd_hget
<1>10. CASE upd_watch(c)
  <2>1. OwnWatch(c)
    BY Zenon, <1>2, <1>6, <1>10, WatchSteps DEF upd_watch, Things, Updating, TypeInv, UpdInv
  <2>2. Goto(c, "u_read") /\ OwnJob(c)
    BY Zenon, <1>10 DEF upd_watch, OwnJob
  <2> QED BY Zenon, <1>1, <1>4, <1>5, <1>10, <2>1, <2>2, OwnUpdateTypes DEF upd_watch, Updating
<1>11. CASE upd_read(c)
  <2> DEFINE l == UPDATE_VERSIONS[u.ns]
             m == <<[ver |-> u.to, ns |-> u.ns]>> \o l
  <2>1. u.ns \in NS /\ u.to \in Ver
    BY Zenon, <1>2, <1>11 DEF upd_read, Updating
  <2>2. m \in Seq(Entry) /\ m # << >>
    <3>1. l \in Seq(Entry) /\ [ver |-> u.to, ns |-> u.ns] \in Entry
      BY Zenon, <2>1 DEF Typed, Entry, TypeInv, UpdInv
    <3> DEFINE e == [ver |-> u.to, ns |-> u.ns]
    <3>2. <<e>> \o l \in Seq(Entry) /\ <<e>> \o l # << >>
      <4> HIDE DEF l, e
      <4> QED BY <3>1, Prefixed DEF e
    <3> QED BY Zenon, <3>2
  <2>3. OwnDict(c) /\ InUse(c)'
    <3>1. CASE ns_versions_dict' = ns_versions_dict
      BY Zenon, <1>3, <3>1 DEF OwnDict, InUse
    <3>2. CASE ns_versions_dict' = [ns_versions_dict EXCEPT ![c][u.ns] = m]
      <4> HIDE DEF m, u
      <4>1. OwnDict(c)
        BY Zenon, <2>2, <3>2, DictReplaced DEF TypeInv, UpdInv
      <4>2. ns_versions_dict'[c][u.ns] = m
        BY Zenon, <2>1, <3>2 DEF Typed, TypeInv, UpdInv
      <4> QED BY Zenon, <2>1, <2>2, <4>1, <4>2 DEF InUse
    <3> QED BY Zenon, <1>11, <3>1, <3>2 DEF upd_read
  <2>4. OwnWatch(c) /\ OwnJob(c) /\ \E x \in Updating \cup {"ready"} : Goto(c, x)
    BY Zenon, <1>11, WatchSteps DEF upd_read, OwnJob, Updating, TypeInv, UpdInv
  <2>5. OwnUpdate(c)
    BY Zenon, <1>11 DEF upd_read, OwnUpdate, VersionTyped, listVars, TypeInv, UpdInv
  <2> QED BY Zenon, <1>1, <2>3, <2>4, <2>5, OwnUpdateTypes
<1>12. CASE upd_exec(c)
  <2>1. \E x \in Updating \cup {"ready"} : Goto(c, x)
    BY Zenon, <1>7, <1>12 DEF upd_exec, Updating
  <2>2. OwnJob(c) /\ OwnWatch(c)
    BY Zenon, <1>7, <1>12, WatchSteps DEF upd_exec, OwnJob, TypeInv, UpdInv
  <2>3. OwnUpdate(c)
    BY Zenon, <1>12 DEF upd_exec, OwnUpdate, VersionTyped, localVars, TypeInv, UpdInv
  <2> QED BY Zenon, <1>1, <1>4, <1>12, <2>1, <2>2, <2>3, OwnUpdateTypes DEF upd_exec
<1>13. CASE rename_exists(c)
  <2>1. \E x \in Updating \cup {"ready"} : Goto(c, x)
    BY Zenon, <1>7, <1>13 DEF rename_exists, Updating
  <2>2. OwnJob(c) /\ OwnWatch(c)
    BY Zenon, <1>7, <1>13, WatchSteps DEF rename_exists, OwnJob, TypeInv, UpdInv
  <2> QED BY Zenon, <1>1, <1>4, <1>5, <1>13, <2>1, <2>2, OwnUpdateTypes DEF rename_exists
<1>14. CASE rename_watch(c)
  <2>1. OwnWatch(c)
    BY Zenon, <1>2, <1>6, <1>14, WatchSteps DEF rename_watch, Things, Updating, TypeInv, UpdInv
  <2>2. Goto(c, "r_read") /\ OwnJob(c)
    BY Zenon, <1>14 DEF rename_watch, OwnJob
  <2> QED BY Zenon, <1>1, <1>4, <1>5, <1>14, <2>1, <2>2, OwnUpdateTypes DEF rename_watch, Updating
<1>15. CASE rename_read(c)
  <2> DEFINE l == UPDATE_VERSIONS[u.oldns]
             m == Renamed(u, l)
  <2>1. u.ns \in NS /\ u.oldns \in NS /\ u.to \in Ver /\ u.ns # u.oldns
    BY Zenon, <1>2, <1>15 DEF rename_read, Updating, JobTyped, Renaming, TypeInv, UpdInv
  <2>2. m \in Seq(Entry) /\ m # << >>
    <3> DEFINE e == [ver |-> u.to, ns |-> u.ns]
    <3>1. l \in Seq(Entry) /\ e \in Entry
      BY Zenon, <2>1 DEF Typed, Entry, TypeInv, UpdInv
    <3>2. <<e>> \o l \in Seq(Entry) /\ <<e>> \o l # << >>
      <4> HIDE DEF l, e
      <4> QED BY <3>1, Prefixed
    <3> QED BY Zenon, <3>2 DEF Renamed
  <2>3. OwnDict(c) /\ InUse(c)'
    <3>1. CASE ns_versions_dict' = ns_versions_dict
      BY Zenon, <1>3, <3>1 DEF OwnDict, InUse
    <3>2. CASE ns_versions_dict' = [ns_versions_dict EXCEPT ![c][u.ns] = m, ![c][u.oldns] = << >>]
      <4> HIDE DEF m, u
      <4> DEFINE S == Seq(Entry)
                 f == [ns_versions_dict[c] EXCEPT ![u.ns] = m, ![u.oldns] = << >>]
      <4>1. ns_versions_dict \in [Client -> [NS -> S]] /\ m \in S /\ << >> \in S
        BY <2>2 DEF Typed, TypeInv, UpdInv
      <4> HIDE DEF S
      <4>2. f \in [NS -> S] /\ f[u.ns] = m
        BY Zenon, <2>1, <4>1
      <4>3. ns_versions_dict' = [ns_versions_dict EXCEPT ![c] = f]
        BY Zenon, <3>2, <4>1
      <4> HIDE DEF f
      <4>4. ns_versions_dict'[c] = f
        BY Zenon, <4>1, <4>3
      <4> QED BY Zenon, <2>1, <2>2, <4>2, <4>3, <4>4 DEF InUse, OwnDict, S
    <3> QED BY Zenon, <1>15, <3>1, <3>2 DEF rename_read
  <2>4. OwnWatch(c) /\ OwnJob(c) /\ \E x \in Updating \cup {"ready"} : Goto(c, x)
    BY Zenon, <1>7, <1>15, WatchSteps DEF rename_read, OwnJob, Updating, TypeInv, UpdInv
  <2>5. OwnUpdate(c)
    BY Zenon, <1>15 DEF rename_read, OwnUpdate, VersionTyped, listVars, TypeInv, UpdInv
  <2> QED BY Zenon, <1>1, <2>3, <2>4, <2>5, OwnUpdateTypes
<1>16. CASE rename_exec(c)
  <2>1. \E x \in Updating \cup {"ready"} : Goto(c, x)
    BY Zenon, <1>7, <1>16 DEF rename_exec, Updating
  <2>2. OwnJob(c) /\ OwnWatch(c)
    BY Zenon, <1>7, <1>16, WatchSteps DEF rename_exec, OwnJob, TypeInv, UpdInv
  <2>3. OwnUpdate(c)
    BY Zenon, <1>16 DEF rename_exec, OwnUpdate, VersionTyped, localVars, TypeInv, UpdInv
  <2> QED BY Zenon, <1>1, <1>4, <1>16, <2>1, <2>2, <2>3, OwnUpdateTypes DEF rename_exec
<1>17. CASE upd_hset(c)
  <2>1. \E x \in Updating \cup {"ready"} : Goto(c, x)
    BY Zenon, <1>7, <1>17 DEF upd_hset, Updating
  <2>2. OwnJob(c) /\ OwnWatch(c)
    BY Zenon, <1>7, <1>17, WatchSteps DEF upd_hset, OwnJob, TypeInv, UpdInv
  <2>3. OwnUpdate(c)
    BY Zenon, <1>2, <1>17 DEF upd_hset, OwnUpdate, VersionTyped, Updating, TypeInv, UpdInv
  <2>4. OwnDict(c) /\ InUse(c)'
    BY Zenon, <1>3, <1>17 DEF upd_hset, OwnDict, InUse
  <2> QED BY Zenon, <1>1, <2>1, <2>2, <2>3, <2>4, OwnUpdateTypes
<1>18. CASE upd_setname(c)
  <2>1. Goto(c, "u_kill") /\ OwnJob(c) /\ OwnWatch(c)
    BY Zenon, <1>18, WatchSteps DEF upd_setname, OwnJob, TypeInv, UpdInv
  <2>2. OwnUpdate(c)
    BY Zenon, <1>18, NameTyped DEF upd_setname, OwnUpdate, VersionTyped, listVars, TypeInv, UpdInv
  <2>3. OwnDict(c) /\ InUse(c)'
    BY Zenon, <1>3, <1>18 DEF upd_setname, OwnDict, InUse
  <2> QED BY Zenon, <1>1, <2>1, <2>2, <2>3, OwnUpdateTypes DEF Updating
<1>19. CASE kill_connected_clients_at(c)
  <2>1. Goto(c, "ready") /\ OwnJob(c) /\ OwnWatch(c)
    BY Zenon, <1>7, <1>19 DEF kill_connected_clients_at
  <2>2. OwnUpdate(c)
    BY Zenon, <1>2, <1>19 DEF kill_connected_clients_at, OwnUpdate, VersionTyped, listVars,
                              Updating, TypeInv, UpdInv
  <2>3. OwnDict(c) /\ InUse(c)'
    BY Zenon, <1>3, <1>19 DEF kill_connected_clients_at, OwnDict, InUse
  <2> QED BY Zenon, <1>1, <2>1, <2>2, <2>3, OwnUpdateTypes
<1> QED BY Zenon, <1>8, <1>9, <1>10, <1>11, <1>12, <1>13, <1>14, <1>15, <1>16, <1>17, <1>18, <1>19 DEF UpdateStep

\* The Redis keys of a call.
LEMMA KeyFacts ==
    ASSUME Typed, NEW c \in Client, InUse(c), NEW k \in Suffix
    PROVE  /\ CurrKey(c, k) \in Key /\ OldKeys(c, k) \subseteq Key /\ WatchedKeys(c, k) \subseteq Key
           /\ DOMAIN all_potential_keys(c, k) = 1..Len(vers_list(c))
           /\ \A i \in 1..Len(vers_list(c)) :
                all_potential_keys(c, k)[i] = <<vers_list(c)[i], k>> /\ all_potential_keys(c, k)[i] \in Key
           /\ Elements(all_potential_keys(c, k)) \subseteq Key
<1> DEFINE l == vers_list(c)
           N == Len(l)
<1>1. /\ Here(c) \in NS /\ N \in Nat \ {0} /\ DOMAIN l = 1..N
      /\ \A i \in 1..N : l[i] \in Entry
  BY Zenon, InUseFacts
<1>2. DOMAIN all_potential_keys(c, k) = 1..N
  BY Zenon, <1>1 DEF all_potential_keys
<1>3. ASSUME NEW i \in 1..N
      PROVE  all_potential_keys(c, k)[i] = <<l[i], k>> /\ all_potential_keys(c, k)[i] \in Key
  BY Zenon, <1>1 DEF all_potential_keys, Key
<1>4. ASSUME NEW i \in 1..N PROVE <<[l[i] EXCEPT !.ns = Here(c)], k>> \in Key
  <2>1. [l[i] EXCEPT !.ns = Here(c)] \in Entry
    <3> DEFINE e == l[i]
    <3>1. e \in Entry
      BY Zenon, <1>1
    <3> HIDE DEF e
    <3>2. [e EXCEPT !.ns = Here(c)] \in Entry
      BY Zenon, <1>1, <3>1 DEF Entry
    <3> QED BY Zenon, <3>2 DEF e
  <2> QED BY Zenon, <2>1 DEF Key
<1>5. WatchedKeys(c, k) \subseteq Key
  BY Zenon, <1>1, <1>4 DEF WatchedKeys
<1> HIDE DEF l, N
<1>6. 1 \in 1..N /\ 2..N \subseteq 1..N
  BY <1>1
<1>7. CurrKey(c, k) \in Key /\ OldKeys(c, k) \subseteq Key
  BY Zenon, <1>3, <1>6 DEF CurrKey, OldKeys, N, l
<1>8. Elements(all_potential_keys(c, k)) \subseteq Key
  BY Zenon, <1>2, <1>3 DEF Elements
<1> QED BY Zenon, <1>2, <1>3, <1>5, <1>7, <1>8 DEF N, l

\* So the types are kept.
LEMMA ServedTypes ==
    ASSUME TypeInv, NEW c \in Client, Served(c), OwnCall(c)'
    PROVE  VersionTyped' /\ DataTyped' /\ Rest(c) /\ ClientTyped(c)'
<1>1. VersionTyped'
  BY Zenon DEF VersionTyped, Served, OwnWatch, listVars, localVars, TypeInv, UpdInv
<1>2. DataTyped'
  <2>1. db' \in [Key -> Cells] /\ OwnScan(c)
    BY Zenon DEF Served
  <2>2. scan' \in [Client -> Scans]
    BY Zenon, <2>1 DEF DataTyped, OwnScan, TypeInv, UpdInv
  <2> QED BY Zenon, <2>1, <2>2 DEF DataTyped
<1>3. pc'[c] \in Serving /\ \A d \in Client \ {c} : pc'[d] = pc[d] /\ job'[d] = job[d]
  BY OwnState DEF Served, TypeInv, UpdInv
<1>4. ClientTyped(c)'
  <2>1. program[c] \in Ver /\ InUse(c)
    BY Zenon DEF Served, ClientTyped, Serving, Getting, TypeInv, UpdInv
  <2>2. program'[c] \in Ver /\ InUse(c)'
    BY Zenon, <2>1 DEF Served, InUse, localVars
  <2> QED BY Zenon, <1>3, <2>2 DEF ClientTyped, OwnCall
<1>5. Rest(c)
  <2>1. UNCHANGED <<program, ns_versions_dict, upd_dict, name>> /\ OwnWatch(c) /\ OwnScan(c)
    BY Zenon DEF Served, localVars
  <2>2. \A d \in Client \ {c} : scan'[d] = scan[d]
    BY Zenon, <2>1 DEF OwnScan, DataTyped, TypeInv, UpdInv
  <2> QED BY Zenon, <1>3, <2>1, <2>2 DEF Rest, OwnWatch
<1> QED BY Zenon, <1>1, <1>2, <1>4, <1>5

\* What the calls do to what is watched.
LEMMA KeyWatchSteps ==
    ASSUME VersionTyped, NEW c \in Client
    PROVE  /\ UNCHANGED watched => KeyWatch(c, {})
           /\ \A S \in SUBSET Things : Watch(c, S) => KeyWatch(c, {})
           /\ Unwatch(c) => KeyWatch(c, {})
           /\ \A S \in SUBSET Key : Touch(S) => KeyWatch(c, S)
           /\ \A S \in SUBSET Key :
                watched' = [d \in Client |-> IF d = c THEN {} ELSE watched[d] \ S] => KeyWatch(c, S)
<1>1. watched \in [Client -> SUBSET Things]
  BY Zenon DEF VersionTyped
<1>2. UNCHANGED watched => KeyWatch(c, {})
  BY Zenon, WatchSteps DEF KeyWatch
<1>3. ASSUME NEW S \in SUBSET Things, Watch(c, S) PROVE KeyWatch(c, {})
  BY Zenon, <1>1, <1>3, WatchSteps DEF KeyWatch, Watch
<1>4. Unwatch(c) => KeyWatch(c, {})
  BY Zenon, <1>1, WatchSteps DEF KeyWatch, Unwatch
<1>5. ASSUME NEW S \in SUBSET Key, Touch(S) PROVE KeyWatch(c, S)
  BY Zenon, <1>1, <1>5, WatchSteps DEF KeyWatch, Touch
<1>6. ASSUME NEW S \in SUBSET Key, watched' = [d \in Client |-> IF d = c THEN {} ELSE watched[d] \ S]
      PROVE  KeyWatch(c, S)
  BY Zenon, <1>1, <1>6, WatchSteps DEF KeyWatch
<1> QED BY Zenon, <1>2, <1>3, <1>4, <1>5, <1>6

\* It is enough to show what a call does to the data and to its own state.
LEMMA ServedSuffices ==
    ASSUME TypeInv, NEW c \in Client, pc[c] \in Serving, NEW x \in Serving, Goto(c, x), OwnJob(c),
           OwnScan(c), UNCHANGED <<listVars, program, localVars>>,
           NEW S, KeyWatch(c, S), db' \in [Key -> Cells], \A y \in Key : db'[y] # db[y] => y \in S
    PROVE  /\ Served(c)
           /\ (x = "ready" \/ (x # "g_exec" /\ job'[c].key \in Suffix)) => OwnCall(c)'
<1>1. Served(c)
  BY Zenon DEF Served, KeyWatch
<1>2. pc'[c] = x
  BY Zenon, OwnState DEF TypeInv, UpdInv
<1>3. (x = "ready" \/ (x # "g_exec" /\ job'[c].key \in Suffix)) => OwnCall(c)'
  BY Zenon, <1>2 DEF OwnCall
<1> QED BY Zenon, <1>1, <1>3

\* get, from the beginning or again.
LEMMA GetServed ==
    ASSUME TypeInv, NEW c \in Client, NEW k \in Suffix, get(c, k), OwnScan(c)
    PROVE  Served(c) /\ OwnCall(c)'
<1>1. pc[c] \in Serving /\ KeyWatch(c, {}) /\ db' \in [Key -> Cells] /\ db' = db
  BY Zenon, KeyWatchSteps DEF get, Serving, Getting, TypeInv, DataTyped
<1>2. OwnJob(c) /\ UNCHANGED <<listVars, program, localVars>>
  BY Zenon DEF get, OwnJob
<1>3. CASE Goto(c, "ready")
  <2>1. "ready" \in Serving
    BY Zenon DEF Serving
  <2> QED BY Zenon, <1>1, <1>2, <1>3, <2>1, ServedSuffices
<1>4. CASE Goto(c, "g_mget") /\ job' = [job EXCEPT ![c] = [key |-> k]]
  <2>1. "g_mget" \in Serving /\ job'[c].key = k
    BY Zenon, <1>4 DEF Serving, Getting, TypeInv, UpdInv, Typed
  <2> QED BY Zenon, <1>1, <1>2, <1>4, <2>1, ServedSuffices
<1> QED BY Zenon, <1>3, <1>4 DEF get

\* The later steps of get, up to its transaction.
LEMMA GetStepsServed ==
    ASSUME TypeInv, NEW c \in Client, get_mget(c) \/ get_mark(c) \/ get_watch(c) \/ get_read(c)
    PROVE  Served(c) /\ OwnCall(c)'
<1> DEFINE k == job[c].key
<1>1. pc[c] \in Getting /\ pc[c] \in Serving
  BY Zenon DEF get_mget, get_mark, get_watch, get_read, Serving, Getting
<1>2. k \in Suffix /\ InUse(c)
  BY Zenon, <1>1 DEF ClientTyped, Serving, Getting, TypeInv, UpdInv
<1>3. CurrKey(c, k) \in Key /\ WatchedKeys(c, k) \subseteq Key
  BY Zenon, <1>2, KeyFacts DEF TypeInv, UpdInv
<1>4. \A x \in Getting \cup {"ready"} : x \in Serving
  BY Zenon DEF Serving
<1>5. NULL \in Cells /\ Marker \in Cells /\ NULL \in Scans
  BY Zenon DEF Cells, Scans
<1>6. CASE get_mget(c)
  <2>1. PICK x \in {"g_mark", "g_watch"} : Goto(c, x)
    BY Zenon, <1>6 DEF get_mget
  <2>2. KeyWatch(c, {}) /\ db' \in [Key -> Cells] /\ db' = db /\ OwnJob(c) /\ OwnScan(c)
    BY Zenon, <1>6, KeyWatchSteps DEF get_mget, DataTyped, OwnJob, OwnScan, TypeInv, UpdInv
  <2>3. x \in Serving /\ x # "g_exec" /\ job'[c].key \in Suffix
    BY Zenon, <1>2, <1>6 DEF get_mget, Serving, Getting
  <2> QED BY Zenon, <1>1, <1>6, <2>1, <2>2, <2>3, ServedSuffices DEF get_mget
<1>7. CASE get_mark(c)
  <2> DEFINE x == CurrKey(c, k)
             S == IF db[x] = NULL THEN {x} ELSE {}
  <2>1. Goto(c, "ready") /\ OwnJob(c) /\ OwnScan(c)
    BY Zenon, <1>7 DEF get_mark, Done, OwnJob, OwnScan
  <2>2. KeyWatch(c, S)
    BY Zenon, <1>3, <1>7, KeyWatchSteps DEF get_mark, TypeInv, UpdInv
  <2>3. db' \in [Key -> Cells] /\ \A y \in Key : db'[y] # db[y] => y \in S
    BY Zenon, <1>3, <1>5, <1>7 DEF get_mark, DataTyped, TypeInv, UpdInv
  <2> HIDE DEF S
  <2> QED BY Zenon, <1>1, <1>4, <1>7, <2>1, <2>2, <2>3, ServedSuffices DEF get_mark
<1>8. CASE get_watch(c)
  <2>1. WatchedKeys(c, k) \cup {List(Here(c))} \subseteq Things
    BY Zenon, <1>2, <1>3, InUseFacts DEF Things, TypeInv, UpdInv
  <2>2. KeyWatch(c, {}) /\ db' \in [Key -> Cells] /\ db' = db /\ OwnJob(c) /\ OwnScan(c)
    BY Zenon, <1>8, <2>1, KeyWatchSteps DEF get_watch, WatchKeys, DataTyped, OwnJob, OwnScan, TypeInv, UpdInv
  <2>3. "g_read" \in Serving /\ job'[c].key \in Suffix
    BY Zenon, <1>2, <1>8 DEF get_watch, Serving, Getting
  <2> QED BY Zenon, <1>1, <1>8, <2>2, <2>3, ServedSuffices DEF get_watch
<1>9. CASE get_read(c)
  <2>1. KeyWatch(c, {}) /\ db' \in [Key -> Cells] /\ db' = db /\ OwnJob(c) /\ OwnScan(c)
        /\ UNCHANGED <<listVars, program, localVars>>
    BY Zenon, <1>5, <1>9, KeyWatchSteps DEF get_read, DataTyped, OwnJob, OwnScan, Raise, Done,
                                            TypeInv, UpdInv
  <2>2. CASE Goto(c, "ready")
    BY Zenon, <1>1, <1>4, <2>1, <2>2, ServedSuffices
  <2>3. CASE ~Goto(c, "ready")
    <3> DEFINE ks == all_potential_keys(c, k)
               at == {i \in DOMAIN ks : db[ks[i]] # NULL}
               idx == CHOOSE i \in at : \A j \in at : i <= j
               new == Updated(c, k, db[ks[idx]], idx)
    <3>1. /\ at # {} /\ idx # 1 /\ new # NULL /\ Goto(c, "g_exec")
          /\ job' = [job EXCEPT ![c] = [key |-> k, idx |-> idx, orig_val |-> db[ks[idx]], val |-> new]]
      BY Zenon, <1>9, <2>3 DEF get_read, Done, Raise
    <3>2. at \subseteq 1..Len(vers_list(c)) /\ Len(vers_list(c)) \in Nat
      BY Zenon, <1>2, KeyFacts, InUseFacts DEF TypeInv, UpdInv
    <3>3. idx \in at
      <4>1. at \in SUBSET Nat
        BY <3>2
      <4> HIDE DEF at
      <4> QED BY Zenon, <3>1, <4>1, Least
    <3> HIDE DEF idx
    <3>4. idx \in 2..Len(vers_list(c)) /\ idx \in 1..Len(vers_list(c))
      BY <3>1, <3>2, <3>3
    <3>5. db[ks[idx]] \in Value \cup {Marker}
      <4>1. ks[idx] \in Key
        BY Zenon, <1>2, <3>4, KeyFacts DEF TypeInv, UpdInv
      <4>2. db[ks[idx]] # NULL
        BY Zenon, <3>3
      <4> QED BY Zenon, <4>1, <4>2 DEF DataTyped, Cells, TypeInv, UpdInv
    <3>6. new \in Value \cup {Marker}
      BY Zenon, <1>2, <3>1, <3>4, <3>5, UpdatedFacts, InUseFacts DEF TypeInv, UpdInv
    <3> HIDE DEF new, ks
    <3>7. Served(c)
      BY Zenon, <1>1, <1>4, <2>1, <3>1, ServedSuffices DEF Getting
    <3>8. pc'[c] = "g_exec"
          /\ job'[c] = [key |-> k, idx |-> idx, orig_val |-> db[ks[idx]], val |-> new]
      BY Zenon, <3>1 DEF Goto, Typed, TypeInv, UpdInv
    <3>9. vers_list(c)' = vers_list(c)
      BY Zenon, <2>1 DEF vers_list, Here, localVars
    <3>10. OwnCall(c)'
      <4>1. /\ job'[c].key = k /\ job'[c].idx = idx /\ job'[c].orig_val = db[ks[idx]]
            /\ job'[c].val = new
        <5>1. PICK i, o, v : i = idx /\ o = db[ks[idx]] /\ v = new
          BY Zenon
        <5>2. PICK r : r = job'[c] /\ r = [key |-> k, idx |-> i, orig_val |-> o, val |-> v]
          BY Zenon, <3>8, <5>1
        <5>3. r.key = k /\ r.idx = i /\ r.orig_val = o /\ r.val = v
          BY <5>2
        <5> QED BY Zenon, <5>1, <5>2, <5>3
      <4> QED BY ZenonT(40), <1>2, <3>4, <3>5, <3>6, <3>9, <4>1 DEF OwnCall
    <3> QED BY Zenon, <3>7, <3>10
  <2> QED BY Zenon, <2>2, <2>3
<1> QED BY Zenon, <1>6, <1>7, <1>8, <1>9

\* The position a get has read its value at.
LEMMA AtExec ==
    ASSUME TypeInv, NEW c \in Client, pc[c] = "g_exec"
    PROVE  /\ InUse(c) /\ job[c].key \in Suffix /\ job[c].idx \in 1..Len(vers_list(c))
           /\ orig_name(c) = <<vers_list(c)[job[c].idx], job[c].key>>
           /\ orig_name(c) \in Key /\ CurrKey(c, job[c].key) \in Key
           /\ Moved(c) \in Cells
<1>1. InUse(c) /\ job[c].key \in Suffix /\ job[c].idx \in 2..Len(vers_list(c)) /\ job[c].val \in Cells
  BY Zenon DEF ClientTyped, Serving, Getting, Cells, TypeInv, UpdInv
<1>2. job[c].idx \in 1..Len(vers_list(c)) /\ job[c].idx \in Nat \ {0}
  BY Zenon, <1>1, InUseFacts, Beyond DEF TypeInv, UpdInv
<1>3. /\ orig_name(c) = <<vers_list(c)[job[c].idx], job[c].key>> /\ orig_name(c) \in Key
      /\ CurrKey(c, job[c].key) \in Key
  BY Zenon, <1>1, <1>2, KeyFacts DEF orig_name, TypeInv, UpdInv
<1>4. Updated(c, job[c].key, db[orig_name(c)], job[c].idx) \in Cells
  <2>1. CASE db[orig_name(c)] = NULL
    BY Zenon, <1>2, <2>1, UpdatedNothing DEF Cells
  <2>2. CASE db[orig_name(c)] # NULL
    <3>1. db[orig_name(c)] \in Value \cup {Marker}
      BY Zenon, <1>3, <2>2 DEF DataTyped, Cells, TypeInv, UpdInv
    <3> QED BY Zenon, <1>1, <1>2, <3>1, UpdatedFacts, InUseFacts DEF Cells, TypeInv, UpdInv
  <2> QED BY Zenon, <2>1, <2>2
<1> QED BY Zenon, <1>1, <1>2, <1>3, <1>4 DEF Moved

\* The transaction of a get: it is lost, it raises, or it moves the value.
LEMMA GetExecServed ==
    ASSUME TypeInv, NEW c \in Client, get_exec(c)
    PROVE  Served(c) /\ OwnCall(c)'
<1> DEFINE k == job[c].key
           x == orig_name(c)
           y == CurrKey(c, k)
           m == Moved(c)
           S == {y} \cup Present({x})
<1>1. pc[c] = "g_exec" /\ pc[c] \in Serving /\ UNCHANGED <<listVars, program, localVars>>
  BY Zenon DEF get_exec, Serving, Getting
<1>2. k \in Suffix /\ x \in Key /\ y \in Key /\ m \in Cells
  BY Zenon, <1>1, AtExec
<1>3. NULL \in Scans /\ NULL \in Cells /\ "ready" \in Serving /\ "g_get" \in Serving
  BY Zenon DEF Scans, Cells, Serving, Getting
<1>4. CASE /\ Goto(c, "g_get") /\ job' = [job EXCEPT ![c] = [key |-> k]] /\ Unwatch(c)
           /\ UNCHANGED <<db, reply, scan>>
  <2>1. job'[c].key = k /\ OwnJob(c) /\ OwnScan(c)
    BY Zenon, <1>4 DEF Typed, OwnJob, OwnScan, TypeInv, UpdInv
  <2>2. KeyWatch(c, {}) /\ db' \in [Key -> Cells] /\ db' = db
    BY Zenon, <1>4, KeyWatchSteps DEF DataTyped, TypeInv, UpdInv
  <2> QED BY Zenon, <1>1, <1>2, <1>3, <1>4, <2>1, <2>2, ServedSuffices
<1>5. CASE Raise(c) /\ UNCHANGED db
  <2>1. Goto(c, "ready") /\ OwnJob(c) /\ OwnScan(c)
    BY Zenon, <1>3, <1>5 DEF Raise, Done, OwnJob, OwnScan
  <2>2. KeyWatch(c, {}) /\ db' \in [Key -> Cells] /\ db' = db
    BY Zenon, <1>5, KeyWatchSteps DEF DataTyped, Raise, TypeInv, UpdInv
  <2> QED BY Zenon, <1>1, <1>3, <2>1, <2>2, ServedSuffices
<1>6. CASE /\ Done(c) /\ db' = [db EXCEPT ![x] = NULL, ![y] = m] /\ UNCHANGED scan
           /\ watched' = [d \in Client |-> IF d = c THEN {} ELSE watched[d] \ S]
  <2>1. Goto(c, "ready") /\ OwnJob(c) /\ OwnScan(c)
    BY Zenon, <1>6 DEF Done, OwnJob, OwnScan
  <2>2. S \in SUBSET Key
    BY Zenon, <1>2 DEF Present
  <2>3. KeyWatch(c, S)
    <3> HIDE DEF S
    <3> QED BY Zenon, <1>6, <2>2, KeyWatchSteps DEF TypeInv, UpdInv
  <2>4. db' \in [Key -> Cells] /\ \A z \in Key : db'[z] # db[z] => z \in S
    <3> HIDE DEF x, y, m
    <3> QED BY Zenon, <1>2, <1>3, <1>6 DEF DataTyped, Present, TypeInv, UpdInv
  <2> HIDE DEF S
  <2> QED BY Zenon, <1>1, <1>3, <2>1, <2>3, <2>4, ServedSuffices
<1> QED BY Zenon, <1>4, <1>5, <1>6 DEF get_exec, Moved

\* set, delete, and the deletion of the old copies.
LEMMA WritesServed ==
    ASSUME TypeInv, NEW c \in Client,
           \/ set_del(c)
           \/ \E k \in Suffix : \/ delete(c, k)
                                \/ \E p \in Payload : set(c, k, p) \/ \E f : set_flagged(c, k, p, f)
    PROVE  Served(c) /\ OwnCall(c)'
<1>1. NULL \in Cells /\ "ready" \in Serving /\ "s_del" \in Serving
  BY Zenon DEF Cells, Serving
<1>2. \A ks \in SUBSET Key : /\ Without(db, ks) \in [Key -> Cells] /\ Present(ks) \subseteq Key
                             /\ \A y \in Key : Without(db, ks)[y] # db[y] => y \in Present(ks)
  BY Zenon, <1>1 DEF Without, Present, DataTyped, TypeInv, UpdInv
<1>3. CASE set_del(c)
  <2> DEFINE S == Present(OldKeys(c, job[c].key))
  <2>1. pc[c] \in Serving /\ InUse(c) /\ job[c].key \in Suffix
    BY Zenon, <1>1, <1>3 DEF set_del, ClientTyped, TypeInv, UpdInv
  <2>2. OldKeys(c, job[c].key) \in SUBSET Key
    BY Zenon, <2>1, KeyFacts DEF TypeInv, UpdInv
  <2>3. Goto(c, "ready") /\ OwnJob(c) /\ OwnScan(c) /\ UNCHANGED <<listVars, program, localVars>>
    BY Zenon, <1>3 DEF set_del, Done, OwnJob, OwnScan
  <2>4. KeyWatch(c, S)
    BY Zenon, <1>2, <1>3, <2>2, KeyWatchSteps DEF set_del, TypeInv, UpdInv
  <2>5. db' \in [Key -> Cells] /\ \A y \in Key : db'[y] # db[y] => y \in S
    BY Zenon, <1>2, <1>3, <2>2 DEF set_del
  <2> HIDE DEF S
  <2> QED BY Zenon, <1>1, <2>1, <2>3, <2>4, <2>5, ServedSuffices
<1>4. ASSUME NEW k \in Suffix, delete(c, k) PROVE Served(c) /\ OwnCall(c)'
  <2> DEFINE S == Present(Elements(all_potential_keys(c, k)))
  <2>1. pc[c] \in Serving /\ InUse(c)
    BY Zenon, <1>1, <1>4 DEF delete, ClientTyped, TypeInv, UpdInv
  <2>2. Elements(all_potential_keys(c, k)) \in SUBSET Key
    BY Zenon, <2>1, KeyFacts DEF TypeInv, UpdInv
  <2>3. Goto(c, "ready") /\ OwnJob(c) /\ OwnScan(c) /\ UNCHANGED <<listVars, program, localVars>>
    BY Zenon, <1>4 DEF delete, OwnJob, OwnScan
  <2>4. KeyWatch(c, S)
    BY Zenon, <1>2, <1>4, <2>2, KeyWatchSteps DEF delete, TypeInv, UpdInv
  <2>5. db' \in [Key -> Cells] /\ \A y \in Key : db'[y] # db[y] => y \in S
    BY Zenon, <1>2, <1>4, <2>2 DEF delete
  <2> HIDE DEF S
  <2> QED BY Zenon, <1>1, <2>1, <2>3, <2>4, <2>5, ServedSuffices
<1>5. ASSUME NEW k \in Suffix, NEW p \in Payload, NEW S \in SUBSET {CurrKey(c, k)}, Touch(S),
             pc[c] = "ready", UNCHANGED <<listVars, program, localVars, scan>>,
             \/ Goto(c, "ready") /\ UNCHANGED job
             \/ Goto(c, "s_del") /\ job' = [job EXCEPT ![c] = [key |-> k]],
             db' = db \/ (db' = [db EXCEPT ![CurrKey(c, k)] = Fresh(c, p)] /\ CurrKey(c, k) \in S)
      PROVE  Served(c) /\ OwnCall(c)'
  <2>1. pc[c] \in Serving /\ InUse(c) /\ program[c] \in Ver
    BY Zenon, <1>1, <1>5 DEF ClientTyped, TypeInv, UpdInv
  <2>2. CurrKey(c, k) \in Key /\ Fresh(c, p) \in Cells
    BY Zenon, <2>1, KeyFacts DEF Fresh, Cells, Value, TypeInv, UpdInv
  <2>3. OwnJob(c) /\ OwnScan(c)
    BY Zenon, <1>5 DEF OwnJob, OwnScan
  <2>4. KeyWatch(c, S)
    BY Zenon, <1>5, <2>2, KeyWatchSteps DEF TypeInv, UpdInv
  <2>5. db' \in [Key -> Cells] /\ \A y \in Key : db'[y] # db[y] => y \in S
    BY Zenon, <1>5, <2>2 DEF DataTyped, TypeInv, UpdInv
  <2>6. CASE Goto(c, "ready")
    BY Zenon, <1>1, <1>5, <2>1, <2>3, <2>4, <2>5, <2>6, ServedSuffices
  <2>7. CASE Goto(c, "s_del") /\ job' = [job EXCEPT ![c] = [key |-> k]]
    <3>1. job'[c].key \in Suffix
      BY Zenon, <2>7 DEF Typed, TypeInv, UpdInv
    <3> QED BY Zenon, <1>1, <1>5, <2>1, <2>3, <2>4, <2>5, <2>7, <3>1, ServedSuffices
  <2> QED BY Zenon, <1>5, <2>6, <2>7
<1>6. ASSUME NEW k \in Suffix, NEW p \in Payload, set(c, k, p) PROVE Served(c) /\ OwnCall(c)'
  <2>1. pc[c] = "ready" /\ Touch({CurrKey(c, k)}) /\ UNCHANGED <<listVars, program, localVars, scan>>
    BY Zenon, <1>6 DEF set
  <2>2. \/ Goto(c, "ready") /\ UNCHANGED job
        \/ Goto(c, "s_del") /\ job' = [job EXCEPT ![c] = [key |-> k]]
    BY Zenon, <1>6 DEF set
  <2>3. db' = [db EXCEPT ![CurrKey(c, k)] = Fresh(c, p)]
    BY Zenon, <1>6 DEF set
  <2>4. {CurrKey(c, k)} \in SUBSET {CurrKey(c, k)} /\ CurrKey(c, k) \in {CurrKey(c, k)}
    BY Zenon
  <2> QED BY Zenon, <1>5, <2>1, <2>2, <2>3, <2>4
<1>7. ASSUME NEW k \in Suffix, NEW p \in Payload, NEW f, set_flagged(c, k, p, f)
      PROVE  Served(c) /\ OwnCall(c)'
  <2> DEFINE done == (db[CurrKey(c, k)] = NULL) = (f = "setnx")
             S == IF done THEN {CurrKey(c, k)} ELSE {}
  <2>1. pc[c] = "ready" /\ Touch(S) /\ UNCHANGED <<listVars, program, localVars, scan>>
    BY Zenon, <1>7 DEF set_flagged
  <2>2. \/ Goto(c, "ready") /\ UNCHANGED job
        \/ Goto(c, "s_del") /\ job' = [job EXCEPT ![c] = [key |-> k]]
    BY Zenon, <1>7 DEF set_flagged
  <2>3. db' = IF done THEN [db EXCEPT ![CurrKey(c, k)] = Fresh(c, p)] ELSE db
    BY Zenon, <1>7 DEF set_flagged
  <2> HIDE DEF done
  <2>4. S \in SUBSET {CurrKey(c, k)} /\ (done => CurrKey(c, k) \in S)
    BY Zenon
  <2> HIDE DEF S
  <2>5. db' = db \/ (db' = [db EXCEPT ![CurrKey(c, k)] = Fresh(c, p)] /\ CurrKey(c, k) \in S)
    BY Zenon, <2>3, <2>4
  <2> QED BY Zenon, <1>5, <2>1, <2>2, <2>4, <2>5
<1> QED BY Zenon, <1>3, <1>4, <1>6, <1>7

\* The scan of do_upd_all_now.
LEMMA ScanServed ==
    ASSUME TypeInv, NEW c \in Client,
           scan_call(c) \/ (\E x \in Key : scan_get(c, x)) \/ scan_return(c)
    PROVE  Served(c) /\ OwnCall(c)'
<1>1. pc[c] = "ready" /\ "ready" \in Serving /\ scan[c] # NULL
  BY Zenon DEF scan_call, scan_get, scan_return, Scanned, Scanning, Serving
<1>2. scan[c] \in [unseen : SUBSET Key, batch : SUBSET Key] /\ NULL \in Scans
  BY Zenon, <1>1 DEF DataTyped, Scans, TypeInv, UpdInv
<1>3. ASSUME OwnScan(c), Goto(c, "ready"), UNCHANGED <<listVars, job, program, localVars, watched, db>>
      PROVE  Served(c) /\ OwnCall(c)'
  <2>1. OwnJob(c) /\ KeyWatch(c, {}) /\ db' \in [Key -> Cells] /\ db' = db
    BY Zenon, <1>3, KeyWatchSteps DEF OwnJob, DataTyped, TypeInv, UpdInv
  <2> QED BY Zenon, <1>1, <1>3, <2>1, ServedSuffices
<1>4. CASE scan_call(c)
  <2>1. PICK some \in SUBSET scan[c].unseen :
          scan' = [scan EXCEPT ![c] = [unseen |-> scan[c].unseen \ some, batch |-> Outdated(c, some)]]
    BY Zenon, <1>4 DEF scan_call, scan_next
  <2>2. [unseen |-> scan[c].unseen \ some, batch |-> Outdated(c, some)] \in Scans
    BY Zenon, <1>2 DEF Outdated, Present, Scans
  <2>3. OwnScan(c)
    BY Zenon, <2>1, <2>2 DEF OwnScan
  <2> QED BY Zenon, <1>3, <1>4, <2>3 DEF scan_call
<1>5. ASSUME NEW x \in Key, scan_get(c, x) PROVE Served(c) /\ OwnCall(c)'
  <2>1. CASE get(c, x[2]) /\ scan' = [scan EXCEPT ![c].batch = @ \ {x}]
    <3>1. x[2] \in Suffix
      BY Zenon DEF Key
    <3> DEFINE s == [scan[c] EXCEPT !.batch = @ \ {x}]
    <3>2. s \in Scans
      BY Zenon, <1>2 DEF Scans
    <3>3. OwnScan(c)
      BY Zenon, <2>1, <3>2 DEF OwnScan
    <3> QED BY Zenon, <2>1, <3>1, <3>3, GetServed
  <2>2. CASE /\ Goto(c, "ready") /\ scan' = [scan EXCEPT ![c] = NULL]
             /\ UNCHANGED <<listVars, job, program, localVars, watched, db, reply>>
    <3>1. OwnScan(c)
      BY Zenon, <1>2, <2>2 DEF OwnScan
    <3> QED BY Zenon, <1>3, <2>2, <3>1
  <2> QED BY Zenon, <1>5, <2>1, <2>2 DEF scan_get
<1>6. CASE scan_return(c)
  <2>1. OwnScan(c)
    BY Zenon, <1>2, <1>6 DEF scan_return, OwnScan
  <2> QED BY Zenon, <1>3, <1>6, <2>1 DEF scan_return
<1> QED BY Zenon, <1>4, <1>5, <1>6

\* Every step of every call.
LEMMA DataServed ==
    ASSUME TypeInv, NEW c \in Client, Continue(c) \/ Call(c)
    PROVE  Served(c) /\ OwnCall(c)'
<1>1. ASSUME NEW k \in Suffix, get(c, k), UNCHANGED scan PROVE Served(c) /\ OwnCall(c)'
  BY Zenon, <1>1, GetServed DEF OwnScan
<1>2. pc[c] = "g_get" => job[c].key \in Suffix
  BY Zenon DEF TypeInv, ClientTyped, Serving, Getting
<1>3. CASE Continue(c)
  BY Zenon, <1>1, <1>2, <1>3, ScanServed, GetStepsServed, GetExecServed, WritesServed DEF Continue
<1>4. CASE Call(c)
  BY Zenon, <1>1, <1>4, WritesServed DEF Call
<1> QED BY Zenon, <1>3, <1>4

\* A step of connecting, updating or stopping leaves the data alone.
LEMMA VersionStepFacts ==
    ASSUME TypeInv, NEW c \in Client, VersionStep(c) \/ UpdateAll(c) \/ stop(c)
    PROVE  /\ ConnectStep(c) \/ UpdateStep(c) \/ (Reset(c) /\ UNCHANGED listVars)
           /\ OwnScan(c) /\ UNCHANGED <<db, reply>>
<1>1. NULL \in Scans /\ [unseen |-> Key, batch |-> {}] \in Scans
  BY Zenon DEF Scans
<1>2. CASE VersionStep(c)
  BY Zenon, <1>1, <1>2 DEF VersionStep, OwnScan
<1>3. CASE UpdateAll(c)
  <2>1. UpdateStep(c)
    BY Zenon, <1>3 DEF UpdateAll, do_upd_all_now, UpdateStep
  <2> QED BY Zenon, <1>1, <1>3, <2>1 DEF UpdateAll, do_upd_all_now, OwnScan
<1>4. CASE stop(c)
  BY Zenon, <1>1, <1>4 DEF stop, exit, OwnScan
<1> QED BY Zenon, <1>2, <1>3, <1>4

\* Every step keeps the types, and is a step of one client.
LEMMA LurStepTypes ==
    ASSUME TypeInv, NEW c \in Client, VersionStep(c) \/ UpdateAll(c) \/ stop(c) \/ Continue(c) \/ Call(c)
    PROVE  TypeInv' /\ Rest(c)
<1>1. UpdInv'
  <2>1. UpdInv /\ LurNext
    BY Zenon DEF TypeInv, LurNext
  <2> QED BY Zenon, <2>1, LurStepKeeps
<1>2. VersionTyped' /\ DataTyped' /\ Rest(c) /\ ClientTyped(c)'
  <2>1. CASE VersionStep(c) \/ UpdateAll(c) \/ stop(c)
    <3>1. /\ ConnectStep(c) \/ UpdateStep(c) \/ (Reset(c) /\ UNCHANGED listVars)
          /\ OwnScan(c) /\ UNCHANGED <<db, reply>>
      BY Zenon, <2>1, VersionStepFacts
    <3>2. DataTyped'
      BY Zenon, <3>1 DEF TypeInv, DataTyped, OwnScan
    <3> QED BY Zenon, <1>1, <3>1, <3>2, ConnectTypes, UpdateTypes, ResetTypes
  <2>2. CASE Continue(c) \/ Call(c)
    BY Zenon, <2>2, DataServed, ServedTypes
  <2> QED BY Zenon, <2>1, <2>2
<1>3. \A d \in Client \ {c} : ClientTyped(d)'
  BY Zenon, <1>2, OthersTyped
<1> QED BY Zenon, <1>1, <1>2, <1>3 DEF TypeInv

\* Everything starts empty.
LEMMA TypeInvInit == LurInit => TypeInv
<1> SUFFICES ASSUME LurInit PROVE TypeInv
  BY Zenon
<1>1. VersionTyped /\ DataTyped
  BY Zenon DEF LurInit, VersionsInit, VersionTyped, DataTyped, Cells, Scans
<1>2. \A c \in Client : ClientTyped(c)
  BY Zenon DEF LurInit, VersionsInit, ClientTyped, Serving, Getting
<1> QED BY Zenon, <1>1, <1>2, UpdInvInit DEF TypeInv

\* Steps, and steps that change nothing.
LEMMA TypeInvStep == TypeInv /\ [LurNext]_lurVars => TypeInv'
<1> SUFFICES ASSUME TypeInv, [LurNext]_lurVars PROVE TypeInv'
  BY Zenon
<1>1. CASE LurNext
  BY Zenon, <1>1, LurStepTypes DEF LurNext
<1>2. CASE UNCHANGED lurVars
  <2>1. UpdInv'
    BY Zenon, LurStepKeeps DEF TypeInv
  <2>2. VersionTyped' /\ DataTyped'
    BY Zenon, <1>2 DEF TypeInv, VersionTyped, DataTyped, lurVars, versionVars, listVars, localVars, dataVars
  <2>3. \A c \in Client : ClientTyped(c)'
    BY Zenon, <1>2 DEF TypeInv, ClientTyped, InUse, vers_list, Here, lurVars, versionVars, localVars
  <2> QED BY Zenon, <2>1, <2>2, <2>3 DEF TypeInv
<1> QED BY Zenon, <1>1, <1>2

\* What a client relies on holds always, also after a crash (exit) and while
\* others work.
THEOREM TypeInvHolds == LurSpec => []TypeInv
BY TypeInvInit, TypeInvStep, PTL DEF LurSpec

\* Types are kept whoever connects, updates, renames and crashes: in particular
\* every get that writes has a position in a list the client still has, and
\* what is watched are keys with their versions (get, do_upd_all_now).
THEOREM LurTypeCorrect == LurSpec => []LurTypeOK
<1>1. TypeInv => LurTypeOK
  BY Zenon DEF TypeInv, UpdInv, Typed, VersionTyped, DataTyped, LurTypeOK, Things, Cells, Scans
<1> QED BY <1>1, TypeInvHolds, PTL
=============================================================================
