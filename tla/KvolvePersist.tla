---------------------------- MODULE KvolvePersist ---------------------------
(***************************************************************************)
(* KVolve and the RDB file (rdb.c): the version tags are saved with the    *)
(* objects, one byte each; the registry and tmp_store are in memory only.  *)
(* The server saves at any time, by a forked child or by itself, crashes   *)
(* at any time, and starts again from the file.                            *)
(*                                                                         *)
(* With a dump, the model keeps what the properties compare it with:       *)
(* whose tags were still in tmp_store, the contents the programs would     *)
(* have read, and the versions of the namespaces and their links.          *)
(***************************************************************************)
EXTENDS KvolveData

CONSTANT MaxRestarts \* the server starts again at most so often

ASSUME PersistAssumption == MaxRestarts \in Nat

VARIABLES
    rdb_file,  \* the dump in dump.rdb
    rdb_child, \* the dump the saving child writes, or NULL: rdb_child_pid is -1
    start,     \* the dump the server has started from
    fresh,     \* whether no command has used the data since
    restarts

persistVars == <<rdb_file, rdb_child, start, fresh, restarts>>
serverVars == <<kvolveVars, persistVars>>

-----------------------------------------------------------------------------
(* The file *)

\* Mutant: seven bits are kept of the version.
save_pair_seven_bits(o) == IF o = NULL THEN NULL ELSE [o EXCEPT !.vers = @ % 128]
\* rdbSaveType writes one byte.
rdbSaveKeyValuePair(o) == IF o = NULL THEN NULL ELSE [o EXCEPT !.vers = @ % 256]

\* Mutant: the version is read and not put into the object.
load_object_untagged(o) == IF o = NULL THEN NULL ELSE [o EXCEPT !.vers = 0]
\* A sorted set is loaded as a ziplist if it is small enough.
rdbLoadObject(o) ==
    IF o = NULL THEN NULL
    ELSE [o EXCEPT !.enc = IF o.type = "zset" THEN EncodingOf("ziplist", o.ptr) ELSE @]

\* The contents of the items, without their schemas.
Contents == [i \in Item |-> Converted(StoreNow[i], Garbled)]

\* Whether the namespaces have again the versions the dump was taken at, and
\* follow each other as they did.
Replayed ==
    \A n \in NS : start.versions[n] # << >> =>
        /\ Len(start.versions[n]) <= Len(versions[n])
        /\ \A i \in 1..Len(start.versions[n]) : versions[n][i] = start.versions[n][i]
        /\ prev_ns[n] = start.prev_ns[n]

NameOf(k) == k[Len(k)]
rdbSave(s) ==
    [db |-> [k \in Key |-> rdbSaveKeyValuePair(s.db[k])],
     late |-> start.late \cup {NameOf(k) : k \in {l \in Key : s.db[l] # NULL /\ s.tmp[l] # NULL}},
     contents |-> IF Replayed THEN Contents ELSE start.contents,
     versions |-> IF Replayed THEN versions ELSE start.versions,
     prev_ns |-> IF Replayed THEN prev_ns ELSE start.prev_ns]

NoFile ==
    [db |-> [k \in Key |-> NULL], late |-> {}, contents |-> [i \in Item |-> NULL],
     versions |-> [n \in NS |-> << >>], prev_ns |-> [n \in NS |-> NULL]]

\* Nothing of the registry is left, and ids are given out from 1 again.
rdbLoad(f) ==
    /\ db' = [k \in Key |-> rdbLoadObject(f.db[k])]
    /\ tmp_store' = [k \in Key |-> NULL]
    /\ versions' = [n \in NS |-> << >>] /\ info' = [n \in NS |-> << >>]
    /\ prev_ns' = [n \in NS |-> NULL] /\ next_ns' = [n \in NS |-> NULL]
    /\ is' = [n \in NS |-> {}]
    /\ conn' = [c \in Client |-> "new"]
    /\ declared' = [c \in Client |-> [n \in NS |-> NULL]]
    /\ reply' = NULL /\ UNCHANGED type
    /\ start' = f /\ fresh' = TRUE
    /\ rdb_child' = NULL
    /\ restarts' = restarts + 1

-----------------------------------------------------------------------------
(* Saving.  serverCron runs between commands, without a hook before it.    *)

rdbSaveBackground(s) ==
    /\ rdb_child = NULL
    /\ rdb_child' = rdbSave(s)
    /\ UNCHANGED <<rdb_file, start, fresh, restarts>>

serverCron == rdbSaveBackground(Server) /\ UNCHANGED kvolveVars

Commanded == Becomes(Settled) /\ UNCHANGED <<registryVars, reply>>
bgsaveCommand == rdbSaveBackground(Settled) /\ Commanded
saveCommand ==
    /\ rdb_child = NULL
    /\ rdb_file' = rdbSave(Settled)
    /\ Commanded
    /\ UNCHANGED <<rdb_child, start, fresh, restarts>>

\* The child has renamed its file, or has failed and removed it.
backgroundSaveDoneHandler ==
    /\ rdb_child # NULL
    /\ rdb_child' = NULL
    /\ rdb_file' \in {rdb_child, rdb_file}
    /\ UNCHANGED <<kvolveVars, start, fresh, restarts>>

\* SHUTDOWN is a command, SIGTERM is not.  The saving child is killed.
prepareForShutdown(s) == rdb_file' = rdbSave(s) /\ rdbLoad(rdbSave(s))

\* The server and its child are gone; the file is as it was.
crash == rdbLoad(rdb_file) /\ UNCHANGED rdb_file

SaveStep ==
    /\ restarts < MaxRestarts
    /\ \/ serverCron \/ backgroundSaveDoneHandler \/ crash
       \/ prepareForShutdown(Server)
       \/ /\ \E c \in Client : conn[c] = "open"
          /\ bgsaveCommand \/ saveCommand \/ prepareForShutdown(Settled)

-----------------------------------------------------------------------------
(* After a start, the namespaces are declared and the updates loaded again *)
(* before programs use the data.                                           *)

PersistInit ==
    /\ KvolveInit
    /\ rdb_file = NoFile /\ rdb_child = NULL /\ start = NoFile
    /\ fresh = TRUE /\ restarts = 0

PersistNext ==
    \/ SaveStep
    \/ \E c \in Client :
         \/ ConnectionStep(c) /\ UNCHANGED persistVars
         \/ RegistryStep(c) /\ UNCHANGED persistVars
         \/ /\ Replayed /\ DataStep(c) /\ fresh' = FALSE
            /\ UNCHANGED <<registryVars, rdb_file, rdb_child, start, restarts>>

PersistSpec == PersistInit /\ [][PersistNext]_serverVars

-----------------------------------------------------------------------------
(* Properties *)

TellsTruth(o) == \A b \in DataIn(o) : IsNumber(b) \/ b.conf = o.vers

\* Whenever the file is written, each object is saved with the version of its
\* data, but for the containers that the last command before the save created:
\* their tags would have been set by the next command.  They keep the wrong tag
\* through further restarts.
SavedTagsTruthful ==
    \A f \in {rdb_file, rdb_child} \ {NULL} : \A k \in Key :
        f.db[k] # NULL => NameOf(k) \in f.late \/ TellsTruth(f.db[k])

\* A server that has started from a dump taken in the middle of lazy renames
\* and updates, and whose updates have been loaded again, shows the programs
\* what they would have read when the dump was taken, in the schema of now.
\* A container saved without its tag is the exception.  (The contents of a dump
\* are kept with scores as "%f" prints them: this is about scores of at most
\* six decimals.)
RestartRestores ==
    fresh /\ Replayed =>
        \A i \in {j \in Item : IsRoot(j[1]) /\ j[2] \notin start.late} :
            StoreNow[i] = Converted(start.contents[i], SchemaNow[i[1]])

\* Also after a restart, and while updates are loaded again, tags tell the
\* truth about all data but that of a container saved without its tag.
RestartTagsTruthful ==
    \A k \in Used : NameOf(k) \in start.late \/ TellsTruth(Settled.db[k])
=============================================================================
