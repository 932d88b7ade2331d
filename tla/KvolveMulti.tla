----------------------------- MODULE KvolveMulti ----------------------------
(***************************************************************************)
(* KVolve under MULTI, EXEC and WATCH (multi.c).  Redis calls              *)
(* kvolve_process_command when a command arrives, which for a command      *)
(* inside MULTI is when it is queued; EXEC runs the queued commands        *)
(* without any hook.  What a hook changes may abort the transactions of    *)
(* the clients that watch the key, its own client included.                *)
(***************************************************************************)
EXTENDS KvolveData

CONSTANTS
    Queued,   \* commands the programs put into transactions
    MaxQueue, \* and how many are queued at a time, for all clients together
    Watching, \* the clients that use WATCH
    Careful   \* whether programs avoid what does not work inside MULTI

ASSUME MultiAssumption == MaxQueue \in Nat /\ Careful \in BOOLEAN

VARIABLES
    flags,       \* of REDIS_MULTI, REDIS_DIRTY_CAS, REDIS_DIRTY_EXEC
    mstate,      \* the queued requests
    watched_keys \* the keys watched, with the content each had at WATCH

multiVars == <<flags, mstate, watched_keys>>
allVars == <<kvolveVars, multiVars>>

\* What is stored for an item, under any of its names, but for the schema.
ContentOf(k) == Stored(ItemOf(k))

\* Mutants: clients in the middle of MULTI are not told; all clients that watch
\* anything are told.
dirtied_outside(s) ==
    [d \in Client |-> IF DOMAIN watched_keys[d] \cap s.touched = {} \/ "MULTI" \in flags[d]
                      THEN flags[d] ELSE flags[d] \cup {"DIRTY_CAS"}]
dirtied_any(s) ==
    [d \in Client |-> IF watched_keys[d] = << >> THEN flags[d] ELSE flags[d] \cup {"DIRTY_CAS"}]
\* touchWatchedKey, for every key given to signalModifiedKey: the client that
\* gives the command is not spared.
Dirtied(s) ==
    [d \in Client |-> IF DOMAIN watched_keys[d] \cap s.touched = {} THEN flags[d]
                      ELSE flags[d] \cup {"DIRTY_CAS"}]
touchWatchedKey(s) == flags' = Dirtied(s)

InMulti(c) == "MULTI" \in flags[c]

discardTransaction(c, now) ==
    /\ flags' = [now EXCEPT ![c] = {}]
    /\ mstate' = [mstate EXCEPT ![c] = << >>]
    /\ watched_keys' = [watched_keys EXCEPT ![c] = << >>]

\* A command that no hook is for.
Settles == Becomes(Settled) /\ UNCHANGED reply

-----------------------------------------------------------------------------
(* Commands, at once and queued *)

Removes == {"del", "mdel", "srem", "zrem", "lpop", "rpop", "hdel"}
\* Careful programs do not queue SET, and empty no container.
Works(c, r) ==
    Careful => /\ InMulti(c) => r.cmd \notin {"set", "mset"}
               /\ r.cmd \in Removes => TypeOf(r.keys[1]) = "string"

Command(c, r) ==
    /\ ~InMulti(c) /\ Works(c, r)
    /\ processCommand(r)
    /\ touchWatchedKey(Executed(r))
    /\ UNCHANGED <<mstate, watched_keys>>

queueMultiCommand(c, r) ==
    /\ InMulti(c) /\ Works(c, r)
    /\ r.cmd \in Queued
    /\ Cardinality({p \in Client \X (1..MaxQueue) : p[2] <= Len(mstate[p[1]])}) < MaxQueue
    /\ Becomes(Hooked(r))
    /\ touchWatchedKey(Hooked(r))
    /\ mstate' = [mstate EXCEPT ![c] = Append(@, Tagged(r))]
    /\ UNCHANGED <<reply, watched_keys>>

\* The command is turned down, at once or instead of being queued.
flagTransaction(c, r) ==
    /\ r.cmd \in Rejectable /\ Works(c, r)
    /\ Becomes(Hooked(r))
    /\ flags' = [Dirtied(Hooked(r)) EXCEPT ![c] = @ \cup IF InMulti(c) THEN {"DIRTY_EXEC"} ELSE {}]
    /\ IF InMulti(c) THEN UNCHANGED reply ELSE Answer(<<r>>, FALSE, << >>)
    /\ UNCHANGED <<mstate, watched_keys>>

multiCommand(c) ==
    /\ ~InMulti(c)
    /\ Settles
    /\ flags' = [flags EXCEPT ![c] = @ \cup {"MULTI"}]
    /\ UNCHANGED <<mstate, watched_keys>>

discardCommand(c) == InMulti(c) /\ Settles /\ discardTransaction(c, flags)

ExecAccepts(c) == flags[c] = {"MULTI"}

\* The transaction is executed as a whole, or not at all.
execCommand(c) ==
    LET rs == mstate[c]
        after == calls(Settled, rs)
    IN  /\ InMulti(c)
        /\ \/ /\ ExecAccepts(c)
              /\ \A n \in DOMAIN rs : Bounded(after[n - 1], rs[n])
              /\ Becomes(after[Len(rs)])
              /\ Answer(rs, TRUE, [n \in DOMAIN rs |-> after[n].res])
              /\ discardTransaction(c, Dirtied(after[Len(rs)]))
           \/ /\ ~ExecAccepts(c)
              /\ Becomes(Settled)
              /\ Answer(rs, FALSE, << >>)
              /\ discardTransaction(c, flags)

\* A key that is watched already stays as it is.
watchCommand(c, k) ==
    /\ ~InMulti(c) /\ c \in Watching /\ k \notin DOMAIN watched_keys[c]
    /\ Settles
    /\ watched_keys' = [watched_keys EXCEPT ![c] = [l \in DOMAIN @ \cup {k} |->
                          IF l = k THEN ContentOf(k) ELSE @[l]]]
    /\ UNCHANGED <<flags, mstate>>

unwatchCommand(c) ==
    /\ ~InMulti(c) /\ watched_keys[c] # << >>
    /\ Settles
    /\ watched_keys' = [watched_keys EXCEPT ![c] = << >>]
    /\ flags' = [flags EXCEPT ![c] = @ \ {"DIRTY_CAS"}]
    /\ UNCHANGED mstate

TransactionStep(c) ==
    \/ OneKey(c, LAMBDA r : Command(c, r) \/ queueMultiCommand(c, r) \/ flagTransaction(c, r))
    \/ conn[c] = "open" /\ (multiCommand(c) \/ discardCommand(c) \/ execCommand(c) \/ unwatchCommand(c))
    \/ \E k \in {key \in Key : Uses(c, key) /\ TypeOf(key) # "none"} : watchCommand(c, k)
    \/ "keys" \in Commands /\ ~InMulti(c) /\ \E n \in NS :
         keys(c, n) /\ touchWatchedKey(Listed(n)) /\ UNCHANGED <<mstate, watched_keys>>

\* freeClient: a connection that ends takes its transaction with it.  Updates
\* are loaded outside MULTI by programs that watch nothing.
Ended == {d \in Client : conn'[d] = "closed"}
RegistryChange(c) ==
    /\ \/ ConnectionStep(c)
       \/ flags[c] = {} /\ watched_keys[c] = << >> /\ RegistryStep(c)
    /\ flags' = [d \in Client |-> IF d \in Ended THEN {} ELSE flags[d]]
    /\ mstate' = [d \in Client |-> IF d \in Ended THEN << >> ELSE mstate[d]]
    /\ watched_keys' = [d \in Client |-> IF d \in Ended THEN << >> ELSE watched_keys[d]]

MultiInit ==
    /\ KvolveInit
    /\ flags = [c \in Client |-> {}]
    /\ mstate = [c \in Client |-> << >>]
    /\ watched_keys = [c \in Client |-> << >>]

MultiNext ==
    \E c \in Client : RegistryChange(c) \/ (TransactionStep(c) /\ UNCHANGED registryVars)

MultiSpec == MultiInit /\ [][MultiNext]_allVars

-----------------------------------------------------------------------------
(* Properties *)

\* A transaction that EXEC would accept still finds the content its client
\* watched: whatever hooks and commands of others, renames, lazy updates and
\* deletions of old copies have done, a change of a watched item is noticed.
WatchGuards ==
    \A c \in Client : "DIRTY_CAS" \notin flags[c] =>
        \A k \in DOMAIN watched_keys[c] : watched_keys[c][k] = ContentOf(k)

\* A client whose own hook aborts its transaction, at the moment it queues a
\* command, has by it moved a watched key to its name or brought it up to date:
\* this happens at most twice to a key when the client retries, unless there is
\* a further update.
Behind(k) ==
    IF db[k] = NULL THEN 2
    ELSE IF db[k].enc = "int" \/ db[k].vers = Latest(kvolve_version_hash_lookup(k)) THEN 0 ELSE 1
AbortsMakeProgress ==
    [][\A c \in Client :
          mstate'[c] # mstate[c] /\ "DIRTY_CAS" \in flags'[c] \ flags[c]
          => \E k \in DOMAIN watched_keys[c] : Behind(k)' < Behind(k)]_allVars

-----------------------------------------------------------------------------
(* What comments in the code say and the code does not do *)

\* "Since there are no (nx,xx) flags, the set will occur" (kvolve_set, before
\* it deletes the copy under the old name): an item that had a value has none
\* only after a command that removes it has been executed.
SetsOccur ==
    [][\A i \in Item : Stored(i) # {} /\ Stored(i)' = {} =>
          reply'.ok /\ \E n \in DOMAIN reply'.reqs : reply'.reqs[n].cmd \in Removes]_allVars
=============================================================================
