# Lazy schema updates, specified in TLA+

The repository holds two systems that do the same thing in two places: they
change the schema of the data in a Redis server without stopping to rewrite
it. An update is loaded, and each key is renamed and each value rewritten when
a program next touches it.

* **KVolve** is C code inside Redis 2.8.17 (`redis-2.8.17/src/kvolve*.c`). A
  hook runs before each command. Redis runs one command at a time.
* **LazyUpdateRedis** (LUR) is a Python client library
  (`lazyupdredis/lazyupdredis.py`). Its clients share nothing but a Redis
  server, so every round trip can interleave with those of other clients.

Both promise the programs the same: that of `EagerStore.tla`, a store whose
updates happen all at once.

## Parts of the system

| part | state | operations | what is hard | what makes it correct |
|---|---|---|---|---|
| KVolve registry | `vers_list`: per namespace its versions, updates, links to the old and new name, ids of its clients | `client setname ns@v,...`; `client setname update/path`; connect, disconnect | several entries in one declaration; ids that outlive connections; renames over renames; who is disconnected by an update | histories stay parallel, shared and append-only; old names form no loop; at most one program goes on at an old version |
| KVolve strings | keyspace with a version tag per object | hooks of GET, SET, SETNX, DEL, INCR, KEYS, ... | values several versions behind; keys under old names; untagged values | tags tell the truth; one copy; nothing unreachable; lazy = eager |
| KVolve containers | tags of containers, `tmp_store` | `kvolve_update_all_*`, `kvolve_update_*_elem`, `kvolve_new_version`, `kvolve_prevcall_check` | the tag of a new container comes one command late; elements replaced one by one | every element at the container's version; lazy = eager |
| KVolve and MULTI | flags, queued commands, watched keys | MULTI, EXEC, DISCARD, WATCH, UNWATCH; the hook at queue time | the hook and its command are apart; hooks abort transactions, also their own | transactions = those on an eager store; WATCH still guards; retries get further |
| KVolve persistence | tags in the RDB file | SAVE, BGSAVE, save points, shutdown, crash, start | the registry is not saved; a save before a tag is set; one byte per tag | tags survive; after loading the updates again the data reads as before |
| Calls from update functions | `upd_fun_running` | `kvolve_upd_redis_call` | nested commands | hooks do not recurse |
| LUR versions | `UPDATE_VERSIONS_ns`, `UPDATE_DSL_STRINGS`, each client's copy, connection names | `__init__`, `do_upd`, `do_upd_all_now` | races at every round trip, crashes, killed clients | no version and no update file lost |
| LUR data | keys `ver\|ns:suffix` | `get`, `set`, `delete`, `setnx` | WATCH/EXEC races, markers for missing keys | shapes match versions; commits are fresh; linearizable |
| Update language | none | `json_patch_creator.py`, `decode.py`, `json_delta_diff.py` | text processing | - |

The registry decides what the hooks do with a key; the hooks never change the
registry. MULTI pulls hook and command apart, and a restart takes the registry
away from under the data, so both are composed with hooks and registry. In LUR
the version lists decide under which keys `get` and `set` look, and a client may
work with a copy of the list that is old.

## Modules

* `EagerStore` - the abstract specification: a store whose values all change
  schema when an update is loaded, and that executes requests, or transactions
  of requests, with the commands of Redis.
* `RedisCommands` - the Redis commands that KVolve puts its hooks before or calls
  itself, as operators from server to server: the keyspace, the keys given to
  `signalModifiedKey`, and the reply. Shared by the abstract and the detailed
  specifications. `RedisObjects` has what LUR needs of it: objects, NULL and requests.
* `KvolveRegistry` - the registry. `struct version_hash` is one function per
  field (`versions`, `info`, `prev_ns`, `next_ns`, `is`). A handler is one
  action: `kvolve_check_version`, and `kvolve_load_update`, split into
  `upd_spec_new_ns`, `upd_spec_same_ns` and `upd_spec_rejected`. `intsetRandom`
  of the kill loop is a choice. `declared` records what each program is written
  for.
* `KvolveTable` - the registry where updates are loaded by a program of the
  namespace, or from outside when no program of it is connected
  (`DocumentedUpdate`), and what its histories then look like (`TableInv`).
* `KvolveHooks` - the hooks, each an operator of the name of the C function from
  server to server. A piece of data has its content and the schema its bytes
  really have (`conf`); objects have the tag KVolve gives them: `conf` is what
  lets a property say that a tag lies. An update function turns the schema it was
  written for into its target and anything else into `Garbled`. The fields of a
  hash are pieces of data too: in some hashes the functions rename them
  (`Reshaped`), in others their name is the same in every schema. Scores are
  counted in units of 10^-7, one decimal more than the `"%f"` of
  `kvolve_update_zset_elem` prints (`Printed`). The four
  `kvolve_update_all_*` are one operator, `kvolve_update_all`, over the four ways
  to replace an element. Loops over keys, elements and updates due are recursive
  functions of the number of rounds (`Loop`) rather than folds: the prover can
  unroll them.
* `KvolveData` - registry and keyspace together. A command is one action, the hook
  followed by the Redis command (`processCommand`), or the hook alone when Redis
  turns the command down (`processCommand_rejects`).
* `KvolveEager` - the refinement mapping from `KvolveData` to `EagerStore`.
* `KvolveMulti` - extends `KvolveData` by transactions: a queued command is the hook now
  (`queueMultiCommand`) and the Redis command at `execCommand`.
* `KvolvePersist` - extends `KvolveData` by the RDB file, the saving child, crash
  and start. With each dump the model remembers what the programs would have
  read, and the registry at that time, for the properties and for `Replayed` only.
* `LurVersions` - connecting, `do_upd`, CLIENT SETNAME and CLIENT KILL. `pc` says
  which round trip a client is at. `watched[c]` holds what the client has
  WATCHed and nobody has changed since; comparing values would miss a change
  that was undone. A client may stop or crash at any step (`exit`).
* `LurData` - extends it by `get`, `set`, `set` with NX or XX, `delete`, and
  `do_upd_all_now`, whose SCAN passes the keyspace in any order and in portions of
  any size; what it computes between two round trips belongs to the first of them.
* `LurEager` - the refinement mapping from `LurData` to `EagerStore`.
* `KvolveRegistryProofs` - theorems about the registry alone and about `KvolveTable`.
* `KvolveStrings` - the invariants of strings under KVolve, and the terms in which the
  proofs about them are written. `LurInvariants` - the same for LUR.
* `KvolveHooksProofs` - lemmas about the hooks on strings; `KvolveDataProofs` - about
  the commands after their hooks; `KvolveMultiProofs` - about transactions;
  `KvolvePersistProofs` - about what is read, dumps and restarts; and
  `KvolveServerProofs` - the theorems about strings they all lead to.
* `LurDataProofs` - theorems about the version lists of LUR, alone and while there is
  data, and about types; `LurProgramsProofs` - about the transaction of `get`, the version
  a program is written for, the shapes of values and `do_upd_all_now`.
* `MCKvolveRegistry`, `MCKvolveData`, `MCKvolveMulti`, `MCKvolvePersist`, `MCLur` -
  instances for TLC.

## What the environment is assumed to do

* `KvolveRegistry` assumes nothing: any client loads any update.
* `KvolveData` restricts updates (`DocumentedUpdate`): they are loaded by a program of
  the namespace, or from outside when no program of the namespace is connected,
  from the version in use, to a version the history does not have. `kvolve_upd.h:118`
  also allows updates from outside while programs are connected: run
  `registry_outside` shows that one of them then goes on at the old version, and the
  data it writes is not in the schema of its namespace. Programs use keys of namespaces
  they declared, keys of one namespace in one command, each key for one type, and
  write values in the schema they are written for. There is one database.
* Numbers are put into strings and sets only. `kvolve_update_all_zset` reads members as
  strings; `kvolve_update_all_list` and `kvolve_update_all_hash` free every element
  they have read (`kvolve_internal.c:837-838, 884`), which for a number is a shared
  object of the server (`object.c:58-60`).
* Sorted sets stay smaller than `zset_max_ziplist_entries` (`Bounded`), so that they are
  ziplists, also while an update adds a new element before it removes the old one. A
  skiplist is never updated (`kvolve_internal.c:772`), and would hold elements of two
  schemas after the next ZADD: `TagsTruthful` and `UpdatesAreEager` hold for sorted sets
  for this reason only. The branch is in `kvolve_update_all`, and no run reaches it.
* `KvolveMulti`: an update is loaded, and a version declared, outside MULTI by a
  client that watches nothing. With `Careful`, programs do not queue SET and do not
  empty containers; run `multi_set` shows why the first matters. As to the second:
  if the hook of a queued HSET finds the hash and another client deletes it before
  EXEC, EXEC creates it without a tag, and `TagsTruthful` fails. `Watching` are the
  clients that use WATCH.
* `KvolvePersist`: after a start the namespaces are declared and the updates loaded
  again before programs use the data (`Replayed`), as the code requires, which
  saves nothing of the registry. A crash takes the saving child with it. There is
  no append-only file, and there are no transactions: an EXEC may create several
  containers whose tags are not yet set when a save point follows, a single command
  one.
* `LurVersions`: `Updaters` are the clients that load updates. With `Live` FALSE
  the other programs are stopped while an update is loaded and the first program
  of a namespace is up before the next starts; with `Live` TRUE anything
  interleaves. A program has one namespace and an update file one "for"
  statement. redis-py is not in the repository and is taken as follows:
  connections are reused last in, first out; `Pipeline.execute` resets the
  pipeline in every case, and an empty one sends nothing. So the first
  connection, the one with a name, is the one CLIENT KILL closes;
  `NoReConnection` does not open it again, and calls made while a transaction
  holds it go over a second connection, which stays open. `Alive` guards the
  steps over the first connection. Where the client that updates still has the old
  name itself, `kill_connected_clients_at` closes its connection in the middle of the
  loop, and clients that come after it stay.
* A `get` that finds nothing takes effect at its first MGET.

## Runs

| run | shows | expected |
|---|---|---|
| `registry` | the table stays sound and at most one client per namespace is left behind | pass |
| `data` | KVolve implements `EagerStore` for strings, sets, lists and sorted sets; tags, copies and reachability; reads keep data | pass |
| `multi` | KVolve implements `EagerStore` also with transactions, for strings and hashes; WATCH guards; self-inflicted aborts make progress | pass |
| `persist` | dumps at any time, crashes, restarts: tags and contents come back | pass |
| `lur_stopped` | LUR implements `EagerStore` when programs are stopped for updates; `do_upd_all_now` leaves nothing behind; calls end | pass |
| `lur_live` | an update under a running program: shapes and commits | pass |
| `lur_updates` | rival updates at once: nothing lost | pass |
| `strings_untagged` | a value stored by SETNX is updated by functions not meant for it | violation |
| `strings_twice` | a key not touched before a second rename is out of reach | violation |
| `multi_set` | a SET that is queued and never executed has already deleted the old value | violation |
| `registry_outside` | an update requested from outside leaves a program at the old version | violation |
| `lur_renamed` | after a rename a `get` restores a deleted value | violation |

Each violation stands for a comment or document of the repository that the code
does not keep; `PROJECT.json` quotes the line.

**Bounds.** `registry`: three clients, so that an update can find the caller, a
client to close and one to keep; three namespaces, one more than a rename needs,
with updates that lead in a circle (order, foo_order, bar_order, order) and
updates that do not fit; versions up to 3. `data`: one program, since another at
the same version adds no command the first cannot give; two strings for MGET,
MSET and DEL, or one container with two elements (`zset_max_ziplist_entries` is 3); scores of 1.0 and
1.3 millionths, of which `"%f"` prints the second like the first; an update in place, a rename
and a further update, so that a value can be three versions and one name behind.
`multi`: two programs, one key, one rename, two queued commands, of one client or
of both: hooks, commands and updates of the other come between WATCH, MULTI, each
queued command and EXEC. One of the two uses WATCH; the fields of the hash are
renamed. `persist`: one program, a set with a string beside it, or one sorted set, two
restarts; versions 253 to 255, the last ones a byte holds; `"%f"` prints its score
exactly. The LUR runs have two clients and one key: every race in the code is
between two clients on one key or one list. `lur_stopped` has three versions, so
that `get` applies two updates in one transaction, one that changes the value
(SET and DEL) and one that does not (RENAME), and a SCAN meets keys of three
versions. `KV_INIT_SZ` is 20 as in the code; the instances do not fill the arrays,
and the branch without room is covered by the proofs alone. Numbers are 0..1: only
that they carry no tag matters.

**Views.** In `data`, `multi`, `persist` and `lur_stopped` states that differ in `reply`
only are one. No action reads `reply`; properties that mention it are about steps
(`reply'`), which TLC checks on every step it generates, also to a state it has
seen.

**Deadlock** is not checked in the KVolve runs, where all clients may have left for
good. In the LUR runs it cannot occur: a client may always stop and start.

**Fairness.** `CallsEnd` assumes weak fairness of `Continue(c)`: a client in the
middle of a get, a set or the scan of `do_upd_all_now` takes its next step, as a
Python program that is neither stopped nor cut off does. Nothing is assumed of
other clients, of calls being made, or of updates being loaded.

**What the passing runs leave out** because the code does not keep it: `data` is
without SETNX and GETSET, whose values have no tag, without rejected SETs, which
lose data, and without hashes behind by several updates, where each function is
given the value from before the first (`kvolve_internal.c:512-515`); `multi` has
`Careful` programs; `persist` excepts, by name, the containers saved before they got
their tags (`late`). The abstract store rounds scores to six decimals when it
converts, as the code does when it updates an element: eager updates would lose as
much. `lur_stopped` reads a returned marker as "nothing": a `get` that has
missed on the express route returns the marker of another `get` to the program
(`lazyupdredis.py:454`), although its docstring (391-392) promises None. It is without
`set` NX and XX, which look for the key under the current version only and delete the
copies under old ones even if they do not set (662-675; the docstring, 616-620, speaks of
existing keys). `lur_live` has one updating client: of two, the one whose EXEC fails keeps
the new version and its old program (331), and `ShapesTruthful` fails. A version may be
stored and its update file not, after a crash between the two (816), which
`lazyupdredis/README.md:204` excludes; no property is about it. The count that `delete` returns is not compared, since it
counts markers. `AllUpdated` is about a `do_upd_all_now` that returns; it raises on
a marker under an old key, and after a rename on any key under the old name.

## Proofs

All theorems hold for any sets of clients, namespaces, versions, declarations
and update files, and any `KV_INIT_SZ`; the assumptions are those named in the
modules (`RegistryAssumption`, and `LurAssumption` and `DataAssumption` for LUR).

Registry:

* `TypeCorrect`: `RegistryTypeOK` is inductive. The work is in
  `kvolve_check_version`, where the version given to a new namespace is one of the
  declaration (`VersionOfNamed`).
* `AtMostOneStaleTheorem`: the inductive invariant is `StaleInv`, typing with
  `TableConsistent` and `AtMostOneStale`. `AtMostOneStale` alone is not inductive:
  the kill loop closes only clients it finds in `is`, so every open client must be
  in the set of each namespace it declared (`TableConsistent`). `KillLoop` states
  what the loop leaves; there is one lemma per handler.
* `Consistent`: `TableConsistent` by itself, with typing.
* `MemberUpdate`: the action property, from the same invariant.
* `Aligned`, `AppendOnly`: `TableSteps` reduces every step to one of four (nothing,
  `Declares`, `Renames`, `Upgrades`), and the theorems follow for each.
* `Shared`: inductive together with typing, `TableConsistent` and `HistoryAligned`.
  It holds the position of the rename in each history; a namespace was renamed
  later than the one it came from, which is what makes `Acyclic` follow: positions
  fall along `prev_ns`.
* `Chain`, `Repeats`: what the checks of `kvolve_upd_spec` do guarantee, with the
  exceptions the code has.
* `TableInv` is what the theorems about data rest on. It adds to the above that no
  version is twice in a history, that a renamed namespace goes on where the one before
  it stopped, and that no program stays connected at an old version or name
  (`NoStaleClient`). It needs `DocumentedUpdate`: run `registry_outside` shows the last
  part fail for updates from outside, and `AtMostOneStale` is what holds then.

Strings in KVolve. The theorems are about programs that use strings only
(`StringPrograms`) and are for any number of clients, names, namespaces, updates and
commands. What they assume further, each where it is needed:

| assumption | says | why |
|---|---|---|
| `PlainNames` | no namespace is a prefix of another, none is the one of keys without prefix | the prefix of a key is all that says which namespace it is in |
| `Tagging` | programs do not use SETNX and GETSET | they store values without a tag: run `strings_untagged` |
| `RenamedOnce` | a namespace that came from a rename is not renamed again | hooks look under one old name: run `strings_twice` |
| `OneByte` | versions are at most 255 | a tag is one byte in the file |
| `NoneLost` | SET is neither queued nor turned down | its hook has then dropped the value under the old name: run `multi_set` |

* `DataInOrder`: the inductive invariant is `StringInv`: `TableInv`; each stored string
  is a number without a tag, or has a version of its namespace as tag and the schema
  the tag says (`AllFit`); no string is under a name and under the one before it
  (`OneName`); no tag waits in `tmp_store`. The argument goes by layers.
  `CheckUpdate` says what `kvolve_check_update_kv_pair` leaves of one key (the chain
  of update functions ends at the last version, by an induction along the history);
  `HookKeeps` says what a whole hook does; `CallOne` and `CallPair` what the commands
  do after it; `KeysHook` deals with KEYS, which renames every key it finds
  (`Rounds` is the induction over the rounds of a loop); `StringInvData` and
  `StringInvRegistry` put the steps together. The lemmas that count rounds take
  induction over the natural numbers as a hypothesis (`Counting`, with a set in place
  of the predicate), which `Counts` proves in `KvolveServerProofs` from the library's
  well-foundedness of the naturals: the theorems do not assume it.
* `StringsTypeOK`, `StringTagsTruthful`, `StringOneCopy`, `StringReachable` are what this
  order means: `KvolveTypeOK`, `TagsTruthful`, `OneCopy` and `Reachable`. The second
  holds however often a namespace is renamed; that it has a present name at all
  (`CurrentExists`) is because names are finitely many and histories get longer along
  renames.
* `StringReads`: `ReadsKeepData`. `SameData` says that a hook renames and updates,
  and leaves what is stored for each item.
* `TransactionsInOrder`, `StringWatchGuards`: `MultiInv` adds to `StringInv`, for each
  client, that what it has queued is for the present name of its item (`QueueInv`),
  that what it watches is (`WatchInv`), and that what it watches is as it was unless it
  has been told (`Guarded`). `Seen` is the frame: a step that changes an item, or
  drops its old copy, signals the key whoever watches the item has named. A queue
  of any length is executed by induction (`ExecSeen`).
* `StringAborts`: `AbortsMakeProgress` for strings. The hook of a queued command signals
  keys only when it moves a string (`HookTouched`); nobody who watches uses
  the old name (`NoStaleClient`), so the client watches the present one, which had no
  value before and has one now (`QueueProgress`). No other step changes what a client
  has queued and tells it of a change.
* `FileInOrder`, `StringsSavedTruthful`, `StringsLoadedTruthful`: `PersistInv` says that
  every dump (in the file, in the child, the one the server started from) is in
  order for the registry of its time (`GoodDump`), and that what is in memory is the
  dump, or is in order for the registry of now. Between a start and the moment the
  updates are loaded again the data is not in order for the registry.
* `StringsRestored`: `RestartInv` adds that what a dump is said to show to programs
  agrees with what it holds (`TrueDump`). Both that and `RestartRestores` rest on
  `StoreFacts`: a read returns the string under the present name, or else the one
  under the name before, brought to the last version.

LazyUpdateRedis:

* `NoVersionLostTheorem`, `FilesKeptTheorem`: the step properties `NoVersionLost` and
  `FilesKept`, with any number of clients at any of the round trips of `__init__`,
  `do_upd` and `do_upd_all_now`. Neither follows from a step alone: a rename deletes
  the list of the old name and stores the one the client has read three round trips
  before, and HSET replaces whatever is stored. The inductive invariant is `UpdInv`
  (`UpdInvHolds`): besides the types of what a call carries along, `RenameReady`
  (while the WATCH of a rename holds, the list of the old name is still the one the
  client has copied) and `FileReady` (while the WATCH on the files holds, there is no
  file for the update, or the client will not write).
* The proof is a frame argument. `FrameSuffices`: a client's part of `UpdInv` is kept
  by another client's step that either leaves lists and files alone or takes the
  changed key out of every `watched`. `QuietKeeps` deals with all steps of `get`, `set`,
  `delete` and the scan at once; the remaining lemmas are one per phase of the
  protocol.

* `LurTypeCorrect`: `LurTypeOK` follows from the inductive `TypeInv` (`TypeInvHolds`),
  which adds what a call relies on: a client past its connection has a version list,
  a `get` about to write has found a value at a position of the list beyond the first.
  The chain of update functions (`Updated`) is a recursive function over the positions
  of the list; that it has a value, and which, is shown by induction along the list
  (`Induct`, from the library's well-foundedness of the naturals, in a form with a set
  in place of the predicate). Renames are included.
* `CommitFreshTheorem` assumes `NoRenames`. Run `lur_renamed` shows that this is
  needed: after a rename the keys are watched under a name they are not stored under.
  The invariant is `CommitInv`: entries have the name of their namespace, so what
  is watched is what is read; and while a `get` about to write still watches all its
  keys, they hold what it has read (`ReadStill`).
* `ProgramsAtTop` and `ShapesTruthfulTheorem` assume `NoRenames` and one updating
  client, or programs stopped for updates (`Live` FALSE). This is needed: of two clients that update at once, the one whose transaction fails
  goes on with a list that is not the stored one. The invariant `AllPrograms` says that
  nobody disturbs the update in progress (`Apart`, `Undisturbed`), that the list of a
  client and the one in Redis are there when it needs them (`OneList`, `ListReady`), and
  that the program is written for the first version of its list (`AtTop`). On top of it
  `ShapeInv` adds that a `get` about to write carries a value of the newest version.
* `AllUpdatedTheorem` assumes `NoRenames` and `Live` FALSE, as `do_upd_all_now` does:
  it looks for keys that are not at the version of its own list. The invariant
  `AllInv` says that everybody's list is the one in Redis (`InStep`), and that a
  name with a value under old versions only is one the scan has still to see, has in
  its batch, or is working on (`ScanInv`). `Effect` says what a `get`, `set` or `delete` of
  any other client can do to that name.
* The steps of other clients are treated by frames throughout: `Rest` (the state of
  other clients is left alone), `Heard` (whoever watches what is changed is told), and
  `Writes` (what calls do to the data); then there is one lemma per phase for the
  client's own steps. All these invariants were checked by TLC on the instances of
  `lur_live` and `lur_stopped` before they were proved.

Only model-checked:

* containers of KVolve: the properties above for sets, lists, sorted sets and hashes,
  and the tags that come one command late. Each hook is a loop over elements in a
  loop over updates, and the invariant would have to relate both to every element;
* the refinements `UpdatesAreEager`: besides the order of the data they need the
  reply of each command to be that of the same command on the abstract store;
* `CallsEnd`: liveness under fairness.

## Not modelled

* KVolve: what update functions do besides changing the value they are given
  (`kvolve_upd_redis_call`, new keys), numbers from 10000 up, keys without a
  namespace, several databases, commands without a hook, commands over keys of two
  namespaces, an update loaded inside MULTI, numbers in lists, hashes and sorted sets,
  scores too long for the 50 bytes they are printed into, a transaction followed by a
  save. The hook of SCARD is never called, since it is registered with three arguments
  (`kvolve.c:44`, checked at 398): SCARD does not rename or update. Redis features
  KVolve does not touch: the append-only file, replication, expiry, scripting.
* LUR: "add" statements, several namespaces per client, `keys`, `ttl`, `setex` and
  expiry. One consequence of expiry that the model therefore does not show: `get`
  asks for the time to live (PTTL) after it has read the value, and takes the answer
  for a key that has expired in between (-2) for "no ttl set"
  (`lazyupdredis.py:530-533`).
* The update language (`json_patch_creator.py`, `decode.py`, `json_delta_diff.py`) is
  text processing without shared state.
* The deprecated proxy and tools, the target programs, tests and benchmarks are not
  part of the two systems.
* By far most of the lines under `src/` are the vendored Redis 2.8.17 with its
  bundled libraries, tools and command set. Of it, the models have what KVolve's hooks
  are put before, what they call, MULTI and WATCH, and the RDB file; the rest does not
  interact with the two systems.
