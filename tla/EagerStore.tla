----------------------------- MODULE EagerStore -----------------------------
(***************************************************************************)
(* What KVolve and LazyUpdateRedis promise to programs: a plain Redis      *)
(* whose data is updated all at once.  An item is a key that keeps its     *)
(* identity when its namespace is renamed; a space is a namespace together *)
(* with all its names.  Loading an update changes the schema of a space    *)
(* and converts all its data, where scores lose what "%f" does not print;  *)
(* the commands are those of Redis, and take effect one by one, or         *)
(* together for a transaction.                                             *)
(***************************************************************************)
EXTENDS Naturals, Sequences, FiniteSets

CONSTANTS Space, Item, SpaceOf(_), Schemas, NULL

VARIABLES
    store,  \* the object of each item, or NULL
    schema, \* version the programs of each space are written for
    reply   \* the last requests, whether they were carried out, and the results

eagerVars == <<store, schema, reply>>

Redis == INSTANCE RedisCommands WITH zset_max_ziplist_entries <- 0

\* Programs write data in the schema of the moment.
InSchema(r) ==
    LET now == {0, schema[SpaceOf(r.keys[1])]}
    IN  /\ \A n \in DOMAIN r.args : r.args[n].conf \in now
        /\ r.cmd \in {"hset", "hdel"} => r.at.conf \in now

Init ==
    /\ store = [i \in Item |-> NULL]
    /\ schema = [s \in Space |-> NULL]
    /\ reply = NULL

\* A program declares spaces, or an update is loaded.
Evolve ==
    LET was == store
        before == schema
        now == schema'
    IN  /\ UNCHANGED reply
        /\ now \in [Space -> Schemas \cup {NULL}]
        /\ now = before \/ \A s \in Space : before[s] # NULL => now[s] # NULL
        /\ store' = [i \in Item |-> IF now[SpaceOf(i)] = before[SpaceOf(i)] THEN was[i]
                                    ELSE Redis!Converted(was[i], now[SpaceOf(i)])]

\* One command, or those of a transaction.  With "was = was" TLC evaluates it
\* once and not at each use.
Execute ==
    LET rs == reply'.reqs
        was == store
        after == Redis!calls([db |-> was, touched |-> {}, res |-> NULL], rs)
    IN  /\ reply'.ok /\ was = was
        /\ \A n \in DOMAIN rs : rs[n].cmd \notin {"keys", "delete"} /\ InSchema(rs[n])
        /\ reply'.res = [n \in DOMAIN rs |-> after[n].res]
        /\ store' = [i \in Item |-> Redis!Plain(after[Len(rs)].db[i])]
        /\ UNCHANGED schema

\* A request or a transaction that fails has no effect.
Fail == ~reply'.ok /\ UNCHANGED <<store, schema>>

Keys(s) ==
    /\ reply'.ok
    /\ reply'.reqs = <<Redis!Request("keys", << >>, << >>, NULL)>>
    /\ LET was == store
       IN  reply'.res = <<[keys |-> {i \in Item : SpaceOf(i) = s /\ was[i] # NULL}]>>
    /\ UNCHANGED <<store, schema>>

\* A deletion whose reported count is not promised.
Delete(i) ==
    /\ reply'.ok
    /\ reply'.reqs = <<Redis!Request("delete", <<i>>, << >>, NULL)>>
    /\ store' = [store EXCEPT ![i] = NULL]
    /\ UNCHANGED schema

Next ==
    \/ Evolve
    \/ reply' # NULL /\ (Execute \/ Fail)
    \/ reply' # NULL /\ \E s \in Space : Keys(s)
    \/ reply' # NULL /\ \E i \in Item : Delete(i)

Spec == Init /\ [][Next]_eagerVars
=============================================================================
