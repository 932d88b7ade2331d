------------------------------ MODULE LurEager ------------------------------
(***************************************************************************)
(* What LazyUpdateRedis promises to its programs: get, set and delete      *)
(* answer as those of a Redis whose data is updated all at once when the   *)
(* update is loaded (EagerStore).                                          *)
(***************************************************************************)
EXTENDS LurData

\* What a program at the newest version would read; a marker is nothing, and
\* is taken for nothing where a get returns it.
Newest == {n \in NS : UPDATE_VERSIONS[n] # << >>}
SchemaNow ==
    [s \in {"space"} |-> IF Newest = {} THEN NULL
                          ELSE UPDATE_VERSIONS[CHOOSE n \in NS : n \in Newest][1].ver]
Unmarked(o) == IF o = Marker THEN NULL ELSE o
StoreNow ==
    [k \in Suffix |->
       LET l == UPDATE_VERSIONS[CHOOSE n \in NS : n \in Newest]
           at == {i \in DOMAIN l : db[<<l[i], k>>] # NULL}
           e == l[CHOOSE i \in at : \A j \in at : i <= j]
           o == db[<<e, k>>]
       IN  IF Newest = {} \/ at = {} \/ o = Marker THEN NULL
           ELSE createObject("string", "raw",
                  [o EXCEPT !.conf = IF @ = e.ver THEN l[1].ver ELSE Garbled])]
ReplyNow ==
    IF reply = NULL \/ reply.reqs[1].cmd # "get" THEN reply
    ELSE [reply EXCEPT !.res[1].multi[1] = Unmarked(@)]

\* Lazy updates by several clients at once are invisible: every get, set and
\* delete takes effect at one moment, on a store that is updated as a whole
\* when the update is loaded.
Eager == INSTANCE EagerStore WITH
    Space <- {"space"}, Item <- Suffix, SpaceOf <- LAMBDA i : "space", Schemas <- Ver,
    store <- StoreNow, schema <- SchemaNow, reply <- ReplyNow
UpdatesAreEager == Eager!Spec
=============================================================================
