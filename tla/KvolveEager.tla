----------------------------- MODULE KvolveEager ----------------------------
(***************************************************************************)
(* KVolve implements EagerStore: what reading each item under its present  *)
(* name would return is the store, the last version of each namespace the  *)
(* schema.                                                                 *)
(***************************************************************************)
EXTENDS KvolveData

\* Lazy updates are invisible: the commands, and transactions, answer as those
\* of a Redis whose data is updated as a whole when the update is loaded.
Eager == INSTANCE EagerStore WITH
    Space <- NS, SpaceOf <- LAMBDA i : i[1], Schemas <- Vers, store <- StoreNow, schema <- SchemaNow
UpdatesAreEager == Eager!Spec
=============================================================================
