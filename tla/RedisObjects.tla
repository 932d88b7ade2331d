---------------------------- MODULE RedisObjects ----------------------------
(***************************************************************************)
(* What a Redis server stores and is asked.  An object (robj) has a type,  *)
(* an encoding, the version tag KVolve added (0 in a new object) and what  *)
(* ptr points to.  A piece of data is [val, conf], its content and the     *)
(* schema it is in: a string has one, a set is a set and a list a sequence *)
(* of them, a hash maps some of them (the fields) to others and a sorted   *)
(* set maps them to scores.  Every key is used with one type.              *)
(***************************************************************************)
CONSTANT NULL \* no object, no entry: the null pointer of C, None of Python

createObject(t, enc, p) == [type |-> t, enc |-> enc, vers |-> 0, ptr |-> p]

\* A number has no schema; nor has a field whose name is the same in all.
IsNumber(b) == b.conf = 0

\* A request: a command, its keys, the data it is given, the index, field or
\* score that goes with it, and the tag a hook has put on the data.
Request(cmd, ks, bs, at) == [cmd |-> cmd, keys |-> ks, args |-> bs, at |-> at, tag |-> 0]
=============================================================================
