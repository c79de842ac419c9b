---------------------------- MODULE RecencyStore ----------------------------
(***************************************************************************)
(* What a cache "which evicts the least recently used item when it is      *)
(* full" promises: the bindings of the keys used last, at most Capacity of *)
(* them.  A binding is made once and stays until its key is forgotten.     *)
(***************************************************************************)
EXTENDS Naturals, SequencesExt

CONSTANTS Keys, Values, Capacity

VARIABLES recent,   \* the keys that are bound, the last one used first
          binding   \* the value of each of them

storeVars == <<recent, binding>>

Bound == {recent[i] : i \in DOMAIN recent}

(* k is the last key used; of the others as many as fit stay.              *)
Touch(k) ==
    LET others == RemoveFirst(recent, k)
        room == IF Len(others) < Capacity THEN Len(others) ELSE Capacity - 1
    IN  <<k>> \o SubSeq(others, 1, room)

StoreInit == recent = <<>> /\ binding = [k \in {} |-> k]

Bind(k, v) ==
    /\ k \notin Bound
    /\ recent' = Touch(k)
    /\ binding' = [x \in {recent'[i] : i \in DOMAIN recent'} |->
                     IF x = k THEN v ELSE binding[x]]

Use(k) ==
    /\ k \in Bound
    /\ recent' = Touch(k)
    /\ UNCHANGED binding

StoreNext ==
    \/ \E k \in Keys, v \in Values : Bind(k, v)
    \/ \E k \in Keys : Use(k)

StoreSpec == StoreInit /\ [][StoreNext]_storeVars
=============================================================================
