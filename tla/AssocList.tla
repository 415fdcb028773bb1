----------------------------- MODULE AssocList -----------------------------
(***************************************************************************)
(* What a table promises: a finite map that remembers the order in which   *)
(* its keys were last put.  HashTable implements it.                       *)
(***************************************************************************)
CONSTANTS Keys, Values

VARIABLES
    assoc,   \* pairs of a key and its value
    order    \* pairs of keys, of which the second was put after the first

Present == {p[1] : p \in assoc}

OtherPairs(key) == {p \in assoc : p[1] # key}
OtherOrder(key) == {p \in order : key \notin {p[1], p[2]}}

Init == assoc = {} /\ order = {}

Put(key, value) ==
    /\ assoc' = OtherPairs(key) \cup {<<key, value>>}
    /\ order' = OtherOrder(key) \cup ((Present \ {key}) \X {key})

Del(key) == assoc' = OtherPairs(key) /\ order' = OtherOrder(key)

Destroy == assoc' = {} /\ order' = {}

Next ==
    \/ \E key \in Keys, value \in Values : Put(key, value)
    \/ \E key \in Keys : Del(key)
    \/ Destroy

Spec == Init /\ [][Next]_<<assoc, order>>
=============================================================================
