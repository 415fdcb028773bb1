------------------------------- MODULE Symtab -------------------------------
(***************************************************************************)
(* The symbol table (symtab.c): names to ids in a hash table, ids to names *)
(* in an array that is doubled when the table holds more names than it.    *)
(*                                                                         *)
(* The same table code serves any other client, such as its own test       *)
(* (check/test_hash.c), which also deletes and overwrites: user says whose *)
(* table it is.                                                            *)
(***************************************************************************)
EXTENDS HashTable

CONSTANTS
    InitialIds,    \* the size of the array to begin with: HASH_SIZE (stu.c:75)
    HostValues     \* values another client puts

ASSUME SymtabAssumption ==
    /\ InitialIds \in Nat \ {0}
    /\ 0 .. Cardinality(Entries) \cup HostValues \subseteq Values

VARIABLES
    user,            \* "symtab", or "host" for another client of hash.c
    sym_id_to_name,
    sym_num_ids,     \* the array's size
    issued           \* pairs of a name and the id Symtab_get_id gave for it

symtab == <<sym_id_to_name, sym_num_ids, issued>>
vars == <<hash, user, symtab>>

Init ==
    /\ hash = Hash_new
    /\ user \in {"symtab", "host"}
    /\ sym_num_ids = InitialIds
    /\ sym_id_to_name = [i \in 0 .. InitialIds - 1 |-> NULL]
    /\ issued = {}
-----------------------------------------------------------------------------
\* CHECKED_REALLOC: the names so far, and room for as many more.
Doubled(names) ==
    [i \in 0 .. 2 * Cardinality(DOMAIN names) - 1 |->
        IF i \in DOMAIN names THEN names[i] ELSE NULL]

\* Mutant of MustGrow: the array is found too small one name late.
MustGrowLate(entries) == entries > sym_num_ids + 1

MustGrow(entries) == entries > sym_num_ids

\* The id of a new name: the names so far.
NextId == hash.num_entries

\* Symtab_get_id of a name not found, and of one that is.
NewSymbol(name) ==
    /\ Hash_get(hash, name) = NULL
    /\ Hash_put(name, NextId)
    /\ LET names == IF MustGrow(hash'.num_entries) THEN Doubled(sym_id_to_name)
                    ELSE sym_id_to_name
       IN  /\ sym_id_to_name' = [names EXCEPT ![NextId] = name]
           /\ sym_num_ids' = Cardinality(DOMAIN names)
    /\ issued' = issued \cup {<<name, NextId>>}

KnownSymbol(name) ==
    LET mapping == Hash_get(hash, name)
    IN  /\ mapping # NULL
        /\ issued' = issued \cup {<<name, hash.ent[mapping].v>>}
        /\ UNCHANGED <<hash, sym_id_to_name, sym_num_ids>>

Symtab_get_id(name) == NewSymbol(name) \/ KnownSymbol(name)

Symtab_get_name(id) ==
    IF id >= 0 /\ id < hash.num_entries THEN sym_id_to_name[id] ELSE NULL

\* Stu_destroy: the names are freed, then the table; another interpreter starts.
Symtab_destroy ==
    /\ Hash_destroy
    /\ sym_num_ids' = InitialIds
    /\ sym_id_to_name' = [i \in 0 .. InitialIds - 1 |-> NULL]
    /\ issued' = {}

SymtabStep ==
    /\ user = "symtab"
    /\ (\E name \in Keys : Symtab_get_id(name)) \/ Symtab_destroy
    /\ UNCHANGED user

HostStep ==
    /\ user = "host"
    /\ \/ \E key \in Keys, value \in HostValues : Hash_put(key, value)
       \/ \E key \in Keys : Hash_del(key)
       \/ Hash_destroy
    /\ UNCHANGED <<user, symtab>>

Next == SymtabStep \/ HostStep

Spec == Init /\ [][Next]_vars
-----------------------------------------------------------------------------
TypeOK ==
    /\ HashTypeOK
    /\ sym_num_ids \in Nat
    /\ sym_id_to_name \in [0 .. sym_num_ids - 1 -> Keys \cup {NULL}]
    /\ issued \subseteq Keys \X Nat

(* A symbol can always be printed by the name it was read by: through      *)
(* collisions and every growth of the array, the name of each id that was  *)
(* ever given is what it was given for (symtab.c:49-80).                   *)
NamesKept ==
    \A p \in issued :
        p[2] \in DOMAIN sym_id_to_name /\ Symtab_get_name(p[2]) = p[1]

(* Symbols are compared by id: a name gets one id for good, unless it is   *)
(* too long to be found again, and then a new one each time it is read.    *)
OneIdPerName ==
    \A p, q \in issued : p[1] = q[1] /\ Cut[p[1]] = p[1] => p[2] = q[2]
=============================================================================
