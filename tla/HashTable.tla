----------------------------- MODULE HashTable -----------------------------
(***************************************************************************)
(* The hash table (hash.c) pointer by pointer.  Every entry is on two      *)
(* doubly linked lists: that of all entries, in the order they were put    *)
(* (HEAD is the oldest, PREV leads to the newer one), and that of its      *)
(* bucket (the bucket points to the newest, PREV leads to the older one).  *)
(*                                                                         *)
(* An entry stores its key cut to MAX_KEY_LEN - 1 characters, and a lookup *)
(* compares what is stored with the whole key: a longer key is put without *)
(* being found again.  Freed memory is blank until it is allocated.        *)
(***************************************************************************)
EXTENDS Integers, FiniteSets, Reachability

CONSTANTS
    Entries,     \* addresses of entries
    NULL,
    Keys,
    Values,
    HASH_SIZE,
    hash_key,    \* the bucket of a key
    Cut          \* what sstrncpy keeps of a key

ASSUME HashAssumption ==
    /\ NULL \notin Entries \cup Keys \cup Values /\ IsFiniteSet(Entries)
    /\ HASH_SIZE \in Nat \ {0}
    /\ hash_key \in [Keys -> 0 .. HASH_SIZE - 1]
    /\ Cut \in [Keys -> Keys]
    /\ \A key \in Keys : Cut[Cut[key]] = Cut[key]

VARIABLE hash   \* the Hash structure and the memory of its entries

Refs == Entries \cup {NULL}
Buckets == 0 .. HASH_SIZE - 1

Entry == [k : Keys \cup {NULL}, v : Values \cup {NULL},
          newer : Refs, older : Refs,    \* entries[PREV], entries[NEXT]
          below : Refs, above : Refs]    \* collisions[PREV], collisions[NEXT]

Blank == [k |-> NULL, v |-> NULL,
          newer |-> NULL, older |-> NULL, below |-> NULL, above |-> NULL]

Hash_new == [ent |-> [e \in Entries |-> Blank], live |-> {},
             head |-> NULL, tail |-> NULL,
             buckets |-> [i \in Buckets |-> NULL], num_entries |-> 0]
-----------------------------------------------------------------------------
\* The links of each kind.
Newer(h) == [e \in Entries |-> h.ent[e].newer]
Older(h) == [e \in Entries |-> h.ent[e].older]
Below(h) == [e \in Entries |-> h.ent[e].below]
Above(h) == [e \in Entries |-> h.ent[e].above]

\* The entries met from start on along a link, and those beyond e.
Met(start, link) == Way(start, link, Entries, NULL)
Beyond(e, link) == Met(link[e], link)

\* The entries of bucket i.
Chain(h, i) == Met(h.buckets[i], Below(h))

\* Mutant of Hash_get: only the newest entry of the bucket is looked at.
HashGetTop(h, key) ==
    LET top == h.buckets[hash_key[key]]
    IN  IF top # NULL /\ h.ent[top].k = key THEN top ELSE NULL

\* Hash_get: the first entry of the key's bucket that stores the whole key.
Hash_get(h, key) ==
    LET below == Below(h)
        chain == Met(h.buckets[hash_key[key]], below)
        hits == {e \in chain : h.ent[e].k = key}
    IN  IF hits = {} THEN NULL
        ELSE CHOOSE e \in hits : hits \subseteq Met(e, below)

\* Mutant of Unhooked: the entry above keeps its link to the one deleted.
UnhookedBelow(h, e) ==
    [x \in Entries |->
        IF x = e THEN Blank ELSE
        [h.ent[x] EXCEPT
            !.newer = IF @ = e THEN h.ent[e].newer ELSE @,
            !.older = IF @ = e THEN h.ent[e].older ELSE @,
            !.above = IF @ = e THEN h.ent[e].above ELSE @]]

\* Entry e freed, and its neighbours on both lists joined over it.
Unhooked(h, e) ==
    [x \in Entries |->
        IF x = e THEN Blank ELSE
        [h.ent[x] EXCEPT
            !.newer = IF x = h.ent[e].older THEN h.ent[e].newer ELSE @,
            !.older = IF x = h.ent[e].newer THEN h.ent[e].older ELSE @,
            !.below = IF x = h.ent[e].above THEN h.ent[e].below ELSE @,
            !.above = IF x = h.ent[e].below THEN h.ent[e].above ELSE @]]

\* The ends of the list of entries once e is not on it any more.
Ends(h, e) ==
    [h EXCEPT !.tail = IF h.ent[e].newer = NULL THEN h.ent[e].older ELSE @,
              !.head = IF h.ent[e].older = NULL THEN h.ent[e].newer ELSE @]

\* e taken off both lists; it is in bucket i.
Unlinked(h, e, i) ==
    [Ends(h, e) EXCEPT
        !.ent = Unhooked(h, e),
        !.buckets[i] = IF h.ent[e].above = NULL THEN h.ent[e].below ELSE @]

\* Hash_del.
Deleted(h, key) ==
    LET e == Hash_get(h, key)
    IN  IF e = NULL THEN h
        ELSE [Unlinked(h, e, hash_key[key]) EXCEPT !.num_entries = @ - 1,
                                                   !.live = @ \ {e}]

\* Mutant of Appended: new entries go to the front of the list of entries.
Prepended(h, e) ==
    IF h.head = NULL THEN [h EXCEPT !.head = e, !.tail = e]
    ELSE [h EXCEPT !.ent[e].newer = h.head, !.ent[h.head].older = e, !.head = e]

\* Entry e at the end of the list of entries.
Appended(h, e) ==
    IF h.head = NULL THEN [h EXCEPT !.head = e, !.tail = e]
    ELSE [h EXCEPT !.ent[e].older = h.tail, !.ent[h.tail].newer = e, !.tail = e]

\* Entry e on top of bucket i.
Stacked(h, e, i) ==
    IF h.buckets[i] = NULL THEN [h EXCEPT !.buckets[i] = e]
    ELSE [h EXCEPT !.ent[e].below = h.buckets[i], !.ent[h.buckets[i]].above = e,
                   !.buckets[i] = e]

\* Hash_put: delete what is found under the key, add a new entry e.
Inserted(h, e, key, value) ==
    LET new == [h EXCEPT !.num_entries = @ + 1, !.live = @ \cup {e},
                         !.ent[e].k = Cut[key], !.ent[e].v = value]
    IN  Stacked(Appended(new, e), e, hash_key[key])

Hash_put(key, value) ==
    LET h == Deleted(hash, key)
    IN  \E e \in Entries \ h.live : hash' = Inserted(h, e, key, value)

Hash_del(key) == hash' = Deleted(hash, key)

\* Hash_destroy: free the entries met from the head on.
Hash_destroy ==
    hash' = [Hash_new EXCEPT !.live = hash.live \ Met(hash.head, Newer(hash))]
-----------------------------------------------------------------------------
HashTypeOK ==
    /\ hash.ent \in [Entries -> Entry]
    /\ hash.live \subseteq Entries
    /\ {hash.head, hash.tail} \subseteq Refs
    /\ hash.buckets \in [Buckets -> Refs]
    /\ hash.num_entries \in Nat

\* Two links go opposite ways, and not in a circle.
Opposite(link, back) ==
    \A x \in Entries :
        /\ x \notin Beyond(x, link)
        /\ \A y \in Entries : link[x] = y <=> back[y] = x

(* Whatever was put and deleted in whatever order, each entry is once on   *)
(* the list of entries, in both directions, and once in one bucket, in     *)
(* both directions; a freed entry is on neither, and num_entries counts    *)
(* them (hash.c:65-99, 118-152).                                           *)
HashLinked ==
    /\ hash.num_entries = Cardinality(hash.live)
    /\ Met(hash.head, Newer(hash)) = hash.live
    /\ Met(hash.tail, Older(hash)) = hash.live
    /\ Opposite(Newer(hash), Older(hash))
    /\ UNION {Chain(hash, i) : i \in Buckets} = hash.live
    /\ \A i, j \in Buckets : i # j => Chain(hash, i) \cap Chain(hash, j) = {}
    /\ Opposite(Below(hash), Above(hash))

\* The entries that lookups find, their keys with their values, and the pairs
\* of their keys in the order of the list.
Visible == {e \in hash.live : Hash_get(hash, hash.ent[e].k) = e}

Found == {<<hash.ent[e].k, hash.ent[e].v>> : e \in Visible}

FoundOrder ==
    LET newer == Newer(hash)
        visible == Visible
    IN  {<<hash.ent[p[1]].k, hash.ent[p[2]].k>> : p \in
            {q \in visible \X visible : q[2] \in Beyond(q[1], newer)}}

(* What lookups find is a map that remembers the order its keys were put   *)
(* in, with a put that replaces what was put under the same key; an entry  *)
(* nobody can find is none of it.                                          *)
Promise == INSTANCE AssocList WITH assoc <- Found, order <- FoundOrder

KeepsPromise == Promise!Spec
=============================================================================
