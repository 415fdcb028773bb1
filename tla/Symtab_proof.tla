---------------------------- MODULE Symtab_proof ----------------------------
(***************************************************************************)
(* The links of the hash table stay whole, lookups find what its promise   *)
(* says, and the symbol table built on it gives every name one id and      *)
(* every id its name, for any number of entries, buckets and keys.         *)
(***************************************************************************)
EXTENDS Symtab, FiniteSetTheorems, TLAPS

Table == [ent : [Entries -> Entry], live : SUBSET Entries, head : Refs, tail : Refs,
          buckets : [Buckets -> Refs], num_entries : Nat]

\* The list of entries and that of bucket i, as Reachability has lists.
All(h) == [head |-> h.head, tail |-> h.tail, next |-> Older(h), prev |-> Newer(h)]

Bucket(h, i, bottom) ==
    [head |-> bottom, tail |-> h.buckets[i], next |-> Below(h), prev |-> Above(h)]

\* Every live entry is once on the list of entries and once in a bucket.
Sound(h) ==
    /\ h \in Table
    /\ \A e \in Entries \ h.live : h.ent[e] = Blank
    /\ h.num_entries = Cardinality(h.live)
    /\ \E rank : IsList(rank, h.live, All(h), NULL)
    /\ \A i \in Buckets : \E rank, bottom :
          IsList(rank, Chain(h, i), Bucket(h, i, bottom), NULL)
    /\ UNION {Chain(h, i) : i \in Buckets} = h.live
    /\ \A i, j \in Buckets : i # j => Chain(h, i) \cap Chain(h, j) = {}

\* What is after what is the same for the entries S.
SameOrder(S, h, g) ==
    \A x, y \in S : y \in Beyond(x, Newer(h)) <=> y \in Beyond(x, Newer(g))

SameContents(S, h, g) == \A x \in S : h.ent[x].k = g.ent[x].k /\ h.ent[x].v = g.ent[x].v

\* g is h without e, and h with e in bucket i after all other entries.
Shrinks(h, g, e) ==
    /\ g.live = h.live \ {e}
    /\ \A j \in Buckets : Chain(g, j) = Chain(h, j) \ {e}
    /\ SameContents(g.live, h, g)
    /\ SameOrder(g.live, h, g)

Grows(h, g, e, i) ==
    /\ e \in Entries \ h.live /\ g.live = h.live \cup {e}
    /\ \A j \in Buckets : Chain(g, j) = IF j = i THEN Chain(h, j) \cup {e} ELSE Chain(h, j)
    /\ SameContents(h.live, h, g)
    /\ SameOrder(h.live, h, g)
    /\ \A x \in h.live : e \in Beyond(x, Newer(g))
    /\ \A y \in g.live : y \notin Beyond(e, Newer(g))
-----------------------------------------------------------------------------
(* The links lead from entries to entries or nowhere.                      *)
LEMMA LinkFacts ==
    ASSUME NEW h \in Table
    PROVE  /\ {Newer(h), Older(h), Below(h), Above(h)} \subseteq [Entries -> Entries \cup {NULL}]
           /\ \A x \in Entries : /\ Newer(h)[x] = h.ent[x].newer /\ Older(h)[x] = h.ent[x].older
                                 /\ Below(h)[x] = h.ent[x].below /\ Above(h)[x] = h.ent[x].above
           /\ NULL \notin Entries
<1>1. \A x \in Entries : h.ent[x] \in Entry
  BY DEF Table
<1>2. \A x \in Entries : {h.ent[x].newer, h.ent[x].older, h.ent[x].below, h.ent[x].above} \subseteq Refs
  BY <1>1 DEF Entry
<1> QED
  BY <1>2, HashAssumption DEF Newer, Older, Below, Above, Refs

(* Where the links of a list are the same, the list is.                    *)
LEMMA SameList ==
    ASSUME NEW A, NEW L, NEW M, NEW rank, IsList(rank, A, L, NULL),
           M.head = L.head, M.tail = L.tail,
           \A x \in A : M.next[x] = L.next[x] /\ M.prev[x] = L.prev[x]
    PROVE  IsList(rank, A, M, NULL)
<1>1. Ordered(rank, A, M.head, M.tail, M.next, M.prev, NULL)
  BY DEF IsList, Ordered
<1>2. Spans(M.head, M.prev, A, NULL) /\ Spans(M.tail, M.next, A, NULL)
  BY DEF IsList, Spans
<1> QED
  BY <1>1, <1>2 DEF IsList

(* What is met in a bucket is what its links keep in order.                *)
LEMMA ChainIs ==
    ASSUME NEW h \in Table, NEW i \in Buckets, NEW A \in SUBSET Entries, NEW rank, NEW bottom,
           IsList(rank, A, Bucket(h, i, bottom), NULL)
    PROVE  Chain(h, i) = A
<1> DEFINE L == Bucket(h, i, bottom)
<1>1. /\ L.prev \in [Entries -> Entries \cup {NULL}] /\ L.next \in [Entries -> Entries \cup {NULL}]
      /\ L.tail = h.buckets[i] /\ L.next = Below(h)
  BY LinkFacts DEF Bucket
<1>2. IsList(rank, A, L, NULL) /\ NULL \notin Entries
  BY LinkFacts
<1> HIDE DEF L
<1>3. Way(L.tail, L.next, Entries, NULL) = A
  BY <1>1, <1>2, ListWalks, Z3
<1> QED
  BY <1>1, <1>3 DEF Chain, Met

(* What is after an entry ranks after it.                                  *)
LEMMA OrderIs ==
    ASSUME NEW h \in Table, NEW A \in SUBSET Entries, NEW rank, IsList(rank, A, All(h), NULL)
    PROVE  /\ \A x \in A : Beyond(x, Newer(h)) = {y \in A : rank[x] < rank[y]}
           /\ Met(h.head, Newer(h)) = A /\ Met(h.tail, Older(h)) = A
<1> DEFINE L == All(h)
<1>1. /\ L.prev \in [Entries -> Entries \cup {NULL}] /\ L.next \in [Entries -> Entries \cup {NULL}]
      /\ L.head = h.head /\ L.tail = h.tail /\ L.prev = Newer(h) /\ L.next = Older(h)
  BY LinkFacts DEF All
<1>2. IsList(rank, A, L, NULL) /\ NULL \notin Entries
  BY LinkFacts
<1> HIDE DEF L
<1>3. /\ Ranked(rank, A, L, Entries, NULL)
      /\ Way(L.head, L.prev, Entries, NULL) = A /\ Way(L.tail, L.next, Entries, NULL) = A
  BY <1>1, <1>2, ListWalks, Z3
<1> QED
  BY <1>1, <1>3 DEF Met, Beyond, Ranked

(* The links of the entries A in one list are whole.                       *)
LEMMA ListOpposite ==
    ASSUME NEW A \in SUBSET Entries, NEW rank, NEW L, NEW link, NEW back,
           L.prev = link, L.next = back,
           link \in [Entries -> Entries \cup {NULL}], back \in [Entries -> Entries \cup {NULL}],
           IsList(rank, A, L, NULL)
    PROVE  \A x \in A : /\ x \notin Beyond(x, link)
                        /\ \A y \in Entries : link[x] = y => back[y] = x
                        /\ \A y \in Entries : back[x] = y => link[y] = x
<1>1. NULL \notin Entries
  BY HashAssumption
<1>2. Ranked(rank, A, L, Entries, NULL)
  BY <1>1, ListWalks, Z3
<1>3. Ordered(rank, A, L.head, L.tail, L.next, L.prev, NULL)
  BY DEF IsList
<1>4. \A x \in A : x \notin Beyond(x, link)
  BY <1>2, <1>3 DEF Ranked, Ordered, Beyond, Met
<1> QED
  BY <1>1, <1>3, <1>4 DEF Ordered

-----------------------------------------------------------------------------
\* What a lookup finds: the hit of the key's bucket that it meets first.
FirstHit(h, key, e) ==
    LET hits == {x \in Chain(h, hash_key[key]) : h.ent[x].k = key}
    IN  IF hits = {} THEN e = NULL
        ELSE e \in hits /\ hits \subseteq Met(e, Below(h))

LEMMA SoundChain ==
    ASSUME NEW h, Sound(h), NEW i \in Buckets
    PROVE  Chain(h, i) \subseteq h.live /\ h.live \subseteq Entries /\ NULL \notin h.live
<1>1. Chain(h, i) \subseteq h.live
  BY DEF Sound
<1>2. h.live \subseteq Entries /\ NULL \notin Entries
  BY HashAssumption DEF Sound, Table
<1> QED
  BY <1>1, <1>2

(* Hash_get returns an entry of the key's bucket that stores the key, the  *)
(* first such (hash.c:101-116).                                            *)
LEMMA GetFinds ==
    ASSUME NEW h, Sound(h), NEW key \in Keys
    PROVE  FirstHit(h, key, Hash_get(h, key))
<1> DEFINE i == hash_key[key]
           chain == Chain(h, i)
           below == Below(h)
           hits == {x \in chain : h.ent[x].k = key}
<1>1. i \in Buckets /\ h \in Table
  BY HashAssumption DEF Buckets, Sound
<1>2. chain = Met(h.buckets[i], below)
  BY DEF Chain
<1>3. CASE hits = {}
  BY <1>2, <1>3 DEF Hash_get, FirstHit
<1>4. CASE hits # {}
  <2>1. SUFFICES \E e \in hits : hits \subseteq Met(e, below)
    <3>1. Hash_get(h, key) = CHOOSE e \in hits : hits \subseteq Met(e, below)
      BY <1>2, <1>4 DEF Hash_get
    <3> HIDE DEF hits
    <3>2. Hash_get(h, key) \in hits /\ hits \subseteq Met(Hash_get(h, key), below)
      BY <2>1, <3>1
    <3> QED
      BY <3>2, <1>4 DEF hits, FirstHit
  <2>2. SUFFICES ASSUME \A e \in hits : ~(hits \subseteq Met(e, below)) PROVE FALSE
    OBVIOUS
  <2> DEFINE S == {x \in chain : hits \subseteq Met(x, below)}
  <2>3. chain \subseteq Entries /\ NULL \notin Entries /\ below \in [Entries -> Entries \cup {NULL}]
    BY <1>1, SoundChain, LinkFacts
  <2>4. PICK rank, bottom : IsList(rank, chain, Bucket(h, i, bottom), NULL)
    BY <1>1 DEF Sound
  <2>5. Spans(h.buckets[i], below, chain, NULL) /\ h.buckets[i] \in chain \cup {NULL}
    BY <2>4 DEF IsList, Bucket, Ordered
  <2>6. h.buckets[i] # NULL => h.buckets[i] \in S
    BY <1>2, <2>5
  <2>7. ASSUME NEW x \in S, below[x] # NULL PROVE below[x] \in S
    <3>1. Met(x, below) = {x} \cup Met(below[x], below)
      BY <2>3, WayStep DEF Met
    <3>2. x \notin hits
      BY <2>2
    <3>3. hits \subseteq Met(below[x], below)
      BY <3>1, <3>2
    <3>4. below[x] \in chain
      BY <2>4, <2>7 DEF IsList, Bucket, Ordered
    <3> QED
      BY <3>3, <3>4
  <2>8. S = chain
    <3> HIDE DEF S
    <3>1. S \in SUBSET chain
      BY DEF S
    <3> QED
      BY <2>5, <2>6, <2>7, <3>1 DEF Spans
  <2> QED
    BY <1>4, <2>2, <2>8
<1> QED
  BY <1>3, <1>4

\* Lookups find an entry that stores the key, or nothing when none does.
LEMMA GetFacts ==
    ASSUME NEW h, Sound(h), NEW key \in Keys
    PROVE  /\ hash_key[key] \in Buckets
           /\ Hash_get(h, key) # NULL =>
                  /\ Hash_get(h, key) \in Chain(h, hash_key[key])
                  /\ h.ent[Hash_get(h, key)].k = key
           /\ Hash_get(h, key) = NULL =>
                  \A x \in Chain(h, hash_key[key]) : h.ent[x].k # key
<1>1. hash_key[key] \in Buckets
  BY HashAssumption DEF Buckets
<1>2. Chain(h, hash_key[key]) \subseteq h.live /\ NULL \notin h.live
  BY <1>1, SoundChain
<1> QED
  BY <1>1, <1>2, GetFinds DEF FirstHit

(* A sound table is linked as the runs check.                              *)
LEMMA SoundLinked ==
    ASSUME Sound(hash)
    PROVE  HashLinked
<1>1. /\ hash \in Table /\ hash.live \subseteq Entries /\ NULL \notin Entries
      /\ \A i \in Buckets : Chain(hash, i) \subseteq hash.live
  BY HashAssumption DEF Sound, Table
<1>2. /\ Met(hash.head, Newer(hash)) = hash.live /\ Met(hash.tail, Older(hash)) = hash.live
  BY <1>1, OrderIs DEF Sound
<1>3. \A x \in Entries \ hash.live : /\ Newer(hash)[x] = NULL /\ Older(hash)[x] = NULL
                                     /\ Below(hash)[x] = NULL /\ Above(hash)[x] = NULL
  BY <1>1, LinkFacts DEF Sound, Blank
<1>4. Opposite(Newer(hash), Older(hash))
  <2>1. PICK rank : IsList(rank, hash.live, All(hash), NULL)
    BY DEF Sound
  <2>2. \A x \in hash.live : /\ x \notin Beyond(x, Newer(hash))
                             /\ \A y \in Entries : Newer(hash)[x] = y => Older(hash)[y] = x
                             /\ \A y \in Entries : Older(hash)[x] = y => Newer(hash)[y] = x
    BY <1>1, <2>1, LinkFacts, ListOpposite DEF All
  <2>3. \A x \in Entries \ hash.live : x \notin Beyond(x, Newer(hash))
    BY <1>1, <1>3, LinkFacts, WayFromNowhere DEF Beyond, Met
  <2> QED
    BY <1>1, <1>3, <2>2, <2>3 DEF Opposite
<1>5. Opposite(Below(hash), Above(hash))
  <2>1. ASSUME NEW x \in hash.live
        PROVE  /\ x \notin Beyond(x, Below(hash))
               /\ \A y \in Entries : Below(hash)[x] = y => Above(hash)[y] = x
               /\ \A y \in Entries : Above(hash)[x] = y => Below(hash)[y] = x
    <3>1. PICK i \in Buckets : x \in Chain(hash, i)
      BY DEF Sound
    <3>2. PICK rank, bottom : IsList(rank, Chain(hash, i), Bucket(hash, i, bottom), NULL)
      BY DEF Sound
    <3> DEFINE L == Bucket(hash, i, bottom)
               A == Chain(hash, i)
    <3>3. /\ L.prev = Above(hash) /\ L.next = Below(hash)
          /\ A \subseteq Entries /\ IsList(rank, A, L, NULL) /\ x \in A
          /\ L.prev \in [Entries -> Entries \cup {NULL}] /\ L.next \in [Entries -> Entries \cup {NULL}]
      BY <1>1, <3>1, <3>2, LinkFacts DEF Bucket
    <3> HIDE DEF L, A
    <3>4. Ranked(rank, A, L, Entries, NULL) /\ Ordered(rank, A, L.head, L.tail, L.next, L.prev, NULL)
      BY <1>1, <3>3, ListWalks, Z3 DEF IsList
    <3>5. x \notin Beyond(x, L.next)
      BY <3>3, <3>4 DEF Ranked, Ordered, Beyond, Met
    <3>6. \A y \in Entries : (L.next[x] = y => L.prev[y] = x) /\ (L.prev[x] = y => L.next[y] = x)
      BY <1>1, <3>3, <3>4 DEF Ordered
    <3> QED
      BY <3>3, <3>5, <3>6
  <2>2. \A x \in Entries \ hash.live : x \notin Beyond(x, Below(hash))
    BY <1>1, <1>3, LinkFacts, WayFromNowhere DEF Beyond, Met
  <2> QED
    BY <1>1, <1>3, <2>1, <2>2 DEF Opposite
<1> QED
  BY <1>2, <1>4, <1>5 DEF Sound, HashLinked

-----------------------------------------------------------------------------
(* An empty table is sound.                                                *)
LEMMA NewSound == Sound(Hash_new) /\ \A i \in Buckets : Chain(Hash_new, i) = {}
<1> DEFINE h == Hash_new
<1>1. h \in Table
  BY DEF Table, Hash_new, Blank, Entry, Refs
<1>2. /\ h.live = {} /\ h.num_entries = 0 /\ h.head = NULL /\ h.tail = NULL
      /\ \A e \in Entries : h.ent[e] = Blank
      /\ \A i \in Buckets : h.buckets[i] = NULL
  BY DEF Hash_new
<1> HIDE DEF h
<1>3. \A rank, L : L.head = NULL /\ L.tail = NULL => IsList(rank, {}, L, NULL)
  BY DEF IsList, Ordered, Spans
<1>4. IsList([e \in Entries |-> 0], {}, All(h), NULL)
  BY <1>2, <1>3 DEF All
<1>5. ASSUME NEW i \in Buckets
      PROVE  Chain(h, i) = {} /\ IsList([e \in Entries |-> 0], {}, Bucket(h, i, NULL), NULL)
  <2>1. IsList([e \in Entries |-> 0], {}, Bucket(h, i, NULL), NULL)
    BY <1>2, <1>3 DEF Bucket
  <2>2. Chain(h, i) = {}
    BY <1>1, <1>2, LinkFacts, WayFromNowhere DEF Chain, Met
  <2> QED
    BY <2>1, <2>2
<1>6. UNION {Chain(h, i) : i \in Buckets} = {}
  BY <1>5
<1> QED
  BY <1>1, <1>2, <1>4, <1>5, <1>6, FS_EmptySet DEF Sound, h

(* The count follows the set.                                              *)
LEMMA Counted ==
    ASSUME NEW S \in SUBSET Entries
    PROVE  /\ Cardinality(S) \in Nat
           /\ \A e \in Entries \ S : Cardinality(S \cup {e}) = Cardinality(S) + 1
           /\ \A e \in S : Cardinality(S \ {e}) = Cardinality(S) - 1
<1>1. IsFiniteSet(S)
  BY HashAssumption, FS_Subset
<1> QED
  BY <1>1, FS_CardinalityType, FS_AddElement, FS_RemoveElement

\* What is written to take e, in bucket i, off both lists.
Taken(h, g, e, i) ==
    /\ g \in Table
    /\ g.live = h.live \ {e} /\ g.num_entries = h.num_entries - 1
    /\ g.tail = IF h.ent[e].newer = NULL THEN h.ent[e].older ELSE h.tail
    /\ g.head = IF h.ent[e].older = NULL THEN h.ent[e].newer ELSE h.head
    /\ g.ent[e] = Blank
    /\ \A x \in Entries \ {e} :
           /\ g.ent[x].k = h.ent[x].k /\ g.ent[x].v = h.ent[x].v
           /\ g.ent[x].newer = IF x = h.ent[e].older THEN h.ent[e].newer ELSE h.ent[x].newer
           /\ g.ent[x].older = IF x = h.ent[e].newer THEN h.ent[e].older ELSE h.ent[x].older
           /\ g.ent[x].below = IF x = h.ent[e].above THEN h.ent[e].below ELSE h.ent[x].below
           /\ g.ent[x].above = IF x = h.ent[e].below THEN h.ent[e].above ELSE h.ent[x].above
    /\ g.buckets[i] = IF h.ent[e].above = NULL THEN h.ent[e].below ELSE h.buckets[i]
    /\ \A j \in Buckets \ {i} : g.buckets[j] = h.buckets[j]

LEMMA DeletedTakes ==
    ASSUME NEW h, Sound(h), NEW key \in Keys, Hash_get(h, key) # NULL
    PROVE  Taken(h, Deleted(h, key), Hash_get(h, key), hash_key[key])
<1> DEFINE e == Hash_get(h, key)
           i == hash_key[key]
           en == Ends(h, e)
           un == Unlinked(h, e, i)
           g == Deleted(h, key)
<1>1. h \in Table /\ i \in Buckets /\ e \in h.live /\ e \in Entries
      /\ h.num_entries = Cardinality(h.live)
  BY GetFacts, SoundChain DEF Sound
<1>2. h.ent \in [Entries -> Entry] /\ h.live \subseteq Entries /\ h.head \in Refs /\ h.tail \in Refs
      /\ h.buckets \in [Buckets -> Refs] /\ h.num_entries \in Nat
  BY <1>1 DEF Table
<1>3. g = [un EXCEPT !.num_entries = @ - 1, !.live = @ \ {e}]
  BY DEF Deleted
<1>4. \A x \in Entries : h.ent[x] \in Entry
  BY <1>2
<1> HIDE DEF e, i
<1>5. h.ent[e] \in Entry /\ {h.ent[e].newer, h.ent[e].older, h.ent[e].below, h.ent[e].above} \subseteq Refs
  BY <1>1, <1>4 DEF Entry
<1> DEFINE u == Unhooked(h, e)
<1>6. /\ u \in [Entries -> Entry] /\ u[e] = Blank
      /\ \A x \in Entries \ {e} :
           /\ u[x].k = h.ent[x].k /\ u[x].v = h.ent[x].v
           /\ u[x].newer = IF x = h.ent[e].older THEN h.ent[e].newer ELSE h.ent[x].newer
           /\ u[x].older = IF x = h.ent[e].newer THEN h.ent[e].older ELSE h.ent[x].older
           /\ u[x].below = IF x = h.ent[e].above THEN h.ent[e].below ELSE h.ent[x].below
           /\ u[x].above = IF x = h.ent[e].below THEN h.ent[e].above ELSE h.ent[x].above
  <2>1. Blank \in Entry
    BY DEF Blank, Entry, Refs
  <2>2. ASSUME NEW x \in Entries
        PROVE  u[x] \in Entry /\ (x = e => u[x] = Blank) /\ (x # e =>
           /\ u[x].k = h.ent[x].k /\ u[x].v = h.ent[x].v
           /\ u[x].newer = IF x = h.ent[e].older THEN h.ent[e].newer ELSE h.ent[x].newer
           /\ u[x].older = IF x = h.ent[e].newer THEN h.ent[e].older ELSE h.ent[x].older
           /\ u[x].below = IF x = h.ent[e].above THEN h.ent[e].below ELSE h.ent[x].below
           /\ u[x].above = IF x = h.ent[e].below THEN h.ent[e].above ELSE h.ent[x].above)
    <3>1. CASE x = e
      BY <2>1, <3>1 DEF Unhooked
    <3>2. CASE x # e
      <4>1. u[x] = [h.ent[x] EXCEPT
            !.newer = IF x = h.ent[e].older THEN h.ent[e].newer ELSE @,
            !.older = IF x = h.ent[e].newer THEN h.ent[e].older ELSE @,
            !.below = IF x = h.ent[e].above THEN h.ent[e].below ELSE @,
            !.above = IF x = h.ent[e].below THEN h.ent[e].above ELSE @]
        BY <3>2 DEF Unhooked
      <4>2. h.ent[x] \in Entry
        BY <1>4
      <4> HIDE DEF u
      <4> QED
        BY <3>2, <4>1, <4>2, <1>5 DEF Entry
    <3> QED
      BY <3>1, <3>2
  <2>3. u = [x \in Entries |-> u[x]]
    BY DEF Unhooked
  <2> HIDE DEF u
  <2>4. u \in [Entries -> Entry]
    BY <2>2, <2>3
  <2> QED
    BY <1>1, <2>2, <2>4
<1>7. un = [en EXCEPT !.ent = u,
                      !.buckets[i] = IF h.ent[e].above = NULL THEN h.ent[e].below ELSE @]
  BY DEF Unlinked
<1>8. en \in Table /\ en.live = h.live /\ en.num_entries = h.num_entries /\ en.buckets = h.buckets
      /\ en.tail = (IF h.ent[e].newer = NULL THEN h.ent[e].older ELSE h.tail)
      /\ en.head = (IF h.ent[e].older = NULL THEN h.ent[e].newer ELSE h.head)
  BY <1>1, <1>2, <1>5 DEF Ends, Table
<1> HIDE DEF u, en, un, g
<1>9. un \in Table /\ un.live = h.live /\ un.num_entries = h.num_entries
      /\ un.tail = en.tail /\ un.head = en.head /\ un.ent = u
      /\ un.buckets = [h.buckets EXCEPT ![i] = IF h.ent[e].above = NULL THEN h.ent[e].below ELSE @]
  BY <1>1, <1>2, <1>5, <1>6, <1>7, <1>8 DEF Table
<1>10. g \in Table /\ g.live = h.live \ {e} /\ g.num_entries = h.num_entries - 1
      /\ g.tail = un.tail /\ g.head = un.head /\ g.ent = u /\ g.buckets = un.buckets
  <2>1. h.num_entries - 1 \in Nat
    <3>1. h.live \in SUBSET Entries /\ h.live \ {e} \in SUBSET Entries
      BY <1>2
    <3>2. Cardinality(h.live \ {e}) \in Nat
      BY <3>1, Counted
    <3>3. Cardinality(h.live \ {e}) = Cardinality(h.live) - 1
      BY <1>1, <3>1, Counted
    <3> QED
      BY <1>1, <3>2, <3>3
  <2> QED
    BY <1>3, <1>9, <2>1 DEF Table
<1>11. /\ g.buckets[i] = IF h.ent[e].above = NULL THEN h.ent[e].below ELSE h.buckets[i]
       /\ \A j \in Buckets \ {i} : g.buckets[j] = h.buckets[j]
  BY <1>1, <1>2, <1>9, <1>10
<1> QED
  BY <1>6, <1>8, <1>9, <1>10, <1>11 DEF Taken, e, i, g

(* Taking an entry off its lists takes it off them and moves no other.     *)
LEMMA TakenShrinks ==
    ASSUME NEW h, Sound(h), NEW g, NEW i \in Buckets, NEW e \in Chain(h, i), Taken(h, g, e, i)
    PROVE  Sound(g) /\ Shrinks(h, g, e)
<1>1. /\ h \in Table /\ g \in Table /\ e \in h.live /\ e \in Entries /\ e # NULL
      /\ h.live \subseteq Entries /\ NULL \notin Entries
      /\ g.live = h.live \ {e} /\ g.live \subseteq Entries
      /\ \A j \in Buckets : Chain(h, j) \subseteq h.live
  BY SoundChain, HashAssumption DEF Taken, Sound, Table
<1>2. PICK rank : IsList(rank, h.live, All(h), NULL)
  BY DEF Sound
<1>3. IsList(rank, g.live, All(g), NULL)
  <2> DEFINE L == All(h)
             M == All(g)
  <2>1. Joins(e, h.live, L, M, NULL)
    BY <1>1, LinkFacts DEF Joins, All, Taken
  <2>2. IsList(rank, h.live, L, NULL) /\ NULL \notin h.live
    BY <1>1, <1>2
  <2> HIDE DEF L, M
  <2>3. IsList(rank, h.live \ {e}, M, NULL)
    BY <2>1, <2>2, JoinedList, Z3
  <2> QED
    BY <1>1, <2>3 DEF M
<1>4. ASSUME NEW j \in Buckets
      PROVE  /\ \E r, bottom : IsList(r, Chain(g, j), Bucket(g, j, bottom), NULL)
             /\ Chain(g, j) = Chain(h, j) \ {e}
  <2>1. PICK r, bottom : IsList(r, Chain(h, j), Bucket(h, j, bottom), NULL)
    BY DEF Sound
  <2> DEFINE A == Chain(h, j)
             L == Bucket(h, j, bottom)
  <2>2. SUFFICES \E b : IsList(r, A \ {e}, Bucket(g, j, b), NULL)
    <3> HIDE DEF A
    <3>1. PICK b : IsList(r, A \ {e}, Bucket(g, j, b), NULL)
      BY <2>2
    <3>2. A \subseteq Entries
      BY <1>1 DEF A
    <3>3. Chain(g, j) = A \ {e}
      BY <1>1, <3>1, <3>2, ChainIs
    <3> QED
      BY <3>1, <3>3 DEF A
  <2>3. Ordered(r, A, L.head, L.tail, L.next, L.prev, NULL) /\ IsList(r, A, L, NULL) /\ A \subseteq h.live
    BY <1>1, <2>1 DEF IsList
  <2>4. CASE j = i
    <3> DEFINE b == IF Below(h)[e] = NULL THEN Above(h)[e] ELSE bottom
               M == Bucket(g, j, b)
    <3>1. Joins(e, A, L, M, NULL)
      BY <1>1, <2>3, <2>4, LinkFacts DEF Joins, Bucket, Taken
    <3> HIDE DEF L, M, A
    <3>2. IsList(r, A \ {e}, M, NULL)
      BY <1>1, <2>3, <3>1, JoinedList, Z3
    <3> QED
      BY <3>2 DEF M
  <2>5. CASE j # i
    <3>1. e \notin A
      BY <2>5 DEF Sound
    <3>2. h.ent[e].above \notin A /\ h.ent[e].below \notin A
      <4>1. PICK r2, b2 : IsList(r2, Chain(h, i), Bucket(h, i, b2), NULL)
        BY DEF Sound
      <4>2. Below(h)[e] \in Chain(h, i) \cup {NULL} /\ Above(h)[e] \in Chain(h, i) \cup {NULL}
        BY <4>1 DEF IsList, Ordered, Bucket
      <4>3. Chain(h, i) \cap A = {} /\ NULL \notin A
        BY <1>1, <2>3, <2>5 DEF Sound
      <4> QED
        BY <1>1, <4>2, <4>3, LinkFacts
    <3> DEFINE M == Bucket(g, j, bottom)
    <3>3. /\ M.head = L.head /\ M.tail = L.tail
          /\ \A x \in A : M.next[x] = L.next[x] /\ M.prev[x] = L.prev[x]
      <4>1. g.buckets[j] = h.buckets[j]
        BY <2>5 DEF Taken
      <4>2. ASSUME NEW x \in A
            PROVE  Below(g)[x] = Below(h)[x] /\ Above(g)[x] = Above(h)[x]
        <5>1. x \in Entries \ {e} /\ x # h.ent[e].above /\ x # h.ent[e].below
          BY <1>1, <2>3, <3>1, <3>2
        <5>2. g.ent[x].below = h.ent[x].below /\ g.ent[x].above = h.ent[x].above
          BY <5>1 DEF Taken
        <5> QED
          BY <1>1, <5>1, <5>2, LinkFacts
      <4> QED
        BY <4>1, <4>2 DEF Bucket
    <3> HIDE DEF L, M, A
    <3>4. IsList(r, A, M, NULL)
      BY <2>3, <3>3, SameList
    <3>5. A \ {e} = A
      BY <3>1
    <3> QED
      BY <3>4, <3>5 DEF M
  <2> QED
    BY <2>4, <2>5
<1>5. Sound(g)
  <2>1. \A x \in Entries \ g.live : g.ent[x] = Blank
    <3> SUFFICES ASSUME NEW x \in Entries \ g.live, x # e PROVE g.ent[x] = Blank
      BY DEF Taken
    <3>1. x \in Entries \ h.live /\ h.ent[x] = Blank /\ g.ent[x] \in Entry
      BY <1>1 DEF Sound, Table
    <3>2. x # h.ent[e].older /\ x # h.ent[e].newer /\ x # h.ent[e].above /\ x # h.ent[e].below
      <4>1. Older(h)[e] \in h.live \cup {NULL} /\ Newer(h)[e] \in h.live \cup {NULL}
        BY <1>1, <1>2 DEF IsList, Ordered, All
      <4>2. PICK r2, b2 : IsList(r2, Chain(h, i), Bucket(h, i, b2), NULL)
        BY DEF Sound
      <4>3. Below(h)[e] \in Chain(h, i) \cup {NULL} /\ Above(h)[e] \in Chain(h, i) \cup {NULL}
        BY <4>2 DEF IsList, Ordered, Bucket
      <4> QED
        BY <1>1, <3>1, <4>1, <4>3, LinkFacts
    <3>3. /\ g.ent[x].k = NULL /\ g.ent[x].v = NULL
          /\ g.ent[x].newer = NULL /\ g.ent[x].older = NULL
          /\ g.ent[x].below = NULL /\ g.ent[x].above = NULL
      BY <3>1, <3>2 DEF Taken, Blank
    <3> QED
      BY <3>1, <3>3 DEF Entry, Blank
  <2>2. g.num_entries = Cardinality(g.live)
    <3>1. h.live \in SUBSET Entries
      BY <1>1
    <3>2. Cardinality(h.live \ {e}) = Cardinality(h.live) - 1
      BY <1>1, <3>1, Counted
    <3> QED
      BY <1>1, <3>2 DEF Taken, Sound
  <2>3. UNION {Chain(g, j) : j \in Buckets} = g.live
    <3>1. UNION {Chain(h, j) : j \in Buckets} = h.live
      BY DEF Sound
    <3>2. \A x : (\E j \in Buckets : x \in Chain(g, j)) <=> (x # e /\ \E j \in Buckets : x \in Chain(h, j))
      BY <1>4
    <3> QED
      BY <1>1, <3>1, <3>2
  <2>4. \A j, k \in Buckets : j # k => Chain(g, j) \cap Chain(g, k) = {}
    BY <1>4 DEF Sound
  <2> QED
    BY <1>1, <1>3, <1>4, <2>1, <2>2, <2>3, <2>4 DEF Sound
<1>6. SameContents(g.live, h, g)
  BY <1>1 DEF SameContents, Taken
<1>7. SameOrder(g.live, h, g)
  <2>1. \A x \in h.live : Beyond(x, Newer(h)) = {y \in h.live : rank[x] < rank[y]}
    BY <1>1, <1>2, OrderIs
  <2>2. \A x \in g.live : Beyond(x, Newer(g)) = {y \in g.live : rank[x] < rank[y]}
    BY <1>1, <1>3, OrderIs
  <2> QED
    BY <1>1, <2>1, <2>2 DEF SameOrder
<1> QED
  BY <1>1, <1>4, <1>5, <1>6, <1>7 DEF Shrinks
\* What is written to put a new entry e on both lists, in bucket i.
Added(h, g, e, i, k, v) ==
    /\ g \in Table
    /\ g.live = h.live \cup {e} /\ g.num_entries = h.num_entries + 1
    /\ g.tail = e /\ g.head = IF h.head = NULL THEN e ELSE h.head
    /\ g.buckets[i] = e
    /\ \A j \in Buckets \ {i} : g.buckets[j] = h.buckets[j]
    /\ g.ent[e] = [k |-> k, v |-> v, newer |-> NULL, older |-> h.tail,
                   below |-> h.buckets[i], above |-> NULL]
    /\ \A x \in Entries \ {e} :
           /\ g.ent[x].k = h.ent[x].k /\ g.ent[x].v = h.ent[x].v
           /\ g.ent[x].newer = IF x = h.tail THEN e ELSE h.ent[x].newer
           /\ g.ent[x].older = h.ent[x].older
           /\ g.ent[x].below = h.ent[x].below
           /\ g.ent[x].above = IF x = h.buckets[i] THEN e ELSE h.ent[x].above

LEMMA InsertedAdds ==
    ASSUME NEW h, Sound(h), NEW e \in Entries \ h.live, NEW key \in Keys, NEW value \in Values
    PROVE  Added(h, Inserted(h, e, key, value), e, hash_key[key], Cut[key], value)
<1> DEFINE i == hash_key[key]
           new == [h EXCEPT !.num_entries = @ + 1, !.live = @ \cup {e},
                            !.ent[e].k = Cut[key], !.ent[e].v = value]
           app == Appended(new, e)
           g == Stacked(app, e, i)
<1>1. /\ h.ent \in [Entries -> Entry] /\ h.live \subseteq Entries /\ h.head \in Refs /\ h.tail \in Refs
      /\ h.buckets \in [Buckets -> Refs] /\ h.num_entries \in Nat /\ h \in Table
      /\ i \in Buckets /\ Cut[key] \in Keys /\ h.ent[e] = Blank /\ e # NULL /\ e \in Entries
  BY HashAssumption DEF Sound, Table, Buckets
<1>2. (h.head = NULL <=> h.tail = NULL) /\ h.head \in h.live \cup {NULL} /\ h.tail \in h.live \cup {NULL}
  BY DEF Sound, IsList, Ordered, All
<1>3. h.buckets[i] \in h.live \cup {NULL}
  <2>1. PICK r, b : IsList(r, Chain(h, i), Bucket(h, i, b), NULL)
    BY <1>1 DEF Sound
  <2> QED
    BY <1>1, <2>1, SoundChain DEF IsList, Ordered, Bucket
<1>4. g = Inserted(h, e, key, value)
  BY DEF Inserted
<1> DEFINE fresh == [k |-> Cut[key], v |-> value, newer |-> NULL, older |-> NULL,
                     below |-> NULL, above |-> NULL]
           ent == [h.ent EXCEPT ![e] = fresh]
<1>5. /\ new \in Table /\ new.head = h.head /\ new.tail = h.tail /\ new.buckets = h.buckets
      /\ new.num_entries = h.num_entries + 1 /\ new.live = h.live \cup {e}
      /\ new.ent = ent
  <2>1. fresh \in Entry
    BY <1>1 DEF Entry, Refs
  <2> DEFINE b1 == [Blank EXCEPT !.k = Cut[key]]
  <2>2. [b1 EXCEPT !.v = value] = fresh
    <3>1. b1 = [k |-> Cut[key], v |-> NULL, newer |-> NULL, older |-> NULL,
                below |-> NULL, above |-> NULL]
      BY DEF Blank
    <3> HIDE DEF b1
    <3> QED
      BY <3>1
  <2>3. [[h.ent EXCEPT ![e].k = Cut[key]] EXCEPT ![e].v = value] = ent
    <3>1. [h.ent EXCEPT ![e].k = Cut[key]] = [h.ent EXCEPT ![e] = [Blank EXCEPT !.k = Cut[key]]]
      BY <1>1
    <3> HIDE DEF b1, fresh
    <3>2. [[h.ent EXCEPT ![e] = b1] EXCEPT ![e] = [b1 EXCEPT !.v = value]] = ent
      BY <1>1, <2>2 DEF b1
    <3>3. [[h.ent EXCEPT ![e] = b1] EXCEPT ![e].v = value] =
             [[h.ent EXCEPT ![e] = b1] EXCEPT ![e] = [b1 EXCEPT !.v = value]]
      BY <1>1
    <3> QED
      BY <3>1, <3>2, <3>3 DEF b1
  <2>4. ent \in [Entries -> Entry]
    <3> HIDE DEF fresh
    <3> QED
      BY <1>1, <2>1
  <2> HIDE DEF ent
  <2>5. new = [h EXCEPT !.num_entries = @ + 1, !.live = @ \cup {e}, !.ent = ent]
    BY <1>1, <2>3 DEF Table
  <2>6. h.live \cup {e} \in SUBSET Entries /\ h.num_entries + 1 \in Nat
    BY <1>1
  <2> HIDE DEF new
  <2> QED
    BY <1>1, <2>4, <2>5, <2>6 DEF Table
<1> HIDE DEF new, app, g, i
<1> DEFINE mid == [k |-> Cut[key], v |-> value, newer |-> NULL, older |-> h.tail,
                   below |-> NULL, above |-> NULL]
           last == [k |-> Cut[key], v |-> value, newer |-> NULL, older |-> h.tail,
                    below |-> h.buckets[i], above |-> NULL]
<1>7. /\ app \in Table /\ app.tail = e /\ app.head = (IF h.head = NULL THEN e ELSE h.head)
      /\ app.buckets = h.buckets /\ app.num_entries = h.num_entries + 1 /\ app.live = h.live \cup {e}
      /\ app.ent[e] = mid
      /\ \A x \in Entries \ {e} :
            app.ent[x] = IF x = h.tail THEN [h.ent[x] EXCEPT !.newer = e] ELSE h.ent[x]
  <2>1. CASE h.head = NULL
    <3>1. app = [new EXCEPT !.head = e, !.tail = e]
      BY <1>5, <2>1 DEF app, Appended
    <3>2. mid = fresh /\ h.tail = NULL
      BY <1>2, <2>1
    <3>3. /\ app \in Table /\ app.head = e /\ app.tail = e /\ app.ent = new.ent
          /\ app.buckets = new.buckets /\ app.num_entries = new.num_entries /\ app.live = new.live
      BY <1>1, <1>5, <3>1 DEF Table, Refs
    <3> HIDE DEF mid
    <3>4. app.ent[e] = mid /\ \A x \in Entries \ {e} : app.ent[x] = h.ent[x]
      BY <1>1, <1>5, <3>2, <3>3
    <3>5. NULL \notin Entries
      BY HashAssumption
    <3> QED
      BY <1>5, <2>1, <3>2, <3>3, <3>4, <3>5
  <2>2. CASE h.head # NULL
    <3>1. app = [new EXCEPT !.ent[e].older = new.tail, !.ent[new.tail].newer = e, !.tail = e]
      BY <1>5, <2>2 DEF app, Appended
    <3>2. h.tail \in h.live /\ h.tail # e /\ h.tail \in Entries
      BY <1>1, <1>2, <2>2
    <3> DEFINE n1 == [new.ent EXCEPT ![e] = [@ EXCEPT !.older = h.tail]]
               n2 == [n1 EXCEPT ![h.tail] = [@ EXCEPT !.newer = e]]
    <3> HIDE DEF ent
    <3>3. /\ app.head = h.head /\ app.tail = e /\ app.ent = n2
          /\ app.buckets = new.buckets /\ app.num_entries = new.num_entries /\ app.live = new.live
      BY <1>1, <1>5, <3>1 DEF Table
    <3>4. n1 = [h.ent EXCEPT ![e] = mid]
      BY <1>1, <1>5 DEF ent
    <3>5. n2 = [h.ent EXCEPT ![e] = mid, ![h.tail] = [@ EXCEPT !.newer = e]]
      BY <3>2, <3>4
    <3>6. mid \in Entry /\ [h.ent[h.tail] EXCEPT !.newer = e] \in Entry
      <4>1. mid \in Entry
        BY <1>1 DEF Entry, Refs
      <4>2. h.ent[h.tail] \in Entry
        BY <1>1, <3>2
      <4> QED
        BY <1>1, <4>1, <4>2 DEF Entry, Refs
    <3> HIDE DEF mid, n1, n2
    <3>7. /\ n2 \in [Entries -> Entry] /\ n2[e] = mid
          /\ \A x \in Entries \ {e} :
                n2[x] = IF x = h.tail THEN [h.ent[x] EXCEPT !.newer = e] ELSE h.ent[x]
      BY <1>1, <3>2, <3>5, <3>6
    <3>8. app \in Table
      BY <1>1, <1>5, <3>1, <3>3, <3>7 DEF Table, Refs
    <3> QED
      BY <1>5, <2>2, <3>3, <3>7, <3>8
  <2> QED
    BY <2>1, <2>2
<1>8. /\ g \in Table /\ g.tail = e /\ g.head = app.head
      /\ g.buckets = [h.buckets EXCEPT ![i] = e] /\ g.num_entries = h.num_entries + 1
      /\ g.live = h.live \cup {e}
      /\ g.ent[e] = last
      /\ \A x \in Entries \ {e} :
            g.ent[x] = IF x = h.buckets[i] THEN [app.ent[x] EXCEPT !.above = e] ELSE app.ent[x]
  <2>1. CASE h.buckets[i] = NULL
    <3>1. g = [app EXCEPT !.buckets[i] = e]
      BY <1>7, <2>1 DEF g, Stacked
    <3>2. mid = last
      BY <2>1
    <3> HIDE DEF mid, last
    <3>3. /\ g \in Table /\ g.head = app.head /\ g.tail = app.tail /\ g.ent = app.ent
          /\ g.buckets = [h.buckets EXCEPT ![i] = e]
          /\ g.num_entries = app.num_entries /\ g.live = app.live
      <4>1. [h.buckets EXCEPT ![i] = e] \in [Buckets -> Refs]
        BY <1>1 DEF Refs
      <4> QED
        BY <1>1, <1>7, <3>1, <4>1 DEF Table
    <3>4. NULL \notin Entries
      BY HashAssumption
    <3> QED
      BY <1>7, <2>1, <3>2, <3>3, <3>4
  <2>2. CASE h.buckets[i] # NULL
    <3>1. g = [app EXCEPT !.ent[e].below = app.buckets[i], !.ent[app.buckets[i]].above = e,
                          !.buckets[i] = e]
      BY <1>7, <2>2 DEF g, Stacked
    <3> DEFINE top == h.buckets[i]
    <3>2. top \in h.live /\ top # e /\ top \in Entries
      BY <1>1, <1>3, <2>2
    <3> DEFINE n1 == [app.ent EXCEPT ![e] = [@ EXCEPT !.below = top]]
               n2 == [n1 EXCEPT ![top] = [@ EXCEPT !.above = e]]
    <3> HIDE DEF top
    <3>3. /\ g.head = app.head /\ g.tail = app.tail /\ g.ent = n2
          /\ g.buckets = [h.buckets EXCEPT ![i] = e]
          /\ g.num_entries = app.num_entries /\ g.live = app.live
      BY <1>1, <1>7, <3>1 DEF Table, top
    <3>4. app.ent \in [Entries -> Entry] /\ \A x \in Entries : app.ent[x] \in Entry
      BY <1>7 DEF Table
    <3>5. [app.ent[e] EXCEPT !.below = top] = last
      BY <1>7 DEF top
    <3>6. last \in Entry /\ [app.ent[top] EXCEPT !.above = e] \in Entry
      <4>1. last \in Entry
        BY <1>1 DEF Entry, Refs
      <4> HIDE DEF last
      <4> QED
        BY <1>1, <3>2, <3>4, <4>1 DEF Entry, Refs
    <3> HIDE DEF last
    <3>7. n2 = [app.ent EXCEPT ![e] = last, ![top] = [@ EXCEPT !.above = e]]
      BY <3>2, <3>4, <3>5
    <3> HIDE DEF n1, n2
    <3>8. /\ n2 \in [Entries -> Entry] /\ n2[e] = last
          /\ \A x \in Entries \ {e} :
                n2[x] = IF x = top THEN [app.ent[x] EXCEPT !.above = e] ELSE app.ent[x]
      BY <1>1, <3>2, <3>4, <3>6, <3>7
    <3>9. g \in Table
      <4>1. [h.buckets EXCEPT ![i] = e] \in [Buckets -> Refs]
        BY <1>1 DEF Refs
      <4> QED
        BY <1>1, <1>7, <3>1, <3>3, <3>8, <4>1 DEF Table
    <3> QED
      BY <1>7, <3>3, <3>8, <3>9 DEF top
  <2> QED
    BY <2>1, <2>2
<1>9. \A x \in Entries \ {e} :
           /\ g.ent[x].k = h.ent[x].k /\ g.ent[x].v = h.ent[x].v
           /\ g.ent[x].newer = IF x = h.tail THEN e ELSE h.ent[x].newer
           /\ g.ent[x].older = h.ent[x].older
           /\ g.ent[x].below = h.ent[x].below
           /\ g.ent[x].above = IF x = h.buckets[i] THEN e ELSE h.ent[x].above
  <2> SUFFICES ASSUME NEW x \in Entries \ {e}
      PROVE  /\ g.ent[x].k = h.ent[x].k /\ g.ent[x].v = h.ent[x].v
             /\ g.ent[x].newer = IF x = h.tail THEN e ELSE h.ent[x].newer
             /\ g.ent[x].older = h.ent[x].older
             /\ g.ent[x].below = h.ent[x].below
             /\ g.ent[x].above = IF x = h.buckets[i] THEN e ELSE h.ent[x].above
    OBVIOUS
  <2>1. h.ent[x] \in Entry
    BY <1>1
  <2>2. app.ent[x] = IF x = h.tail THEN [h.ent[x] EXCEPT !.newer = e] ELSE h.ent[x]
    BY <1>7
  <2>3. g.ent[x] = IF x = h.buckets[i] THEN [app.ent[x] EXCEPT !.above = e] ELSE app.ent[x]
    BY <1>8
  <2> QED
    BY <2>1, <2>2, <2>3 DEF Entry
<1>10. g.buckets[i] = e /\ \A j \in Buckets \ {i} : g.buckets[j] = h.buckets[j]
  BY <1>1, <1>8
<1> QED
  BY <1>4, <1>7, <1>8, <1>9, <1>10 DEF Added, i
(* Adding an entry puts it last on both lists and moves no other.          *)
LEMMA AddedGrows ==
    ASSUME NEW h, Sound(h), NEW g, NEW i \in Buckets, NEW e \in Entries \ h.live,
           NEW k, NEW v, Added(h, g, e, i, k, v)
    PROVE  Sound(g) /\ Grows(h, g, e, i) /\ g.ent[e].k = k /\ g.ent[e].v = v
<1>1. /\ h \in Table /\ g \in Table /\ e \in Entries /\ e # NULL /\ e \notin h.live
      /\ h.live \subseteq Entries /\ NULL \notin Entries
      /\ g.live = h.live \cup {e} /\ g.live \subseteq Entries
      /\ \A j \in Buckets : Chain(h, j) \subseteq h.live
  BY SoundChain, HashAssumption DEF Added, Sound, Table
<1>2. PICK rank0 : IsList(rank0, h.live, All(h), NULL)
  BY DEF Sound
<1>3. \E r : IsList(r, g.live, All(g), NULL) /\ \A x \in h.live : r[x] = rank0[x]
  <2> DEFINE L == All(h)
             M == All(g)
  <2>1. Appends(e, h.live, L, M, NULL)
    <3>1. Ordered(rank0, h.live, L.head, L.tail, L.next, L.prev, NULL)
      BY <1>2 DEF IsList
    <3>2. /\ M.tail = e /\ M.head = IF L.head = NULL THEN e ELSE L.head
          /\ M.next[e] = L.tail /\ M.prev[e] = NULL
      BY <1>1, LinkFacts DEF All, Added
    <3>3. ASSUME NEW x \in h.live
          PROVE  M.next[x] = L.next[x] /\ M.prev[x] = IF x = L.tail THEN e ELSE L.prev[x]
      <4>1. x \in Entries \ {e}
        BY <1>1
      <4>2. g.ent[x].older = h.ent[x].older /\ g.ent[x].newer = IF x = h.tail THEN e ELSE h.ent[x].newer
        BY <4>1 DEF Added
      <4> QED
        BY <1>1, <4>1, <4>2, LinkFacts DEF All
    <3> QED
      BY <1>1, <3>2, <3>3 DEF Appends
  <2> DEFINE A == h.live
  <2>2. Lengthens(rank0, e, A, L, M, NULL)
    BY <1>1, <1>2, <2>1 DEF Lengthens
  <2> HIDE DEF L, M, A
  <2>3. \E r : RankedAs(r, rank0, e, A, M, NULL)
    BY <2>2, AppendedList
  <2> QED
    BY <1>1, <2>3 DEF A, M, RankedAs
<1>4. PICK rank : IsList(rank, g.live, All(g), NULL) /\ \A x \in h.live : rank[x] = rank0[x]
  BY <1>3
<1>5. ASSUME NEW j \in Buckets
      PROVE  /\ \E r, bottom : IsList(r, Chain(g, j), Bucket(g, j, bottom), NULL)
             /\ Chain(g, j) = IF j = i THEN Chain(h, j) \cup {e} ELSE Chain(h, j)
  <2>1. PICK r, bottom : IsList(r, Chain(h, j), Bucket(h, j, bottom), NULL)
    BY DEF Sound
  <2> DEFINE A == Chain(h, j)
             L == Bucket(h, j, bottom)
             B == IF j = i THEN A \cup {e} ELSE A
  <2>2. SUFFICES \E s, b : IsList(s, B, Bucket(g, j, b), NULL)
    <3> HIDE DEF B
    <3>1. PICK s, b : IsList(s, B, Bucket(g, j, b), NULL)
      BY <2>2
    <3>2. B \subseteq Entries
      BY <1>1 DEF B
    <3>3. Chain(g, j) = B
      BY <1>1, <3>1, <3>2, ChainIs
    <3> QED
      BY <3>1, <3>3 DEF B
  <2>3. Ordered(r, A, L.head, L.tail, L.next, L.prev, NULL) /\ IsList(r, A, L, NULL) /\ A \subseteq h.live
    BY <1>1, <2>1 DEF IsList
  <2>4. CASE j = i
    <3> DEFINE b == IF bottom = NULL THEN e ELSE bottom
               M == Bucket(g, j, b)
    <3>1. Appends(e, A, L, M, NULL)
      <4>1. /\ M.tail = e /\ M.head = IF L.head = NULL THEN e ELSE L.head
            /\ M.next[e] = L.tail /\ M.prev[e] = NULL
        BY <1>1, <2>4, LinkFacts DEF Bucket, Added
      <4>2. ASSUME NEW x \in A
            PROVE  M.next[x] = L.next[x] /\ M.prev[x] = IF x = L.tail THEN e ELSE L.prev[x]
        <5>1. x \in Entries \ {e}
          BY <1>1, <2>3
        <5>2. g.ent[x].below = h.ent[x].below /\ g.ent[x].above = IF x = h.buckets[i] THEN e ELSE h.ent[x].above
          BY <5>1 DEF Added
        <5> QED
          BY <1>1, <2>4, <5>1, <5>2, LinkFacts DEF Bucket
      <4>3. e \notin A
        BY <1>1, <2>3
      <4> QED
        BY <1>1, <4>1, <4>2, <4>3 DEF Appends
    <3> HIDE DEF L, M, A
    <3>2. Lengthens(r, e, A, L, M, NULL)
      BY <1>1, <2>3, <3>1 DEF Lengthens
    <3>3. \E s : IsList(s, A \cup {e}, M, NULL)
      BY <3>2, AppendedList DEF RankedAs
    <3> QED
      BY <2>4, <3>3 DEF M
  <2>5. CASE j # i
    <3>1. h.buckets[i] \notin A
      <4>1. PICK r2, b2 : IsList(r2, Chain(h, i), Bucket(h, i, b2), NULL)
        BY DEF Sound
      <4>2. h.buckets[i] \in Chain(h, i) \cup {NULL}
        BY <4>1 DEF IsList, Ordered, Bucket
      <4>3. Chain(h, i) \cap A = {} /\ NULL \notin A
        BY <1>1, <2>3, <2>5 DEF Sound
      <4> QED
        BY <4>2, <4>3
    <3> DEFINE M == Bucket(g, j, bottom)
    <3>2. /\ M.head = L.head /\ M.tail = L.tail
          /\ \A x \in A : M.next[x] = L.next[x] /\ M.prev[x] = L.prev[x]
      <4>1. g.buckets[j] = h.buckets[j]
        BY <2>5 DEF Added
      <4>2. ASSUME NEW x \in A
            PROVE  Below(g)[x] = Below(h)[x] /\ Above(g)[x] = Above(h)[x]
        <5>1. x \in Entries \ {e} /\ x # h.buckets[i]
          BY <1>1, <2>3, <3>1
        <5>2. g.ent[x].below = h.ent[x].below /\ g.ent[x].above = h.ent[x].above
          BY <5>1 DEF Added
        <5> QED
          BY <1>1, <5>1, <5>2, LinkFacts
      <4> QED
        BY <4>1, <4>2 DEF Bucket
    <3> HIDE DEF L, M, A
    <3>3. IsList(r, A, M, NULL)
      BY <2>3, <3>2, SameList
    <3> QED
      BY <2>5, <3>3 DEF M
  <2> QED
    BY <2>4, <2>5
<1>6. Sound(g)
  <2>1. \A x \in Entries \ g.live : g.ent[x] = Blank
    <3> SUFFICES ASSUME NEW x \in Entries \ g.live PROVE g.ent[x] = Blank
      OBVIOUS
    <3>1. x \in Entries \ h.live /\ x # e /\ h.ent[x] = Blank /\ g.ent[x] \in Entry
      BY <1>1 DEF Sound, Table
    <3>2. x # h.tail /\ x # h.buckets[i]
      <4>1. h.tail \in h.live \cup {NULL}
        BY <1>1, <1>2 DEF IsList, Ordered, All
      <4>2. PICK r2, b2 : IsList(r2, Chain(h, i), Bucket(h, i, b2), NULL)
        BY DEF Sound
      <4>3. h.buckets[i] \in Chain(h, i) \cup {NULL}
        BY <4>2 DEF IsList, Ordered, Bucket
      <4> QED
        BY <1>1, <3>1, <4>1, <4>3
    <3>3. /\ g.ent[x].k = NULL /\ g.ent[x].v = NULL
          /\ g.ent[x].newer = NULL /\ g.ent[x].older = NULL
          /\ g.ent[x].below = NULL /\ g.ent[x].above = NULL
      BY <3>1, <3>2 DEF Added, Blank
    <3> QED
      BY <3>1, <3>3 DEF Entry, Blank
  <2>2. g.num_entries = Cardinality(g.live)
    <3>1. h.live \in SUBSET Entries
      BY <1>1
    <3>2. Cardinality(h.live \cup {e}) = Cardinality(h.live) + 1
      BY <1>1, <3>1, Counted
    <3> QED
      BY <1>1, <3>2 DEF Added, Sound
  <2>3. UNION {Chain(g, j) : j \in Buckets} = g.live
    <3>1. UNION {Chain(h, j) : j \in Buckets} = h.live
      BY DEF Sound
    <3>2. \A x : (\E j \in Buckets : x \in Chain(g, j)) <=> (x = e \/ \E j \in Buckets : x \in Chain(h, j))
      BY <1>5
    <3> QED
      BY <1>1, <3>1, <3>2
  <2>4. ASSUME NEW j \in Buckets, NEW m \in Buckets, j # m
        PROVE  Chain(g, j) \cap Chain(g, m) = {}
    <3>1. Chain(h, j) \cap Chain(h, m) = {} /\ e \notin Chain(h, j) /\ e \notin Chain(h, m)
      BY <1>1, <2>4 DEF Sound
    <3> QED
      BY <1>5, <2>4, <3>1
  <2> QED
    BY <1>1, <1>4, <1>5, <2>1, <2>2, <2>3, <2>4 DEF Sound
<1>7. SameContents(h.live, h, g)
  BY <1>1 DEF SameContents, Added
<1>8. \A x \in g.live : Beyond(x, Newer(g)) = {y \in g.live : rank[x] < rank[y]}
  BY <1>1, <1>4, OrderIs
<1>9. SameOrder(h.live, h, g)
  <2>1. \A x \in h.live : Beyond(x, Newer(h)) = {y \in h.live : rank0[x] < rank0[y]}
    BY <1>1, <1>2, OrderIs
  <2> QED
    BY <1>1, <1>4, <1>8, <2>1 DEF SameOrder
<1>10. \A x \in h.live : rank[x] < rank[e]
  <2>1. Ordered(rank, g.live, g.head, g.tail, Older(g), Newer(g), NULL)
    BY <1>4 DEF IsList, All
  <2>2. g.tail = e
    BY DEF Added
  <2>3. \A x \in g.live : rank[x] \in Nat /\ rank[x] <= rank[e] /\ (rank[x] = rank[e] => x = e)
    BY <1>1, <2>1, <2>2 DEF Ordered
  <2> QED
    BY <1>1, <2>3
<1>11. \A x \in g.live : rank[x] \in Nat
  BY <1>4 DEF IsList, Ordered
<1>12. \A x \in h.live : e \in Beyond(x, Newer(g))
  BY <1>1, <1>8, <1>10
<1>13. \A y \in g.live : y \notin Beyond(e, Newer(g))
  BY <1>1, <1>8, <1>10, <1>11
<1>14. g.ent[e].k = k /\ g.ent[e].v = v
  BY DEF Added
<1> QED
  BY <1>1, <1>5, <1>6, <1>7, <1>9, <1>12, <1>13, <1>14 DEF Grows
-----------------------------------------------------------------------------
\* A key too long to be stored whole is not stored in the bucket of what is
\* stored: else it would be found under a name that is not its own.
CutsApart == \A key \in Keys : Cut[key] # key => hash_key[Cut[key]] # hash_key[key]

\* Every entry is in the bucket of a key it stores; lookups find at most one.
Keyed(h) ==
    \A i \in Buckets : \A e \in Chain(h, i) :
        \E key \in Keys : hash_key[key] = i /\ h.ent[e].k = Cut[key]

Unique(h) ==
    \A key \in Keys : \A e, f \in Chain(h, hash_key[key]) :
        h.ent[e].k = key /\ h.ent[f].k = key => e = f

Good(h) == Sound(h) /\ Keyed(h) /\ Unique(h)

(* A key that is stored whole is stored as itself.                         *)
LEMMA CutFacts ==
    ASSUME NEW key \in Keys
    PROVE  /\ Cut[key] \in Keys /\ Cut[Cut[key]] = Cut[key]
           /\ hash_key[key] \in Buckets /\ hash_key[Cut[key]] \in Buckets
  BY HashAssumption DEF Buckets

(* What Hash_del leaves: no entry is found under the key, and no other is  *)
(* touched.                                                                *)
LEMMA DeletedShrinks ==
    ASSUME NEW h, Sound(h), NEW key \in Keys
    PROVE  LET e == Hash_get(h, key)
               g == Deleted(h, key)
           IN  /\ Sound(g)
               /\ e = NULL => g = h
               /\ e # NULL => Shrinks(h, g, e) /\ e \in h.live
<1>1. CASE Hash_get(h, key) = NULL
  BY <1>1 DEF Deleted
<1>2. CASE Hash_get(h, key) # NULL
  <2> DEFINE e == Hash_get(h, key)
             g == Deleted(h, key)
             i == hash_key[key]
  <2>1. i \in Buckets /\ e \in Chain(h, i) /\ e \in h.live
    BY <1>2, GetFacts, SoundChain
  <2>2. Taken(h, g, e, i)
    BY <1>2, DeletedTakes
  <2> HIDE DEF e, g, i
  <2>3. Sound(g) /\ Shrinks(h, g, e)
    BY <2>1, <2>2, TakenShrinks
  <2> QED
    BY <1>2, <2>1, <2>3 DEF e, g
<1> QED
  BY <1>1, <1>2

LEMMA ShrunkGood ==
    ASSUME NEW h, Good(h), NEW g, Sound(g), NEW e, Shrinks(h, g, e)
    PROVE  Good(g)
<1>1. \A i \in Buckets : \A x \in Chain(g, i) : x \in Chain(h, i) /\ g.ent[x].k = h.ent[x].k
  BY SoundChain DEF Good, Shrinks, SameContents
<1>2. Keyed(g)
  BY <1>1 DEF Good, Keyed
<1>3. Unique(g)
  BY <1>1, CutFacts DEF Good, Unique
<1> QED
  BY <1>2, <1>3 DEF Good

LEMMA DeletedGood ==
    ASSUME NEW h, Good(h), NEW key \in Keys
    PROVE  /\ Good(Deleted(h, key))
           /\ \A x \in Chain(Deleted(h, key), hash_key[key]) : Deleted(h, key).ent[x].k # key
<1> DEFINE e == Hash_get(h, key)
           g == Deleted(h, key)
           i == hash_key[key]
<1>1. Sound(g) /\ (e = NULL => g = h) /\ (e # NULL => Shrinks(h, g, e))
  BY DeletedShrinks DEF Good
<1>2. /\ e = NULL => \A x \in Chain(h, i) : h.ent[x].k # key
      /\ e # NULL => e \in Chain(h, i) /\ h.ent[e].k = key
      /\ i \in Buckets
  BY GetFacts DEF Good
<1> HIDE DEF e, g, i
<1>3. CASE e = NULL
  BY <1>1, <1>2, <1>3 DEF g, i
<1>4. CASE e # NULL
  <2>1. Good(g)
    BY <1>1, <1>4, ShrunkGood
  <2>2. ASSUME NEW x \in Chain(g, i) PROVE g.ent[x].k # key
    <3>1. x \in Chain(h, i) /\ x # e /\ g.ent[x].k = h.ent[x].k
      BY <1>1, <1>2, <1>4, <2>2, SoundChain DEF Shrinks, SameContents
    <3> QED
      BY <1>2, <1>4, <3>1 DEF Good, Unique, i
  <2> QED
    BY <2>1, <2>2 DEF g, i
<1> QED
  BY <1>3, <1>4

LEMMA InsertedGrows ==
    ASSUME NEW h, Sound(h), NEW e \in Entries \ h.live, NEW key \in Keys, NEW value \in Values
    PROVE  LET g == Inserted(h, e, key, value)
           IN  /\ Sound(g) /\ Grows(h, g, e, hash_key[key])
               /\ g.ent[e].k = Cut[key] /\ g.ent[e].v = value
<1> DEFINE g == Inserted(h, e, key, value)
           i == hash_key[key]
           k == Cut[key]
<1>1. Added(h, g, e, i, k, value) /\ i \in Buckets
  BY InsertedAdds, CutFacts
<1> HIDE DEF g, i, k
<1>2. Sound(g) /\ Grows(h, g, e, i) /\ g.ent[e].k = k /\ g.ent[e].v = value
  BY <1>1, AddedGrows
<1> QED
  BY <1>2 DEF g, i, k

(* A new entry keeps lookups unambiguous if nothing was found under its key. *)
LEMMA GrownGood ==
    ASSUME CutsApart, NEW h, Good(h), NEW key \in Keys,
           \A x \in Chain(h, hash_key[key]) : h.ent[x].k # key,
           NEW e \in Entries, NEW g, Sound(g), Grows(h, g, e, hash_key[key]), g.ent[e].k = Cut[key]
    PROVE  Good(g)
<1>1. \A i \in Buckets : \A x \in Chain(g, i) :
         \/ x \in Chain(h, i) /\ g.ent[x].k = h.ent[x].k
         \/ x = e /\ i = hash_key[key]
  BY SoundChain DEF Good, Grows, SameContents
<1>2. Keyed(g)
  BY <1>1 DEF Good, Keyed
<1>3. ASSUME NEW k \in Keys, NEW x \in Chain(g, hash_key[k]), g.ent[x].k = k, x # e
      PROVE  x \in Chain(h, hash_key[k]) /\ h.ent[x].k = k
  BY <1>1, <1>3, CutFacts
<1>4. ASSUME NEW k \in Keys, e \in Chain(g, hash_key[k]), g.ent[e].k = k
      PROVE  k = key
  <2>1. e \notin Chain(h, hash_key[k])
    BY SoundChain, CutFacts DEF Good, Grows
  <2>2. hash_key[k] = hash_key[key] /\ k = Cut[key]
    BY <1>1, <1>4, <2>1, CutFacts
  <2> QED
    BY <2>2 DEF CutsApart
<1>5. Unique(g)
  BY <1>3, <1>4 DEF Good, Unique
<1> QED
  BY <1>2, <1>5 DEF Good
-----------------------------------------------------------------------------
\* Found and FoundOrder of a table.
VisibleIn(h) == {e \in h.live : Hash_get(h, h.ent[e].k) = e}
FoundIn(h) == {<<h.ent[e].k, h.ent[e].v>> : e \in VisibleIn(h)}
OrderIn(h) ==
    {<<h.ent[p[1]].k, h.ent[p[2]].k>> : p \in
        {q \in VisibleIn(h) \X VisibleIn(h) : q[2] \in Beyond(q[1], Newer(h))}}

\* The same sets, by their members.
LEMMA FoundMembers ==
    ASSUME NEW h
    PROVE  /\ \A p : p \in FoundIn(h) <=>
                 \E e \in VisibleIn(h) : p = <<h.ent[e].k, h.ent[e].v>>
           /\ \A p : p \in OrderIn(h) <=>
                 \E e, f \in VisibleIn(h) :
                     f \in Beyond(e, Newer(h)) /\ p = <<h.ent[e].k, h.ent[f].k>>
<1>1. \A p : p \in FoundIn(h) <=> \E e \in VisibleIn(h) : p = <<h.ent[e].k, h.ent[e].v>>
  BY DEF FoundIn
<1>2. ASSUME NEW p, p \in OrderIn(h)
      PROVE  \E e, f \in VisibleIn(h) :
                 f \in Beyond(e, Newer(h)) /\ p = <<h.ent[e].k, h.ent[f].k>>
  <2>1. PICK q \in VisibleIn(h) \X VisibleIn(h) :
           q[2] \in Beyond(q[1], Newer(h)) /\ p = <<h.ent[q[1]].k, h.ent[q[2]].k>>
    BY <1>2 DEF OrderIn
  <2>2. q[1] \in VisibleIn(h) /\ q[2] \in VisibleIn(h)
    OBVIOUS
  <2> QED
    BY <2>1, <2>2
<1>3. ASSUME NEW p, NEW e \in VisibleIn(h), NEW f \in VisibleIn(h),
             f \in Beyond(e, Newer(h)), p = <<h.ent[e].k, h.ent[f].k>>
      PROVE  p \in OrderIn(h)
  <2> DEFINE q == <<e, f>>
  <2>1. q \in VisibleIn(h) \X VisibleIn(h) /\ q[1] = e /\ q[2] = f
    OBVIOUS
  <2> HIDE DEF q
  <2>2. q[2] \in Beyond(q[1], Newer(h)) /\ p = <<h.ent[q[1]].k, h.ent[q[2]].k>>
    BY <1>3, <2>1
  <2> QED
    BY <2>1, <2>2 DEF OrderIn
<1> QED
  BY <1>1, <1>2, <1>3

(* An entry is found if it is in the bucket of what it stores.             *)
LEMMA VisibleFacts ==
    ASSUME NEW h, Good(h)
    PROVE  /\ \A e : e \in VisibleIn(h) <=>
                 /\ e \in h.live
                 /\ e \in Chain(h, hash_key[h.ent[e].k])
           /\ \A e \in h.live : h.ent[e].k \in Keys
           /\ \A e, f \in VisibleIn(h) : h.ent[e].k = h.ent[f].k => e = f
<1>1. \A e \in h.live : h.ent[e].k \in Keys
  <2> SUFFICES ASSUME NEW e \in h.live PROVE h.ent[e].k \in Keys
    OBVIOUS
  <2>1. PICK i \in Buckets : e \in Chain(h, i)
    BY DEF Good, Sound
  <2> QED
    BY <2>1, CutFacts DEF Good, Keyed
<1>2. ASSUME NEW e \in h.live
      PROVE  Hash_get(h, h.ent[e].k) = e <=> e \in Chain(h, hash_key[h.ent[e].k])
  <2> DEFINE key == h.ent[e].k
             d == Hash_get(h, key)
  <2>1. key \in Keys /\ e # NULL
    BY <1>1, SoundChain, HashAssumption DEF Good, Sound, Table
  <2>2. /\ d # NULL => d \in Chain(h, hash_key[key]) /\ h.ent[d].k = key
        /\ d = NULL => \A x \in Chain(h, hash_key[key]) : h.ent[x].k # key
    BY <2>1, GetFacts DEF Good
  <2> HIDE DEF d
  <2>3. d = e => e \in Chain(h, hash_key[key])
    BY <2>1, <2>2
  <2>4. ASSUME e \in Chain(h, hash_key[key]) PROVE d = e
    BY <2>1, <2>2, <2>4 DEF Good, Unique
  <2> QED
    BY <2>3, <2>4 DEF d
<1>3. \A e : e \in VisibleIn(h) <=> e \in h.live /\ e \in Chain(h, hash_key[h.ent[e].k])
  BY <1>2 DEF VisibleIn
<1>4. \A e, f \in VisibleIn(h) : h.ent[e].k = h.ent[f].k => e = f
  BY DEF VisibleIn
<1> QED
  BY <1>1, <1>3, <1>4

(* A deletion takes the key out of what is found.                          *)
LEMMA DeletedFound ==
    ASSUME NEW h, Good(h), NEW key \in Keys
    PROVE  /\ FoundIn(Deleted(h, key)) = {p \in FoundIn(h) : p[1] # key}
           /\ OrderIn(Deleted(h, key)) = {p \in OrderIn(h) : key \notin {p[1], p[2]}}
<1> DEFINE d == Hash_get(h, key)
           g == Deleted(h, key)
<1>1. Good(g) /\ (d = NULL => g = h) /\ (d # NULL => Shrinks(h, g, d) /\ d \in h.live)
  BY DeletedShrinks, DeletedGood DEF Good
<1>2. \A x \in Chain(g, hash_key[key]) : g.ent[x].k # key
  BY DeletedGood
<1>3. d # NULL => h.ent[d].k = key /\ d \in Chain(h, hash_key[key])
  BY GetFacts DEF Good
<1> HIDE DEF d, g
<1>4. \A e \in VisibleIn(g) : g.ent[e].k # key
  BY <1>1, <1>2, VisibleFacts
<1>5. \A e : e \in VisibleIn(g) <=> e \in VisibleIn(h) /\ h.ent[e].k # key
  <2>1. CASE d = NULL
    BY <1>1, <1>4, <2>1
  <2>2. CASE d # NULL
    <3>1. d \in VisibleIn(h)
      BY <1>1, <1>3, <2>2, VisibleFacts
    <3>2. ASSUME NEW e, e \in VisibleIn(g) PROVE e \in VisibleIn(h) /\ h.ent[e].k # key
      <4>1. e \in g.live /\ e \in Chain(g, hash_key[g.ent[e].k]) /\ g.ent[e].k # key
        BY <1>1, <1>4, <3>2, VisibleFacts
      <4>2. e \in h.live /\ g.ent[e].k = h.ent[e].k /\ h.ent[e].k \in Keys
        BY <1>1, <2>2, <4>1, VisibleFacts DEF Shrinks, SameContents
      <4>3. e \in Chain(h, hash_key[h.ent[e].k])
        BY <1>1, <2>2, <4>1, <4>2, CutFacts DEF Shrinks
      <4> QED
        BY <4>1, <4>2, <4>3, VisibleFacts
    <3>3. ASSUME NEW e, e \in VisibleIn(h), h.ent[e].k # key PROVE e \in VisibleIn(g)
      <4>1. e \in h.live /\ e \in Chain(h, hash_key[h.ent[e].k]) /\ e # d /\ h.ent[e].k \in Keys
        BY <1>3, <2>2, <3>3, VisibleFacts
      <4>2. e \in g.live /\ g.ent[e].k = h.ent[e].k
        BY <1>1, <2>2, <4>1 DEF Shrinks, SameContents
      <4>3. e \in Chain(g, hash_key[g.ent[e].k])
        BY <1>1, <2>2, <4>1, <4>2, CutFacts DEF Shrinks
      <4> QED
        BY <1>1, <4>2, <4>3, VisibleFacts
    <3> QED
      BY <3>2, <3>3
  <2> QED
    BY <2>1, <2>2
<1>6. \A e, f \in VisibleIn(g) :
          /\ g.ent[e].k = h.ent[e].k /\ g.ent[e].v = h.ent[e].v
          /\ f \in Beyond(e, Newer(g)) <=> f \in Beyond(e, Newer(h))
  <2>1. VisibleIn(g) \subseteq g.live
    BY DEF VisibleIn
  <2> QED
    BY <1>1, <2>1 DEF Shrinks, SameContents, SameOrder
<1>7. \A p : p \in FoundIn(g) <=> p \in FoundIn(h) /\ p[1] # key
  <2>1. ASSUME NEW p, p \in FoundIn(g) PROVE p \in FoundIn(h) /\ p[1] # key
    <3>1. PICK e \in VisibleIn(g) : p = <<g.ent[e].k, g.ent[e].v>>
      BY <2>1, FoundMembers
    <3>2. e \in VisibleIn(h) /\ p = <<h.ent[e].k, h.ent[e].v>> /\ p[1] # key
      BY <1>5, <1>6, <3>1
    <3> QED
      BY <3>2, FoundMembers
  <2>2. ASSUME NEW p, p \in FoundIn(h), p[1] # key PROVE p \in FoundIn(g)
    <3>1. PICK e \in VisibleIn(h) : p = <<h.ent[e].k, h.ent[e].v>>
      BY <2>2, FoundMembers
    <3>2. e \in VisibleIn(g) /\ p = <<g.ent[e].k, g.ent[e].v>>
      BY <1>5, <1>6, <2>2, <3>1
    <3> QED
      BY <3>2, FoundMembers
  <2> QED
    BY <2>1, <2>2
<1>8. \A p : p \in OrderIn(g) <=> p \in OrderIn(h) /\ key \notin {p[1], p[2]}
  <2>1. ASSUME NEW p, p \in OrderIn(g) PROVE p \in OrderIn(h) /\ key \notin {p[1], p[2]}
    <3>1. PICK e, f \in VisibleIn(g) : f \in Beyond(e, Newer(g)) /\ p = <<g.ent[e].k, g.ent[f].k>>
      BY <2>1, FoundMembers
    <3>2. /\ e \in VisibleIn(h) /\ f \in VisibleIn(h) /\ f \in Beyond(e, Newer(h))
          /\ p = <<h.ent[e].k, h.ent[f].k>> /\ h.ent[e].k # key /\ h.ent[f].k # key
      BY <1>5, <1>6, <3>1
    <3>3. p \in OrderIn(h)
      BY <3>2, FoundMembers
    <3> QED
      BY <3>2, <3>3
  <2>2. ASSUME NEW p, p \in OrderIn(h), key \notin {p[1], p[2]} PROVE p \in OrderIn(g)
    <3>1. PICK e, f \in VisibleIn(h) : f \in Beyond(e, Newer(h)) /\ p = <<h.ent[e].k, h.ent[f].k>>
      BY <2>2, FoundMembers
    <3>2. h.ent[e].k # key /\ h.ent[f].k # key
      BY <2>2, <3>1
    <3>3. e \in VisibleIn(g) /\ f \in VisibleIn(g) /\ f \in Beyond(e, Newer(g))
          /\ p = <<g.ent[e].k, g.ent[f].k>>
      BY <1>5, <1>6, <3>1, <3>2
    <3> QED
      BY <3>3, FoundMembers
  <2> QED
    BY <2>1, <2>2
<1>9. FoundIn(g) = {p \in FoundIn(h) : p[1] # key}
  BY <1>7
<1>10. OrderIn(g) = {p \in OrderIn(h) : key \notin {p[1], p[2]}}
  BY <1>8
<1> QED
  BY <1>9, <1>10 DEF g
(* A new entry puts its key last, unless the key was too long to be stored *)
(* whole: then nobody finds it.                                            *)
LEMMA GrownFound ==
    ASSUME CutsApart, NEW h, Good(h), NEW key \in Keys,
           \A x \in Chain(h, hash_key[key]) : h.ent[x].k # key,
           NEW e \in Entries, NEW g, Sound(g), Grows(h, g, e, hash_key[key]), g.ent[e].k = Cut[key]
    PROVE  /\ Cut[key] = key =>
                 /\ FoundIn(g) = FoundIn(h) \cup {<<key, g.ent[e].v>>}
                 /\ OrderIn(g) = OrderIn(h) \cup ({p[1] : p \in FoundIn(h)} \X {key})
           /\ Cut[key] # key => FoundIn(g) = FoundIn(h) /\ OrderIn(g) = OrderIn(h)
<1>1. Good(g)
  BY GrownGood
<1>2. /\ \A x \in h.live : /\ x # e /\ g.ent[x].k = h.ent[x].k /\ g.ent[x].v = h.ent[x].v
                           /\ x \in Entries /\ e \in Beyond(x, Newer(g))
      /\ e \notin h.live /\ g.live = h.live \cup {e}
      /\ \A x, y \in h.live : y \in Beyond(x, Newer(h)) <=> y \in Beyond(x, Newer(g))
      /\ \A y \in g.live : y \notin Beyond(e, Newer(g))
      /\ \A x \in VisibleIn(h) : x \in h.live
  <2>1. h.live \subseteq Entries
    BY DEF Good, Sound, Table
  <2> QED
    BY <2>1 DEF Grows, SameContents, SameOrder, VisibleIn
<1>3. ASSUME NEW x \in h.live PROVE x \in VisibleIn(g) <=> x \in VisibleIn(h)
  <2>1. h.ent[x].k \in Keys /\ g.ent[x].k = h.ent[x].k /\ x # e
    BY <1>2, VisibleFacts
  <2>2. x \in Chain(g, hash_key[g.ent[x].k]) <=> x \in Chain(h, hash_key[h.ent[x].k])
    BY <2>1, CutFacts DEF Grows
  <2> QED
    BY <1>1, <1>2, <2>2, VisibleFacts
<1>4. e \in VisibleIn(g) <=> Cut[key] = key
  <2>1. e \notin Chain(h, hash_key[Cut[key]])
    BY <1>2, SoundChain, CutFacts DEF Good
  <2>2. e \in Chain(g, hash_key[Cut[key]]) <=> hash_key[Cut[key]] = hash_key[key]
    BY <2>1, CutFacts DEF Grows
  <2>3. hash_key[Cut[key]] = hash_key[key] <=> Cut[key] = key
    BY DEF CutsApart
  <2> QED
    BY <1>1, <1>2, <2>2, <2>3, VisibleFacts
<1>5. \A x : x \in VisibleIn(g) <=> x \in VisibleIn(h) \/ (x = e /\ Cut[key] = key)
  <2>1. \A x \in VisibleIn(g) : x \in h.live \/ x = e
    BY <1>2 DEF VisibleIn
  <2> QED
    BY <1>2, <1>3, <1>4, <2>1
<1>6. ASSUME NEW p
      PROVE  p \in FoundIn(g) <=> p \in FoundIn(h) \/ (Cut[key] = key /\ p = <<key, g.ent[e].v>>)
  <2>1. ASSUME p \in FoundIn(g)
        PROVE  p \in FoundIn(h) \/ (Cut[key] = key /\ p = <<key, g.ent[e].v>>)
    <3>1. PICK x \in VisibleIn(g) : p = <<g.ent[x].k, g.ent[x].v>>
      BY <2>1, FoundMembers
    <3>2. CASE x \in VisibleIn(h)
      BY <1>2, <3>1, <3>2, FoundMembers
    <3>3. CASE x = e /\ Cut[key] = key
      BY <3>1, <3>3
    <3> QED
      BY <1>5, <3>2, <3>3
  <2>2. ASSUME p \in FoundIn(h) PROVE p \in FoundIn(g)
    <3>1. PICK x \in VisibleIn(h) : p = <<h.ent[x].k, h.ent[x].v>>
      BY <2>2, FoundMembers
    <3>2. x \in VisibleIn(g) /\ p = <<g.ent[x].k, g.ent[x].v>>
      BY <1>2, <1>5, <3>1
    <3> QED
      BY <3>2, FoundMembers
  <2>3. ASSUME Cut[key] = key, p = <<key, g.ent[e].v>> PROVE p \in FoundIn(g)
    <3>1. e \in VisibleIn(g) /\ p = <<g.ent[e].k, g.ent[e].v>>
      BY <1>5, <2>3
    <3> QED
      BY <3>1, FoundMembers
  <2> QED
    BY <2>1, <2>2, <2>3
<1>7. ASSUME NEW p
      PROVE  p \in OrderIn(g) <=>
                \/ p \in OrderIn(h)
                \/ Cut[key] = key /\ \E x \in VisibleIn(h) : p = <<h.ent[x].k, key>>
  <2>1. ASSUME p \in OrderIn(g)
        PROVE  \/ p \in OrderIn(h)
               \/ Cut[key] = key /\ \E x \in VisibleIn(h) : p = <<h.ent[x].k, key>>
    <3>1. PICK x, y \in VisibleIn(g) : y \in Beyond(x, Newer(g)) /\ p = <<g.ent[x].k, g.ent[y].k>>
      BY <2>1, FoundMembers
    <3>2. y \in g.live
      BY DEF VisibleIn
    <3>3. x # e /\ x \in VisibleIn(h)
      BY <1>2, <1>5, <3>1, <3>2
    <3>4. CASE y \in VisibleIn(h)
      <4>1. y \in Beyond(x, Newer(h)) /\ p = <<h.ent[x].k, h.ent[y].k>>
        BY <1>2, <3>1, <3>3, <3>4
      <4> QED
        BY <3>3, <3>4, <4>1, FoundMembers
    <3>5. CASE y = e /\ Cut[key] = key
      BY <1>2, <3>1, <3>3, <3>5
    <3> QED
      BY <1>5, <3>4, <3>5
  <2>2. ASSUME p \in OrderIn(h) PROVE p \in OrderIn(g)
    <3>1. PICK x, y \in VisibleIn(h) : y \in Beyond(x, Newer(h)) /\ p = <<h.ent[x].k, h.ent[y].k>>
      BY <2>2, FoundMembers
    <3>2. /\ x \in VisibleIn(g) /\ y \in VisibleIn(g) /\ y \in Beyond(x, Newer(g))
          /\ p = <<g.ent[x].k, g.ent[y].k>>
      BY <1>2, <1>5, <3>1
    <3> QED
      BY <3>2, FoundMembers
  <2>3. ASSUME Cut[key] = key, NEW x \in VisibleIn(h), p = <<h.ent[x].k, key>>
        PROVE  p \in OrderIn(g)
    <3>1. /\ x \in VisibleIn(g) /\ e \in VisibleIn(g) /\ e \in Beyond(x, Newer(g))
          /\ p = <<g.ent[x].k, g.ent[e].k>>
      BY <1>2, <1>5, <2>3
    <3> QED
      BY <3>1, FoundMembers
  <2> QED
    BY <2>1, <2>2, <2>3
<1>8. CASE Cut[key] = key
  <2>1. FoundIn(g) = FoundIn(h) \cup {<<key, g.ent[e].v>>}
    BY <1>6, <1>8
  <2>2. \A a : (\E x \in VisibleIn(h) : a = h.ent[x].k) <=> a \in {p[1] : p \in FoundIn(h)}
    <3>1. ASSUME NEW x \in VisibleIn(h) PROVE h.ent[x].k \in {p[1] : p \in FoundIn(h)}
      <4>1. <<h.ent[x].k, h.ent[x].v>> \in FoundIn(h)
        BY FoundMembers
      <4> QED
        BY <4>1
    <3>2. ASSUME NEW p \in FoundIn(h) PROVE \E x \in VisibleIn(h) : p[1] = h.ent[x].k
      BY FoundMembers
    <3> QED
      BY <3>1, <3>2
  <2> DEFINE P == {p[1] : p \in FoundIn(h)}
  <2> HIDE DEF P
  <2>3. ASSUME NEW p
        PROVE  (\E x \in VisibleIn(h) : p = <<h.ent[x].k, key>>) <=> p \in P \X {key}
    <3>1. ASSUME NEW x \in VisibleIn(h), p = <<h.ent[x].k, key>> PROVE p \in P \X {key}
      BY <2>2, <3>1 DEF P
    <3>2. ASSUME p \in P \X {key} PROVE \E x \in VisibleIn(h) : p = <<h.ent[x].k, key>>
      <4>1. p = <<p[1], key>> /\ p[1] \in P
        BY <3>2
      <4> QED
        BY <2>2, <4>1 DEF P
    <3> QED
      BY <3>1, <3>2
  <2>4. OrderIn(g) = OrderIn(h) \cup (P \X {key})
    BY <1>7, <1>8, <2>3
  <2> QED
    BY <1>8, <2>1, <2>4 DEF P
<1>9. CASE Cut[key] # key
  BY <1>6, <1>7, <1>9
<1> QED
  BY <1>8, <1>9
-----------------------------------------------------------------------------
\* What the properties say is found is what the lemmas speak of.
FoundIsIn == Found = FoundIn(hash) /\ FoundOrder = OrderIn(hash)

LEMMA FoundIs == FoundIsIn
  BY DEF FoundIsIn, Found, FoundOrder, Visible, FoundIn, OrderIn, VisibleIn

LEMMA FoundIsNext == FoundIsIn'
  BY FoundIs, PTL

(* Hash_put, Hash_del and Hash_destroy keep the table sound, lookups       *)
(* unambiguous, and the promise (hash.c:52-152).                           *)
LEMMA PutKeeps ==
    ASSUME Sound(hash), NEW key \in Keys, NEW value \in Values, Hash_put(key, value)
    PROVE  /\ Sound(hash')
           /\ CutsApart /\ Good(hash) =>
                 Good(hash') /\ (Promise!Put(key, value) \/ Promise!Del(key))
<1> DEFINE d == Deleted(hash, key)
           i == hash_key[key]
<1>1. Sound(d)
  BY DeletedShrinks
<1>2. PICK e \in Entries \ d.live : hash' = Inserted(d, e, key, value)
  BY DEF Hash_put
<1> HIDE DEF d
<1>3. /\ Sound(hash') /\ Grows(d, hash', e, i)
      /\ hash'.ent[e].k = Cut[key] /\ hash'.ent[e].v = value
  BY <1>1, <1>2, InsertedGrows
<1>4. ASSUME CutsApart, Good(hash)
      PROVE  Good(hash') /\ (Promise!Put(key, value) \/ Promise!Del(key))
  <2>1. Good(d) /\ \A x \in Chain(d, i) : d.ent[x].k # key
    BY <1>4, DeletedGood DEF d
  <2>2. Good(hash')
    BY <1>3, <1>4, <2>1, GrownGood
  <2>3. /\ FoundIn(d) = {p \in FoundIn(hash) : p[1] # key}
        /\ OrderIn(d) = {p \in OrderIn(hash) : key \notin {p[1], p[2]}}
    BY <1>4, DeletedFound DEF d
  <2>4. /\ Cut[key] = key =>
             /\ FoundIn(hash') = FoundIn(d) \cup {<<key, hash'.ent[e].v>>}
             /\ OrderIn(hash') = OrderIn(d) \cup ({p[1] : p \in FoundIn(d)} \X {key})
        /\ Cut[key] # key => FoundIn(hash') = FoundIn(d) /\ OrderIn(hash') = OrderIn(d)
    BY <1>3, <1>4, <2>1, GrownFound
  <2>5. /\ Found = FoundIn(hash) /\ FoundOrder = OrderIn(hash)
        /\ Found' = FoundIn(hash') /\ FoundOrder' = OrderIn(hash')
    BY FoundIs, FoundIsNext DEF FoundIsIn
  <2>6. CASE Cut[key] = key
    <3>1. {p[1] : p \in FoundIn(d)} = {p[1] : p \in FoundIn(hash)} \ {key}
      BY <2>3
    <3>2. Promise!Put(key, value)
      BY <1>3, <2>3, <2>4, <2>5, <2>6, <3>1
         DEF Promise!Put, Promise!OtherPairs, Promise!OtherOrder, Promise!Present
    <3> QED
      BY <2>2, <3>2
  <2>7. CASE Cut[key] # key
    <3>1. Promise!Del(key)
      BY <2>3, <2>4, <2>5, <2>7 DEF Promise!Del, Promise!OtherPairs, Promise!OtherOrder
    <3> QED
      BY <2>2, <3>1
  <2> QED
    BY <2>6, <2>7
<1> QED
  BY <1>3, <1>4

LEMMA DelKeeps ==
    ASSUME Sound(hash), NEW key \in Keys, Hash_del(key)
    PROVE  /\ Sound(hash')
           /\ Good(hash) => Good(hash') /\ Promise!Del(key)
<1>1. hash' = Deleted(hash, key)
  BY DEF Hash_del
<1>2. Sound(hash')
  BY <1>1, DeletedShrinks
<1>3. ASSUME Good(hash) PROVE Good(hash') /\ Promise!Del(key)
  <2>1. Good(hash')
    BY <1>1, <1>3, DeletedGood
  <2>2. /\ FoundIn(hash') = {p \in FoundIn(hash) : p[1] # key}
        /\ OrderIn(hash') = {p \in OrderIn(hash) : key \notin {p[1], p[2]}}
    BY <1>1, <1>3, DeletedFound
  <2>3. Promise!Del(key)
    BY <2>2, FoundIs, FoundIsNext
       DEF FoundIsIn, Promise!Del, Promise!OtherPairs, Promise!OtherOrder
  <2> QED
    BY <2>1, <2>3
<1> QED
  BY <1>2, <1>3

LEMMA NewGood == Good(Hash_new) /\ FoundIn(Hash_new) = {} /\ OrderIn(Hash_new) = {}
<1>1. Sound(Hash_new) /\ \A i \in Buckets : Chain(Hash_new, i) = {}
  BY NewSound
<1>2. Good(Hash_new)
  BY <1>1, CutFacts DEF Good, Keyed, Unique
<1>3. VisibleIn(Hash_new) = {}
  BY DEF VisibleIn, Hash_new
<1>4. FoundIn(Hash_new) = {} /\ OrderIn(Hash_new) = {}
  BY <1>3, FoundMembers
<1> QED
  BY <1>2, <1>4

LEMMA DestroyKeeps ==
    ASSUME Sound(hash), Hash_destroy
    PROVE  hash' = Hash_new /\ Promise!Destroy
<1>1. Met(hash.head, Newer(hash)) = hash.live
  BY OrderIs DEF Sound, Table
<1>2. hash' = Hash_new
  BY <1>1 DEF Hash_destroy, Hash_new
<1>3. Promise!Destroy
  BY <1>2, NewGood, FoundIsNext DEF FoundIsIn, Promise!Destroy
<1> QED
  BY <1>2, <1>3
-----------------------------------------------------------------------------
\* The array of names.
Sized ==
    /\ sym_num_ids \in Nat \ {0}
    /\ sym_id_to_name \in [0 .. sym_num_ids - 1 -> Keys \cup {NULL}]

Owned ==
    /\ user \in {"symtab", "host"}
    /\ user = "host" => issued = {}

\* Every entry holds an id given out, for the name that the array has for it.
Named(h, names, e, i) ==
    LET id == h.ent[e].v
    IN  /\ id \in 0 .. h.num_entries - 1
        /\ names[id] \in Keys
        /\ h.ent[e].k = Cut[names[id]]
        /\ hash_key[names[id]] = i

Numbered ==
    user = "symtab" =>
        /\ hash.num_entries <= sym_num_ids
        /\ \A i \in Buckets : \A e \in Chain(hash, i) : Named(hash, sym_id_to_name, e, i)
        /\ issued \subseteq Keys \X (0 .. hash.num_entries - 1)

\* What was issued is in the array, and on the table if it can be found.
Recorded(h, names, p) ==
    /\ names[p[2]] = p[1]
    /\ Cut[p[1]] = p[1] =>
          \E e \in Chain(h, hash_key[p[1]]) : h.ent[e].k = p[1] /\ h.ent[e].v = p[2]

Issued == user = "symtab" => \A p \in issued : Recorded(hash, sym_id_to_name, p)

IInv ==
    /\ Sound(hash) /\ Sized /\ Owned /\ Numbered
    /\ CutsApart => Good(hash) /\ Issued
-----------------------------------------------------------------------------
LEMMA InitIInv == Init => IInv
<1> SUFFICES ASSUME Init PROVE IInv
  OBVIOUS
<1>1. hash = Hash_new /\ Sound(hash) /\ Good(hash) /\ \A i \in Buckets : Chain(hash, i) = {}
  BY NewSound, NewGood DEF Init
<1>2. hash.num_entries = 0
  BY <1>1 DEF Hash_new
<1>3. Sized
  BY SymtabAssumption DEF Init, Sized
<1>4. Owned /\ Numbered /\ Issued
  BY <1>1, <1>2, SymtabAssumption DEF Init, Owned, Numbered, Issued
<1> QED
  BY <1>1, <1>3, <1>4 DEF IInv

(* The array has room for the new name, and keeps the names it had         *)
(* (symtab.c:62-72).                                                       *)
LEMMA ArrayGrows ==
    ASSUME Sized, NEW n \in Nat, n <= sym_num_ids, NEW names,
           names = IF MustGrow(n + 1) THEN Doubled(sym_id_to_name) ELSE sym_id_to_name
    PROVE  \E N \in Nat : /\ N > n /\ names \in [0 .. N - 1 -> Keys \cup {NULL}]
                          /\ Cardinality(DOMAIN names) = N
                          /\ \A x \in 0 .. sym_num_ids - 1 : names[x] = sym_id_to_name[x]
                          /\ sym_num_ids <= N
<1>1. \A N \in Nat : Cardinality(0 .. N - 1) = N
  <2> SUFFICES ASSUME NEW N \in Nat PROVE Cardinality(0 .. N - 1) = N
    OBVIOUS
  <2>1. Cardinality(0 .. N - 1) = IF 0 > N - 1 THEN 0 ELSE N - 1 - 0 + 1
    BY FS_Interval
  <2> QED
    BY <2>1
<1>2. DOMAIN sym_id_to_name = 0 .. sym_num_ids - 1 /\ sym_num_ids \in Nat \ {0}
  BY DEF Sized
<1>3. CASE MustGrow(n + 1)
  <2> DEFINE N == 2 * sym_num_ids
  <2>1. Cardinality(DOMAIN sym_id_to_name) = sym_num_ids
    BY <1>1, <1>2
  <2>2. names = [i \in 0 .. N - 1 |->
                    IF i \in 0 .. sym_num_ids - 1 THEN sym_id_to_name[i] ELSE NULL]
    BY <1>2, <1>3, <2>1 DEF Doubled
  <2>3. N \in Nat /\ N > n /\ sym_num_ids <= N
    BY <1>2, <1>3 DEF MustGrow
  <2>4. names \in [0 .. N - 1 -> Keys \cup {NULL}]
    BY <2>2 DEF Sized
  <2>5. \A x \in 0 .. sym_num_ids - 1 : names[x] = sym_id_to_name[x]
    BY <1>2, <2>2, <2>3
  <2>6. Cardinality(DOMAIN names) = N
    <3> HIDE DEF N
    <3>1. DOMAIN names = 0 .. N - 1
      BY <2>2
    <3> QED
      BY <1>1, <2>3, <3>1
  <2> QED
    BY <2>3, <2>4, <2>5, <2>6
<1>4. CASE ~MustGrow(n + 1)
  BY <1>1, <1>2, <1>4 DEF MustGrow, Sized
<1> QED
  BY <1>3, <1>4

(* A new name gets the next id and a place in the array.                   *)
LEMMA NewSymbolIInv ==
    ASSUME IInv, user = "symtab", user' = user, NEW name \in Keys, NewSymbol(name)
    PROVE  IInv'
<1> DEFINE i == hash_key[name]
           n == hash.num_entries
<1>1. /\ Sound(hash) /\ Sized /\ n <= sym_num_ids /\ i \in Buckets
      /\ issued \subseteq Keys \X (0 .. n - 1)
      /\ \A j \in Buckets : \A e \in Chain(hash, j) : Named(hash, sym_id_to_name, e, j)
  BY CutFacts DEF IInv, Numbered
<1>2. /\ n \in Nat /\ n = Cardinality(hash.live) /\ hash.live \in SUBSET Entries
      /\ n \in Values
  <2>1. n \in Nat /\ n = Cardinality(hash.live) /\ hash.live \in SUBSET Entries
    BY <1>1 DEF Sound, Table
  <2>2. n <= Cardinality(Entries) /\ Cardinality(Entries) \in Nat
    BY <2>1, HashAssumption, FS_Subset, FS_CardinalityType
  <2> QED
    BY <2>1, <2>2, SymtabAssumption
<1>3. Hash_get(hash, name) = NULL /\ Hash_put(name, n)
  BY DEF NewSymbol, NextId
<1>4. Deleted(hash, name) = hash
  BY <1>3 DEF Deleted
<1>5. PICK e \in Entries \ hash.live : hash' = Inserted(hash, e, name, n)
  BY <1>3, <1>4 DEF Hash_put
<1>6. /\ Sound(hash') /\ Grows(hash, hash', e, i)
      /\ hash'.ent[e].k = Cut[name] /\ hash'.ent[e].v = n
  BY <1>1, <1>2, <1>5, InsertedGrows
<1>7. hash'.num_entries = n + 1
  <2>1. hash'.num_entries = Cardinality(hash.live \cup {e})
    BY <1>6 DEF Sound, Grows
  <2> QED
    BY <1>2, <2>1, Counted
<1> DEFINE names == IF MustGrow(n + 1) THEN Doubled(sym_id_to_name) ELSE sym_id_to_name
<1>8. PICK N \in Nat : /\ N > n /\ names \in [0 .. N - 1 -> Keys \cup {NULL}]
                       /\ Cardinality(DOMAIN names) = N
                       /\ \A x \in 0 .. sym_num_ids - 1 : names[x] = sym_id_to_name[x]
                       /\ sym_num_ids <= N
  <2> HIDE DEF n
  <2> QED
    BY <1>1, <1>2, ArrayGrows
<1>9. /\ sym_id_to_name' = [names EXCEPT ![n] = name] /\ sym_num_ids' = N
      /\ issued' = issued \cup {<<name, n>>}
  BY <1>7, <1>8 DEF NewSymbol, NextId
<1> HIDE DEF names, n, i
<1>10. /\ sym_id_to_name'[n] = name
       /\ \A x \in 0 .. n - 1 : sym_id_to_name'[x] = sym_id_to_name[x]
       /\ sym_id_to_name' \in [0 .. N - 1 -> Keys \cup {NULL}]
  BY <1>1, <1>2, <1>8, <1>9 DEF Sized
<1>11. Sized' /\ Owned'
  BY <1>2, <1>8, <1>9, <1>10 DEF Sized, Owned, IInv
<1>12. ASSUME NEW j \in Buckets, NEW x \in Chain(hash, j)
       PROVE  /\ x \in Chain(hash', j)
              /\ hash'.ent[x].k = hash.ent[x].k /\ hash'.ent[x].v = hash.ent[x].v
  BY <1>1, <1>6, SoundChain DEF Grows, SameContents
<1>13. Numbered'
  <2>1. ASSUME NEW j \in Buckets, NEW x \in Chain(hash', j)
        PROVE  Named(hash', sym_id_to_name', x, j)
    <3>1. CASE x \in Chain(hash, j)
      <4>1. Named(hash, sym_id_to_name, x, j)
        BY <1>1, <3>1
      <4>2. hash.ent[x].v \in 0 .. n - 1
        BY <4>1 DEF Named, n
      <4> QED
        BY <1>2, <1>7, <1>10, <1>12, <3>1, <4>1, <4>2 DEF Named
    <3>2. CASE x = e /\ j = i
      BY <1>2, <1>6, <1>7, <1>10, <3>2 DEF Named, i
    <3> QED
      BY <1>6, <2>1, <3>1, <3>2 DEF Grows
  <2>2. issued' \subseteq Keys \X (0 .. hash'.num_entries - 1)
    BY <1>1, <1>2, <1>7, <1>9 DEF n
  <2>3. hash'.num_entries <= sym_num_ids'
    BY <1>2, <1>7, <1>8, <1>9
  <2> QED
    BY <2>1, <2>2, <2>3 DEF Numbered
<1>14. ASSUME CutsApart PROVE Good(hash') /\ Issued'
  <2>1. Good(hash) /\ \A p \in issued : Recorded(hash, sym_id_to_name, p)
    BY <1>14 DEF IInv, Issued
  <2>2. Good(hash')
    BY <1>3, <1>14, <2>1, <1>1, <1>2, PutKeeps
  <2>3. ASSUME NEW p \in issued PROVE Recorded(hash', sym_id_to_name', p)
    <3>1. p[1] \in Keys /\ p[2] \in 0 .. n - 1 /\ Recorded(hash, sym_id_to_name, p)
      BY <1>1, <2>1 DEF n
    <3>2. sym_id_to_name'[p[2]] = p[1]
      BY <1>10, <3>1 DEF Recorded
    <3>3. ASSUME Cut[p[1]] = p[1]
          PROVE  \E x \in Chain(hash', hash_key[p[1]]) : hash'.ent[x].k = p[1] /\ hash'.ent[x].v = p[2]
      <4>1. PICK x \in Chain(hash, hash_key[p[1]]) : hash.ent[x].k = p[1] /\ hash.ent[x].v = p[2]
        BY <3>1, <3>3 DEF Recorded
      <4> QED
        BY <1>12, <3>1, <4>1, CutFacts
    <3> QED
      BY <3>2, <3>3 DEF Recorded
  <2>4. Recorded(hash', sym_id_to_name', <<name, n>>)
    <3>1. e \in Chain(hash', i)
      BY <1>1, <1>6 DEF Grows, i
    <3> QED
      BY <1>6, <1>10, <3>1 DEF Recorded, i
  <2> QED
    BY <1>9, <2>2, <2>3, <2>4 DEF Issued
<1> QED
  BY <1>6, <1>11, <1>13, <1>14 DEF IInv

(* A name that is found keeps the id it has.                               *)
LEMMA KnownSymbolIInv ==
    ASSUME IInv, user = "symtab", user' = user, NEW name \in Keys, KnownSymbol(name)
    PROVE  IInv'
<1> DEFINE e == Hash_get(hash, name)
           i == hash_key[name]
           v == hash.ent[e].v
<1>1. /\ hash' = hash /\ sym_id_to_name' = sym_id_to_name /\ sym_num_ids' = sym_num_ids
      /\ issued' = issued \cup {<<name, v>>} /\ e # NULL
  BY DEF KnownSymbol
<1>2. e \in Chain(hash, i) /\ hash.ent[e].k = name /\ i \in Buckets
  BY <1>1, GetFacts DEF IInv
<1>3. Named(hash, sym_id_to_name, e, i)
  BY <1>2 DEF IInv, Numbered
<1> HIDE DEF e, i
<1>4. Sound(hash') /\ Sized' /\ Owned'
  BY <1>1 DEF IInv, Sized, Owned
<1>5. Numbered'
  <2>1. v \in 0 .. hash.num_entries - 1
    BY <1>3 DEF Named
  <2>2. issued' \subseteq Keys \X (0 .. hash'.num_entries - 1)
    BY <1>1, <2>1 DEF IInv, Numbered
  <2> QED
    BY <1>1, <2>2 DEF IInv, Numbered
<1>6. ASSUME CutsApart PROVE Good(hash') /\ Issued'
  <2>1. sym_id_to_name[v] = name
    <3>1. /\ sym_id_to_name[v] \in Keys /\ name = Cut[sym_id_to_name[v]]
          /\ hash_key[sym_id_to_name[v]] = hash_key[name]
      BY <1>2, <1>3 DEF Named, i
    <3> QED
      BY <1>6, <3>1 DEF CutsApart
  <2>2. Recorded(hash', sym_id_to_name', <<name, v>>)
    BY <1>1, <1>2, <2>1 DEF Recorded, i
  <2>3. \A p \in issued : Recorded(hash', sym_id_to_name', p)
    BY <1>1, <1>6 DEF IInv, Issued
  <2> QED
    BY <1>1, <1>6, <2>2, <2>3 DEF IInv, Issued
<1> QED
  BY <1>4, <1>5, <1>6 DEF IInv

(* Another interpreter starts with nothing.                                *)
LEMMA DestroyIInv ==
    ASSUME IInv, user' = user, Symtab_destroy
    PROVE  IInv'
<1>1. hash' = Hash_new
  BY DestroyKeeps DEF Symtab_destroy, IInv
<1>2. Sound(hash') /\ Good(hash') /\ \A i \in Buckets : Chain(hash', i) = {}
  BY <1>1, NewSound, NewGood
<1>3. hash'.num_entries = 0
  BY <1>1 DEF Hash_new
<1>4. Sized'
  BY SymtabAssumption DEF Symtab_destroy, Sized
<1>5. Owned' /\ Numbered' /\ Issued'
  BY <1>2, <1>3, SymtabAssumption DEF Symtab_destroy, Owned, Numbered, Issued, IInv
<1> QED
  BY <1>2, <1>4, <1>5 DEF IInv
(* Another client of the table has no names.                               *)
LEMMA HostIInv ==
    ASSUME IInv, user = "host", user' = user, UNCHANGED symtab, Sound(hash'),
           CutsApart => Good(hash')
    PROVE  IInv'
  BY DEF IInv, Sized, Owned, Numbered, Issued, symtab

\* Where every step of the table leads: to the invariant and to the promise.
Kept ==
    /\ IInv'
    /\ CutsApart => [Promise!Next]_<<Found, FoundOrder>>

LEMMA NextKept ==
    ASSUME IInv, [Next]_vars
    PROVE  Kept
<1>1. Sound(hash) /\ (CutsApart => Good(hash))
  BY DEF IInv
<1>2. HostValues \subseteq Values
  BY SymtabAssumption
<1>3. ASSUME user = "symtab", user' = user, NEW name \in Keys, NewSymbol(name)
      PROVE  Kept
  <2>1. IInv'
    BY <1>3, NewSymbolIInv
  <2>2. NextId \in Values /\ Hash_put(name, NextId)
    <3>1. hash.num_entries \in Nat /\ hash.num_entries = Cardinality(hash.live)
          /\ hash.live \in SUBSET Entries
      BY <1>1 DEF Sound, Table
    <3>2. hash.num_entries <= Cardinality(Entries) /\ Cardinality(Entries) \in Nat
      BY <3>1, HashAssumption, FS_Subset, FS_CardinalityType
    <3> QED
      BY <1>3, <3>1, <3>2, SymtabAssumption DEF NextId, NewSymbol
  <2>3. CutsApart => Promise!Put(name, NextId) \/ Promise!Del(name)
    BY <1>1, <2>2, PutKeeps
  <2> QED
    BY <2>1, <2>2, <2>3 DEF Kept, Promise!Next
<1>4. ASSUME user = "symtab", user' = user, NEW name \in Keys, KnownSymbol(name)
      PROVE  Kept
  <2>1. hash' = hash
    BY <1>4 DEF KnownSymbol
  <2>2. Found' = Found /\ FoundOrder' = FoundOrder
    BY <2>1, FoundIs, FoundIsNext DEF FoundIsIn
  <2> QED
    BY <1>4, <2>2, KnownSymbolIInv DEF Kept
<1>5. ASSUME user' = user, Symtab_destroy
      PROVE  Kept
  <2>1. Promise!Destroy
    BY <1>1, <1>5, DestroyKeeps DEF Symtab_destroy
  <2> QED
    BY <1>5, <2>1, DestroyIInv DEF Kept, Promise!Next
<1>6. CASE SymtabStep
  BY <1>3, <1>4, <1>5, <1>6 DEF SymtabStep, Symtab_get_id
<1>7. CASE HostStep
  <2>1. ASSUME NEW key \in Keys, NEW value \in HostValues, Hash_put(key, value)
        PROVE  Kept
    <3>1. value \in Values
      BY <1>2
    <3>2. /\ Sound(hash')
          /\ CutsApart => Good(hash') /\ (Promise!Put(key, value) \/ Promise!Del(key))
      BY <1>1, <2>1, <3>1, PutKeeps
    <3>3. IInv'
      BY <1>7, <3>2, HostIInv DEF HostStep
    <3> QED
      BY <3>1, <3>2, <3>3 DEF Kept, Promise!Next
  <2>2. ASSUME NEW key \in Keys, Hash_del(key)
        PROVE  Kept
    <3>1. Sound(hash') /\ (CutsApart => Good(hash') /\ Promise!Del(key))
      BY <1>1, <2>2, DelKeeps
    <3>2. IInv'
      BY <1>7, <3>1, HostIInv DEF HostStep
    <3> QED
      BY <3>1, <3>2 DEF Kept, Promise!Next
  <2>3. ASSUME Hash_destroy
        PROVE  Kept
    <3>1. hash' = Hash_new /\ Promise!Destroy
      BY <1>1, <2>3, DestroyKeeps
    <3>2. Sound(hash') /\ Good(hash')
      BY <3>1, NewSound, NewGood
    <3>3. IInv'
      BY <1>7, <3>2, HostIInv DEF HostStep
    <3> QED
      BY <3>1, <3>3 DEF Kept, Promise!Next
  <2> QED
    BY <1>7, <2>1, <2>2, <2>3 DEF HostStep
<1>8. CASE UNCHANGED vars
  <2>1. Found' = Found /\ FoundOrder' = FoundOrder
    BY <1>8, FoundIs, FoundIsNext DEF FoundIsIn, vars
  <2> QED
    BY <1>8, <2>1 DEF Kept, vars, symtab, IInv, Sized, Owned, Numbered, Issued
<1> QED
  BY <1>6, <1>7, <1>8 DEF Next

(* The invariant holds of every behaviour.                                 *)
LEMMA TableInvariance == Spec => []IInv
<1>1. Init => IInv
  BY InitIInv
<1>2. IInv /\ [Next]_vars => IInv'
  BY NextKept DEF Kept
<1> QED
  BY <1>1, <1>2, PTL DEF Spec

(* The type invariant, for any number of entries, buckets and keys.        *)
THEOREM TableTypeCorrect == Spec => []TypeOK
<1>1. IInv => TypeOK
  <2> SUFFICES ASSUME IInv PROVE TypeOK
    OBVIOUS
  <2>1. HashTypeOK
    BY DEF IInv, Sound, Table, HashTypeOK
  <2>2. hash.num_entries \in Nat
    BY <2>1 DEF HashTypeOK
  <2>3. issued \subseteq Keys \X Nat
    BY <2>2 DEF IInv, Owned, Numbered
  <2> QED
    BY <2>1, <2>3 DEF TypeOK, IInv, Sized
<1> QED
  BY <1>1, TableInvariance, PTL

(* Every sequence of puts, deletes and destructions leaves each entry once *)
(* on the list of entries and once in one bucket, whatever the keys        *)
(* collide with (HashLinked; hash.c:65-99, 118-152).                       *)
THEOREM TableLinked == Spec => []HashLinked
<1>1. IInv => HashLinked
  BY SoundLinked DEF IInv
<1> QED
  BY <1>1, TableInvariance, PTL

(* A symbol is printed by the name it was read by (NamesKept;              *)
(* symtab.c:49-80).                                                        *)
THEOREM SymbolsNamed == CutsApart => (Spec => []NamesKept)
<1> SUFFICES ASSUME CutsApart
             PROVE  Spec => []NamesKept
  OBVIOUS
<1>1. ASSUME IInv PROVE NamesKept
  <2> SUFFICES ASSUME NEW p \in issued
               PROVE  p[2] \in DOMAIN sym_id_to_name /\ Symtab_get_name(p[2]) = p[1]
    BY DEF NamesKept
  <2>1. user = "symtab"
    BY <1>1 DEF IInv, Owned
  <2>2. /\ p[2] \in 0 .. hash.num_entries - 1 /\ sym_id_to_name[p[2]] = p[1]
        /\ hash.num_entries <= sym_num_ids
    BY <1>1, <2>1 DEF IInv, Numbered, Issued, Recorded
  <2>3. hash.num_entries \in Nat /\ sym_num_ids \in Nat
        /\ DOMAIN sym_id_to_name = 0 .. sym_num_ids - 1
    BY <1>1 DEF IInv, Sound, Table, Sized
  <2> QED
    BY <2>2, <2>3 DEF Symtab_get_name
<1> QED
  BY <1>1, TableInvariance, PTL

(* Symbols with one name have one id (OneIdPerName; symtab.c:49-80).       *)
THEOREM SymbolsUnique == CutsApart => (Spec => []OneIdPerName)
<1> SUFFICES ASSUME CutsApart
             PROVE  Spec => []OneIdPerName
  OBVIOUS
<1>1. ASSUME IInv PROVE OneIdPerName
  <2> SUFFICES ASSUME NEW p \in issued, NEW q \in issued, p[1] = q[1], Cut[p[1]] = p[1]
               PROVE  p[2] = q[2]
    BY DEF OneIdPerName
  <2>1. user = "symtab"
    BY <1>1 DEF IInv, Owned
  <2>2. /\ Recorded(hash, sym_id_to_name, p) /\ Recorded(hash, sym_id_to_name, q)
        /\ p[1] \in Keys
    BY <1>1, <2>1 DEF IInv, Numbered, Issued
  <2>3. PICK e \in Chain(hash, hash_key[p[1]]) : hash.ent[e].k = p[1] /\ hash.ent[e].v = p[2]
    BY <2>2 DEF Recorded
  <2>4. PICK f \in Chain(hash, hash_key[p[1]]) : hash.ent[f].k = p[1] /\ hash.ent[f].v = q[2]
    BY <2>2 DEF Recorded
  <2>5. e = f
    BY <1>1, <2>2, <2>3, <2>4 DEF IInv, Good, Unique
  <2> QED
    BY <2>3, <2>4, <2>5
<1> QED
  BY <1>1, TableInvariance, PTL

(* What lookups find is the map of AssocList (KeepsPromise).               *)
THEOREM TableImplements == CutsApart => (Spec => KeepsPromise)
<1> SUFFICES ASSUME CutsApart
             PROVE  Spec => KeepsPromise
  OBVIOUS
<1>1. Init => Promise!Init
  BY NewGood, FoundIs DEF Init, FoundIsIn, Promise!Init
<1>2. IInv /\ [Next]_vars => [Promise!Next]_<<Found, FoundOrder>>
  BY NextKept DEF Kept
<1> QED
  BY <1>1, <1>2, TableInvariance, PTL DEF Spec, KeepsPromise, Promise!Spec
=============================================================================
