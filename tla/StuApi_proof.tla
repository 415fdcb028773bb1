---------------------------- MODULE StuApi_proof ----------------------------
(***************************************************************************)
(* What the collector guarantees for every set of addresses, threshold and *)
(* scope depth, and what a host of libstu may rely on because of it: what  *)
(* it holds stays whole, and no program it runs gets at freed memory.      *)
(* Neither is said of native closures, whose bound arguments the collector *)
(* does not visit.                                                         *)
(***************************************************************************)
EXTENDS StuApi, TLAPS

(***************************************************************************)
(* Gc: an arbitrary client of the collector that creates no native         *)
(* closures.                                                               *)
(***************************************************************************)

\* Memory with no type holds no references, and only such memory is off the list.
BlankMemory ==
    /\ \A o \in Objects : kind[o] = "blank" => fst[o] = NULL /\ snd[o] = NULL
    /\ \A o \in Objects \ managed : kind[o] = "blank"

NoClosures == \A o \in Objects : kind[o] # "native_clos"

\* What a mark is left on is no longer on the list.
HeapUnmarked == marked \cap managed = {}

\* What holds of the heap whatever the client keeps a pointer to.
Sound ==
    /\ TypeOK
    /\ HeapUnmarked
    /\ LockedClosed
    /\ BlankMemory
    /\ NoClosures

Safe == Sound /\ NoDangling

IInv == Safe /\ MarksClear
-----------------------------------------------------------------------------
(* Roots and scopes: what each scope operation adds to the roots.          *)
LEMMA SavedRoots ==
    ASSUME NEW scs \in Seq(SUBSET Objects), NEW o \in Objects, NEW e \in Refs
    PROVE  /\ Saved(scs, o) \in Seq(SUBSET Objects)
           /\ Roots(Saved(scs, o), e) \subseteq Roots(scs, e) \cup {o}
           /\ Roots(scs, e) \subseteq Roots(Saved(scs, o), e)
           /\ scs # <<>> => o \in Roots(Saved(scs, o), e)
           /\ Len(Saved(scs, o)) = Len(scs)
<1>1. CASE scs = <<>>
  BY <1>1 DEF Saved
<1>2. CASE scs # <<>>
  <2> DEFINE n == Len(scs)
             s2 == [scs EXCEPT ![n] = @ \cup {o}]
  <2>1. /\ n \in DOMAIN scs /\ DOMAIN s2 = DOMAIN scs /\ DOMAIN scs = 1 .. n
        /\ n \in Nat
    BY <1>2
  <2>2. \A i \in DOMAIN scs : s2[i] = IF i = n THEN scs[i] \cup {o} ELSE scs[i]
    BY <2>1
  <2>3. s2 \in Seq(SUBSET Objects) /\ Len(s2) = Len(scs)
    BY <2>1, <2>2
  <2>4. Saved(scs, o) = s2
    BY <1>2 DEF Saved
  <2>5. o \in s2[n] /\ o # NULL
    BY <2>1, <2>2, GcAssumption
  <2> HIDE DEF s2, n
  <2>6. \A i \in DOMAIN s2 : s2[i] \subseteq scs[i] \cup {o}
    BY <2>1, <2>2
  <2>7. \A i \in DOMAIN scs : scs[i] \subseteq s2[i]
    BY <2>1, <2>2
  <2>8. Roots(s2, e) \subseteq Roots(scs, e) \cup {o}
    BY <2>1, <2>6 DEF Roots
  <2>9. Roots(scs, e) \subseteq Roots(s2, e)
    BY <2>1, <2>7 DEF Roots
  <2>10. o \in Roots(s2, e)
    BY <2>1, <2>5 DEF Roots
  <2> QED
    BY <2>3, <2>4, <2>8, <2>9, <2>10
<1> QED
  BY <1>1, <1>2

LEMMA PoppedRoots ==
    ASSUME NEW scs \in Seq(SUBSET Objects), scs # <<>>, NEW e \in Refs
    PROVE  /\ Popped(scs) \in Seq(SUBSET Objects)
           /\ Roots(Popped(scs), e) \subseteq Roots(scs, e)
<1> DEFINE p == Popped(scs)
<1>1. /\ p \in Seq(SUBSET Objects)
      /\ DOMAIN p \subseteq DOMAIN scs
      /\ \A i \in DOMAIN p : p[i] = scs[i]
  BY DEF Popped
<1> HIDE DEF p
<1>2. Roots(p, e) \subseteq Roots(scs, e)
  BY <1>1 DEF Roots
<1> QED
  BY <1>1, <1>2 DEF p

LEMMA PushedRoots ==
    ASSUME NEW scs \in Seq(SUBSET Objects), NEW S \in SUBSET Objects, NEW e \in Refs
    PROVE  /\ Append(scs, S) \in Seq(SUBSET Objects)
           /\ Roots(Append(scs, S), e) \subseteq Roots(scs, e) \cup S
<1> DEFINE p == Append(scs, S)
<1>1. /\ p \in Seq(SUBSET Objects)
      /\ \A i \in DOMAIN p : p[i] = S \/ (i \in DOMAIN scs /\ p[i] = scs[i])
  OBVIOUS
<1> HIDE DEF p
<1>2. Roots(p, e) \subseteq Roots(scs, e) \cup S
  BY <1>1 DEF Roots
<1> QED
  BY <1>1, <1>2 DEF p
-----------------------------------------------------------------------------
(* The client knows its roots and whatever they lead to.                   *)
LEMMA KnownFacts ==
    ASSUME TypeOK
    PROVE  /\ Roots(scopes, main_env) \subseteq Known
           /\ Known \subseteq Objects
           /\ Closed(Pointers, Known, Objects)
<1>1. Roots(scopes, main_env) \subseteq Objects
  <2>1. \A i \in DOMAIN scopes : scopes[i] \subseteq Objects
    BY DEF TypeOK
  <2> QED
    BY <2>1 DEF Roots, TypeOK, Refs
<1> QED
  BY <1>1, ReachRoots, ReachClosed DEF Known

(* The collector visits every pointer there is, but for native closures.   *)
LEMMA VisitsAll ==
    ASSUME TypeOK, BlankMemory, NoClosures
    PROVE  Visits = Pointers
<1>1. ASSUME NEW o \in Objects
      PROVE  Visits[o] = Pointers[o]
  <2>1. CASE kind[o] = "blank"
    BY <2>1 DEF BlankMemory, Visits, Pointers
  <2>2. CASE kind[o] # "blank"
    BY <2>2 DEF NoClosures, TypeOK, AllKinds, Visits
  <2> QED
    BY <2>1, <2>2
<1> QED
  BY <1>1 DEF Visits, Pointers

(* What an allocation does to the collector's state, whether or not it     *)
(* collects: of what some of the roots lead to, and of what is locked,     *)
(* nothing leaves the list if all of it was there.  A mark that is not on  *)
(* the list does not stop the marking short of it.                         *)
LEMMA GcInitSpares ==
    ASSUME Sound, NEW o, GcInit(o),
           NEW R \in SUBSET Roots(scopes, main_env),
           Reach(Pointers, R, Objects) \subseteq managed
    PROVE  /\ o \in Objects \ managed
           /\ Reach(Pointers, R, Objects) \subseteq managed'
           /\ scopes # <<>> => o \in managed'
           /\ managed' \subseteq managed \cup {o}
           /\ locked' = locked /\ locked \subseteq managed'
           /\ marked' \subseteq Objects /\ marked' \cap managed' = {}
           /\ gc_allocs' \in 0 .. GC_THRESHOLD
           /\ scopes' \in Seq(SUBSET Objects) /\ Len(scopes') = Len(scopes)
           /\ Roots(scopes', main_env) \subseteq Roots(scopes, main_env) \cup {o}
<1> USE DEF Sound
<1> DEFINE m     == marked \ {o}
           open  == Objects \ m
           heap  == managed \cup {o}
           marks == MarksFrom(scopes', m)
           K     == Reach(Pointers, R, Objects)
           M     == Reach(Pointers, Roots(scopes', main_env), open)
<1>1. /\ o \in Objects \ managed
      /\ scopes' = Saved(scopes, o)
      /\ locked' = locked
      /\ locked \subseteq managed
      /\ m \subseteq Objects /\ m \cap heap = {}
  BY DEF GcInit, LockedClosed, HeapUnmarked, TypeOK
<1>2. main_env \in Refs /\ scopes \in Seq(SUBSET Objects) /\ gc_allocs \in Nat
      /\ GC_THRESHOLD \in Nat /\ managed \subseteq Objects
  BY GcAssumption DEF TypeOK
<1>3. /\ scopes' \in Seq(SUBSET Objects) /\ Len(scopes') = Len(scopes)
      /\ Roots(scopes', main_env) \subseteq Roots(scopes, main_env) \cup {o}
      /\ Roots(scopes, main_env) \subseteq Roots(scopes', main_env)
      /\ scopes # <<>> => o \in Roots(scopes', main_env)
  BY <1>1, <1>2, SavedRoots
<1>4. marks = m \cup M
  BY VisitsAll DEF MarksFrom
<1>5. /\ M \subseteq open /\ Closed(Pointers, M, open)
      /\ Roots(scopes', main_env) \cap open \subseteq M
      /\ R \cap Objects \subseteq K /\ Closed(Pointers, K, Objects)
  BY ReachRoots, ReachClosed
<1>6. K \subseteq M
  <2> HIDE DEF M, K
  <2>1. K \subseteq open
    BY <1>1, <1>2 DEF K
  <2>2. R \cap Objects \subseteq M \cap K
    BY <2>1, <1>3, <1>5
  <2>3. Closed(Pointers, M \cap K, Objects)
    BY <2>1, <1>5 DEF Closed
  <2>4. K \subseteq M \cap K
    BY <2>2, <2>3, ReachLeast DEF K
  <2> QED
    BY <2>4
<1>7. scopes # <<>> => o \in M
  BY <1>1, <1>3, <1>5
<1>8. /\ K \subseteq managed' /\ (scopes # <<>> => o \in managed')
      /\ managed' \subseteq heap /\ locked \subseteq managed'
      /\ marked' \subseteq Objects /\ marked' \cap managed' = {}
      /\ gc_allocs' \in 0 .. GC_THRESHOLD
  <2> HIDE DEF K, M, marks
  <2>1. K \subseteq heap /\ marks \subseteq Objects
    BY <1>1, <1>4, <1>5 DEF K
  <2>2. CASE CollectDue
    <3>1. /\ managed' = heap \ Sweepable(heap, marks)
          /\ marked' = marks \ heap
          /\ gc_allocs' = 0
      BY <1>1, <2>2 DEF GcInit, SweptMarks, marks
    <3> QED
      BY <3>1, <2>1, <1>1, <1>2, <1>4, <1>6, <1>7 DEF Sweepable
  <2>3. CASE ~CollectDue
    <3>1. managed' = heap /\ marked' = m /\ gc_allocs' = gc_allocs + 1
      BY <1>1, <2>3 DEF GcInit
    <3>2. gc_allocs + 1 <= GC_THRESHOLD
      BY <1>2, <2>3 DEF CollectDue
    <3> QED
      BY <3>1, <3>2, <2>1, <1>1, <1>2
  <2> QED
    BY <2>2, <2>3
<1> QED
  BY <1>1, <1>3, <1>8

(* When nothing dangles, an allocation keeps all that is known, and leaves *)
(* no new mark behind.                                                     *)
LEMMA GcInitKeeps ==
    ASSUME Safe, NEW o, scopes # <<>>, GcInit(o)
    PROVE  /\ o \in Objects \ managed
           /\ Known \cup {o} \subseteq managed'
           /\ managed' \subseteq managed \cup {o}
           /\ locked' = locked /\ locked \subseteq managed'
           /\ marked' \subseteq marked /\ marked' \cap managed' = {}
           /\ gc_allocs' \in 0 .. GC_THRESHOLD
           /\ scopes' \in Seq(SUBSET Objects) /\ Len(scopes') = Len(scopes)
           /\ Roots(scopes', main_env) \subseteq Known \cup {o}
<1> USE DEF Safe
<1>1. /\ o \in Objects \ managed
      /\ Known \subseteq managed' /\ o \in managed'
      /\ managed' \subseteq managed \cup {o}
      /\ locked' = locked /\ locked \subseteq managed'
      /\ marked' \cap managed' = {}
      /\ gc_allocs' \in 0 .. GC_THRESHOLD
      /\ scopes' \in Seq(SUBSET Objects) /\ Len(scopes') = Len(scopes)
      /\ Roots(scopes', main_env) \subseteq Roots(scopes, main_env) \cup {o}
  <2>1. Reach(Pointers, Roots(scopes, main_env), Objects) \subseteq managed
    BY DEF NoDangling, Known
  <2> QED
    BY <2>1, GcInitSpares DEF Known
<1>2. Roots(scopes', main_env) \subseteq Known \cup {o}
  BY <1>1, KnownFacts DEF Sound
<1>3. marked' \subseteq marked
  <2> DEFINE heap  == managed \cup {o}
             open  == Objects \ (marked \ {o})
             marks == MarksFrom(scopes', marked \ {o})
  <2>1. marks \subseteq marked \cup Known \cup {o}
    <3>1. Pointers[o] = {}
      BY <1>1 DEF Sound, BlankMemory, Pointers
    <3>2. Closed(Pointers, Known \cup {o}, open)
      BY <3>1, KnownFacts DEF Closed, Sound
    <3>3. Reach(Pointers, Roots(scopes', main_env), open) \subseteq Known \cup {o}
      BY <3>2, <1>2, ReachLeast
    <3> QED
      BY <3>3, VisitsAll DEF MarksFrom, Sound
  <2>2. CASE CollectDue
    <3>1. marked' = marks \ heap
      BY <2>2 DEF GcInit, SweptMarks
    <3> QED
      BY <3>1, <2>1 DEF NoDangling
  <2>3. CASE ~CollectDue
    BY <2>3 DEF GcInit
  <2> QED
    BY <2>2, <2>3
<1> QED
  BY <1>1, <1>2, <1>3

(* What filling in a new object does to the heap around it.                *)
LEMMA Filled ==
    ASSUME Sound, NEW o \in Objects \ managed,
           o \in managed', managed' \subseteq managed \cup {o},
           locked' = locked, locked \subseteq managed',
           marked' \subseteq Objects, marked' \cap managed' = {},
           gc_allocs' \in 0 .. GC_THRESHOLD, scopes' \in Seq(SUBSET Objects),
           NEW k \in AllKinds \ {"native_clos"}, NEW a \in Refs, NEW b \in Refs,
           Contents(o, k, a, b), main_env' \in Refs
    PROVE  /\ Sound'
           /\ kind'[o] = k /\ fst'[o] = a /\ snd'[o] = b
           /\ \A x \in managed \cap managed' :
                 kind'[x] = kind[x] /\ fst'[x] = fst[x] /\ snd'[x] = snd[x]
<1> USE DEF Sound
<1>1. /\ kind' \in [Objects -> AllKinds \cup {"blank"}]
      /\ fst' \in [Objects -> Refs] /\ snd' \in [Objects -> Refs]
      /\ kind'[o] = k /\ fst'[o] = a /\ snd'[o] = b
      /\ \A x \in Objects \ {o} :
            IF x \in managed'
            THEN kind'[x] = kind[x] /\ fst'[x] = fst[x] /\ snd'[x] = snd[x]
            ELSE kind'[x] = "blank" /\ fst'[x] = NULL /\ snd'[x] = NULL
  BY DEF Contents, TypeOK, Refs
<1>2. \A x \in managed \cap managed' :
          /\ x \in Objects \ {o}
          /\ kind'[x] = kind[x] /\ fst'[x] = fst[x] /\ snd'[x] = snd[x]
  BY <1>1 DEF TypeOK
<1>3. TypeOK'
  BY <1>1 DEF TypeOK, Refs
<1>4. HeapUnmarked'
  BY DEF HeapUnmarked
<1>5. LockedClosed'
  <2>1. ASSUME NEW x \in locked
        PROVE  StablePointers'[x] = StablePointers[x]
    <3>1. x \in managed \cap managed' /\ x \in Objects
      BY DEF LockedClosed, TypeOK
    <3>2. Pointers'[x] = Pointers[x] /\ kind'[x] = kind[x] /\ snd'[x] = snd[x]
      BY <3>1, <1>2 DEF Pointers
    <3> QED
      BY <3>1, <3>2 DEF StablePointers
  <2> QED
    BY <2>1 DEF LockedClosed
<1>6. BlankMemory'
  BY <1>1 DEF BlankMemory, AllKinds
<1>7. NoClosures'
  BY <1>1 DEF NoClosures, AllKinds
<1> QED
  BY <1>1, <1>2, <1>3, <1>4, <1>5, <1>6, <1>7
-----------------------------------------------------------------------------
(* The client's reach grows by no more than the object it just allocated.  *)
LEMMA KnownGrows ==
    ASSUME NEW o,
           Roots(scopes', main_env') \subseteq Known \cup {o},
           \A x \in Known \cup {o} : Pointers'[x] \cap Objects \subseteq Known \cup {o}
    PROVE  Known' \subseteq Known \cup {o}
<1>1. Closed(Pointers', Known \cup {o}, Objects)
  BY DEF Closed
<1>2. Reach(Pointers', Roots(scopes', main_env'), Objects) \subseteq Known \cup {o}
  BY <1>1, ReachLeast
<1> QED
  BY <1>2 DEF Known

(* Scope, lock and environment operations leave memory alone and can only  *)
(* narrow what the client reaches.                                         *)
LEMMA QuietStep ==
    ASSUME Safe, UNCHANGED heapVars,
           scopes' \in Seq(SUBSET Objects), main_env' \in Refs,
           Roots(scopes', main_env') \subseteq Known
    PROVE  /\ Known' \subseteq Known
           /\ UNCHANGED locked => Safe'
<1> USE DEF Safe, Sound
<1>1. Pointers' = Pointers
  BY DEF heapVars, Pointers
<1>2. Known' \subseteq Known
  <2>1. Roots(scopes', main_env') \cap Objects \subseteq Known
    OBVIOUS
  <2>2. Reach(Pointers, Roots(scopes', main_env'), Objects) \subseteq Known
    BY <2>1, KnownFacts, ReachLeast
  <2> QED
    BY <1>1, <2>2 DEF Known
<1>3. ASSUME UNCHANGED locked PROVE Safe'
  <2>1. TypeOK'
    BY <1>3 DEF TypeOK, heapVars
  <2>2. NoDangling'
    BY <1>2 DEF NoDangling, heapVars
  <2>3. HeapUnmarked'
    BY DEF HeapUnmarked, heapVars
  <2>4. LockedClosed'
    BY <1>1, <1>3 DEF LockedClosed, StablePointers, heapVars
  <2>5. BlankMemory' /\ NoClosures'
    BY DEF BlankMemory, NoClosures, heapVars
  <2> QED
    BY <2>1, <2>2, <2>3, <2>4, <2>5
<1> QED
  BY <1>2, <1>3

LEMMA ScopeStep ==
    ASSUME Safe, Scope
    PROVE  Safe' /\ Known' \subseteq Known
<1> USE DEF Safe, Sound
<1>1. /\ scopes \in Seq(SUBSET Objects) /\ main_env \in Refs
      /\ Roots(scopes, main_env) \subseteq Known
      /\ Known \subseteq Objects
  BY KnownFacts DEF TypeOK
<1>2. CASE Gc_scope_push
  <2>1. scopes' = Append(scopes, {}) /\ UNCHANGED <<heapVars, locked, main_env>>
    BY <1>2 DEF Gc_scope_push
  <2>2. scopes' \in Seq(SUBSET Objects) /\ Roots(scopes', main_env') \subseteq Known
    BY <1>1, <2>1, PushedRoots
  <2> QED
    BY <1>1, <2>1, <2>2, QuietStep
<1>3. CASE Gc_scope_pop
  <2>1. /\ scopes # <<>> /\ scopes' = Popped(scopes)
        /\ UNCHANGED <<heapVars, locked, main_env>>
    BY <1>3 DEF Gc_scope_pop
  <2>2. scopes' \in Seq(SUBSET Objects) /\ Roots(scopes', main_env') \subseteq Known
    BY <1>1, <2>1, PoppedRoots
  <2> QED
    BY <1>1, <2>1, <2>2, QuietStep
<1>4. ASSUME NEW o \in Known, PUSH_N_SAVE(o)
      PROVE  Safe' /\ Known' \subseteq Known
  <2>1. scopes' = Append(scopes, {o}) /\ UNCHANGED <<heapVars, locked, main_env>>
    BY <1>4 DEF PUSH_N_SAVE
  <2>2. {o} \in SUBSET Objects
    BY <1>1
  <2>3. scopes' \in Seq(SUBSET Objects) /\ Roots(scopes', main_env') \subseteq Known
    BY <1>1, <2>1, <2>2, PushedRoots
  <2> QED
    BY <1>1, <2>1, <2>3, QuietStep
<1>5. ASSUME NEW o \in Known, POP_N_SAVE(o)
      PROVE  Safe' /\ Known' \subseteq Known
  <2>1. /\ scopes # <<>> /\ scopes' = Saved(Popped(scopes), o)
        /\ UNCHANGED <<heapVars, locked, main_env>>
    BY <1>5 DEF POP_N_SAVE
  <2>2. /\ Popped(scopes) \in Seq(SUBSET Objects)
        /\ Roots(Popped(scopes), main_env) \subseteq Known
    BY <1>1, <2>1, PoppedRoots
  <2> DEFINE p == Popped(scopes)
  <2> HIDE DEF p
  <2>3. o \in Objects /\ main_env' = main_env
    BY <1>1, <2>1
  <2>4. /\ Saved(p, o) \in Seq(SUBSET Objects)
        /\ Roots(Saved(p, o), main_env) \subseteq Roots(p, main_env) \cup {o}
    BY <1>1, <2>2, <2>3, SavedRoots DEF p
  <2>5. scopes' \in Seq(SUBSET Objects) /\ Roots(scopes', main_env') \subseteq Known
    BY <2>1, <2>2, <2>3, <2>4 DEF p
  <2> QED
    BY <1>1, <2>1, <2>5, QuietStep
<1>6. ASSUME NEW o \in Known, Gc_scope_save(o)
      PROVE  Safe' /\ Known' \subseteq Known
  <2>1. scopes' = Saved(scopes, o) /\ UNCHANGED <<heapVars, locked, main_env>>
    BY <1>6 DEF Gc_scope_save
  <2>2. scopes' \in Seq(SUBSET Objects) /\ Roots(scopes', main_env') \subseteq Known
    BY <1>1, <2>1, SavedRoots
  <2> QED
    BY <1>1, <2>1, <2>2, QuietStep
<1> QED
  BY <1>2, <1>3, <1>4, <1>5, <1>6 DEF Scope
-----------------------------------------------------------------------------
(* An allocation whose fields the client knew beforehand: none of them is  *)
(* lost to the collection the allocation itself may trigger.               *)
LEMMA AllocStep ==
    ASSUME Safe, "native_clos" \notin Kinds,
           NEW o, NEW k \in Kinds \cup {"env"},
           NEW a \in Known \cup {NULL}, NEW b \in Known \cup {NULL},
           scopes # <<>>, GcInit(o), Contents(o, k, a, b),
           main_env' \in {main_env, o}
    PROVE  /\ Safe' /\ marked' \subseteq marked
           /\ o \in Objects \ Known /\ Known' \subseteq Known \cup {o}
           /\ kind'[o] = k /\ fst'[o] = a /\ snd'[o] = b
           /\ locked' = locked
           /\ \A x \in Known \cup locked :
                 kind'[x] = kind[x] /\ fst'[x] = fst[x] /\ snd'[x] = snd[x]
<1> USE DEF Safe
<1>1. /\ o \in Objects \ managed
      /\ Known \cup {o} \subseteq managed'
      /\ managed' \subseteq managed \cup {o}
      /\ locked' = locked /\ locked \subseteq managed'
      /\ marked' \subseteq marked /\ marked' \cap managed' = {}
      /\ gc_allocs' \in 0 .. GC_THRESHOLD
      /\ scopes' \in Seq(SUBSET Objects)
      /\ Roots(scopes', main_env) \subseteq Known \cup {o}
  BY GcInitKeeps
<1>2. /\ k \in AllKinds \ {"native_clos"}
      /\ a \in Refs /\ b \in Refs /\ Known \subseteq Objects
      /\ main_env' \in Refs /\ marked \subseteq Objects
  BY <1>1, GcAssumption, KnownFacts DEF AllKinds, Refs, Sound, TypeOK
<1>3. /\ Sound'
      /\ kind'[o] = k /\ fst'[o] = a /\ snd'[o] = b
      /\ \A x \in managed \cap managed' :
            kind'[x] = kind[x] /\ fst'[x] = fst[x] /\ snd'[x] = snd[x]
  BY <1>1, <1>2, Filled
<1>4. \A x \in Known \cup locked :
          /\ x \in Objects \ {o}
          /\ kind'[x] = kind[x] /\ fst'[x] = fst[x] /\ snd'[x] = snd[x]
  BY <1>1, <1>2, <1>3 DEF NoDangling, Sound, LockedClosed, TypeOK
<1>5. Known' \subseteq Known \cup {o}
  <2>1. Roots(scopes', main_env') \subseteq Known \cup {o}
    BY <1>1 DEF Roots
  <2>2. ASSUME NEW x \in Known
        PROVE  Pointers'[x] \cap Objects \subseteq Known \cup {o}
    <3>1. Pointers'[x] = Pointers[x]
      BY <1>4 DEF Pointers
    <3> QED
      BY <3>1, KnownFacts DEF Closed, Sound
  <2>3. Pointers'[o] \cap Objects \subseteq Known
    BY <1>1, <1>3, GcAssumption DEF Pointers
  <2> QED
    BY <2>1, <2>2, <2>3, KnownGrows
<1>6. NoDangling'
  BY <1>1, <1>5 DEF NoDangling
<1> QED
  BY <1>1, <1>3, <1>4, <1>5, <1>6

(* Installing a binding in a lambda's own environment.                     *)
LEMMA BindStep ==
    ASSUME Safe, NEW e, NEW l \in Known, kind[l] = "lambda", BindLambda(l, e)
    PROVE  /\ Safe' /\ marked' \subseteq marked
           /\ e \in Objects \ Known /\ Known' \subseteq Known \cup {e}
           /\ kind'[e] = "env" /\ fst'[e] = fst[l] /\ snd'[e] = l /\ fst'[l] = e
           /\ locked' = locked /\ main_env' = main_env
           /\ \A x \in Known \cup locked : /\ kind'[x] = kind[x] /\ snd'[x] = snd[x]
                                           /\ x # l => fst'[x] = fst[x]
<1> USE DEF Safe, Sound
<1>1. /\ e \in Objects \ managed
      /\ Known \cup {e} \subseteq managed'
      /\ managed' \subseteq managed \cup {e}
      /\ locked' = locked /\ locked \subseteq managed'
      /\ marked' \subseteq marked /\ marked' \cap managed' = {} /\ gc_allocs' \in 0 .. GC_THRESHOLD
      /\ scopes' \in Seq(SUBSET Objects) /\ main_env' = main_env
      /\ Roots(scopes', main_env) \subseteq Known \cup {e}
  BY GcInitKeeps DEF BindLambda
<1>2. Known \subseteq Objects /\ l \in managed /\ l # e /\ fst[l] \in Refs
  BY <1>1, KnownFacts DEF NoDangling, TypeOK
<1>3. /\ kind' \in [Objects -> AllKinds \cup {"blank"}]
      /\ fst' \in [Objects -> Refs] /\ snd' \in [Objects -> Refs]
      /\ kind'[e] = "env" /\ fst'[e] = fst[l] /\ snd'[e] = l /\ fst'[l] = e
      /\ \A x \in Objects \ {e} :
            IF x \in managed'
            THEN kind'[x] = kind[x] /\ snd'[x] = snd[x] /\ (x # l => fst'[x] = fst[x])
            ELSE kind'[x] = "blank" /\ snd'[x] = NULL /\ fst'[x] = NULL
  BY <1>1, <1>2 DEF BindLambda, TypeOK, Refs, AllKinds
<1>4. TypeOK'
  BY <1>1, <1>3 DEF TypeOK, Refs
<1>5. Known' \subseteq Known \cup {e}
  <2>1. Roots(scopes', main_env') \subseteq Known \cup {e}
    BY <1>1
  <2>2. \A x \in Known : Pointers[x] \cap Objects \subseteq Known
    BY KnownFacts DEF Closed
  <2>3. ASSUME NEW x \in Known
        PROVE  Pointers'[x] \cap Objects \subseteq Known \cup {e}
    <3>1. x \in Objects \ {e} /\ x \in managed'
      BY <1>1, <1>2 DEF NoDangling
    <3>2. Pointers'[x] \subseteq Pointers[x] \cup {e}
      BY <3>1, <1>3 DEF Pointers
    <3> QED
      BY <2>2, <3>2
  <2>4. Pointers'[e] \cap Objects \subseteq Known
    <3>1. Pointers'[e] \subseteq Pointers[l] \cup {l}
      BY <1>1, <1>2, <1>3 DEF Pointers
    <3> QED
      BY <2>2, <3>1
  <2> QED
    BY <2>1, <2>3, <2>4, KnownGrows
<1>6. NoDangling'
  BY <1>1, <1>5 DEF NoDangling
<1>7. HeapUnmarked'
  BY <1>1 DEF HeapUnmarked
<1>8. LockedClosed'
  <2>1. ASSUME NEW x \in locked
        PROVE  StablePointers'[x] = StablePointers[x]
    <3>1. x \in Objects \ {e} /\ x \in managed'
      BY <1>1 DEF LockedClosed, TypeOK
    <3>2. /\ kind'[x] = kind[x] /\ snd'[x] = snd[x]
          /\ kind[x] # "lambda" => Pointers'[x] = Pointers[x]
      BY <3>1, <1>3 DEF Pointers
    <3> QED
      BY <3>1, <3>2 DEF StablePointers
  <2> QED
    BY <1>1, <2>1 DEF LockedClosed
<1>9. BlankMemory'
  BY <1>1, <1>2, <1>3 DEF BlankMemory
<1>10. NoClosures'
  BY <1>2, <1>3 DEF NoClosures
<1>11. Known \cup locked \subseteq (Objects \ {e}) \cap managed'
  BY <1>1, <1>2 DEF NoDangling, LockedClosed, TypeOK
<1> QED
  BY <1>1, <1>3, <1>4, <1>5, <1>6, <1>7, <1>8, <1>9, <1>10, <1>11

(* Locking takes everything reachable with it; unlocking, as written,      *)
(* takes the lock off nothing.                                             *)
LEMMA LockStep ==
    ASSUME Safe, NEW o \in Known, Gc_lock(o) \/ Gc_unlock(o)
    PROVE  /\ Safe' /\ marked' = marked
           /\ Known' = Known /\ locked \subseteq locked'
<1> USE DEF Safe, Sound
<1>1. UNCHANGED <<heapVars, scopes, main_env>>
  BY DEF Gc_lock, Gc_unlock
<1>2. /\ Pointers' = Pointers /\ StablePointers' = StablePointers
      /\ Known' = Known
  BY <1>1 DEF heapVars, Pointers, StablePointers, Known
<1>3. Known \subseteq Objects /\ o \in Objects
  BY KnownFacts
<1>4. CASE Gc_unlock(o)
  <2>1. UnlockReach(o) \cap locked = {}
    BY ReachRoots DEF UnlockReach
  <2>2. locked' = locked
    BY <1>4, <2>1 DEF Gc_unlock
  <2>3. Safe'
    BY <1>1, <1>2, <2>2
       DEF TypeOK, NoDangling, HeapUnmarked, LockedClosed, BlankMemory, NoClosures,
           heapVars
  <2> QED
    BY <1>1, <1>2, <2>2, <2>3 DEF heapVars
<1>5. CASE Gc_lock(o)
  <2> DEFINE open == Objects \ locked
             R == Reach(Visits, {o}, open)
  <2>1. locked' = locked \cup R
    BY <1>5 DEF Gc_lock
  <2>2. R \subseteq open /\ Closed(Visits, R, open)
    BY ReachRoots, ReachClosed
  <2>3. R \subseteq Known
    <3>1. Closed(Pointers, Known, Objects)
      BY KnownFacts
    <3>2. Closed(Pointers, Known, open)
      BY <3>1 DEF Closed
    <3> QED
      BY <3>2, ReachLeast, VisitsAll
  <2>4. LockedClosed'
    <3>1. locked' \subseteq managed
      BY <2>1, <2>3 DEF LockedClosed, NoDangling
    <3>2. ASSUME NEW x \in locked'
          PROVE  StablePointers[x] \subseteq locked'
      <4>1. CASE x \in locked
        BY <2>1, <4>1 DEF LockedClosed
      <4>2. CASE x \in R
        <5>1. x \in Objects
          BY <4>2, <2>2
        <5>2. StablePointers[x] \subseteq Pointers[x] /\ Pointers[x] \subseteq Objects
          BY <5>1 DEF StablePointers, Pointers, TypeOK, Refs
        <5>3. Pointers[x] \cap open \subseteq R
          BY <4>2, <2>2, VisitsAll DEF Closed
        <5> QED
          BY <2>1, <5>2, <5>3
      <4> QED
        BY <2>1, <4>1, <4>2
    <3> QED
      BY <3>1, <3>2, <1>1, <1>2 DEF LockedClosed, heapVars
  <2>5. TypeOK'
    BY <1>1, <2>1, <2>2 DEF TypeOK, heapVars
  <2>6. NoDangling' /\ HeapUnmarked' /\ BlankMemory' /\ NoClosures'
    BY <1>1, <1>2 DEF NoDangling, HeapUnmarked, BlankMemory, NoClosures, heapVars
  <2> QED
    BY <1>1, <1>2, <2>1, <2>4, <2>5, <2>6 DEF heapVars
<1> QED
  BY <1>4, <1>5
-----------------------------------------------------------------------------
LEMMA InitIInv == Init => IInv
<1> SUFFICES ASSUME Init PROVE IInv
  OBVIOUS
<1> USE DEF Init
<1>1. TypeOK
  BY GcAssumption DEF TypeOK, Refs
<1>2. Known = {}
  <2>1. Roots(scopes, main_env) = {}
    BY DEF Roots
  <2>2. Closed(Pointers, {}, Objects)
    BY DEF Closed
  <2>3. Reach(Pointers, {}, Objects) \subseteq {}
    BY <2>2, ReachLeast
  <2> QED
    BY <2>1, <2>3 DEF Known
<1> QED
  BY <1>1, <1>2
     DEF IInv, Safe, Sound, HeapUnmarked, NoDangling, MarksClear, LockedClosed,
         BlankMemory, NoClosures

(* One step of the client, whichever it is.                                *)
LEMMA NextSafe ==
    ASSUME Safe, "native_clos" \notin Kinds, [Next]_vars
    PROVE  Safe' /\ marked' \subseteq marked
<1> USE DEF heapVars
<1>1. CASE Scope
  <2>1. marked' = marked
    BY <1>1 DEF Scope, Gc_scope_push, Gc_scope_pop, PUSH_N_SAVE, POP_N_SAVE, Gc_scope_save
  <2> QED
    BY <1>1, <2>1, ScopeStep
<1>2. CASE Alloc
  <2>1. PICK o \in Objects \ managed, k \in Kinds :
            \E p \in FieldPairs(k) : New(o, k, p[1], p[2])
    BY <1>2 DEF Alloc
  <2>2. PICK p \in FieldPairs(k) : New(o, k, p[1], p[2])
    BY <2>1
  <2>3. p[1] \in Known \cup {NULL} /\ p[2] \in Known \cup {NULL}
    BY <2>2 DEF FieldPairs, KnownEnvs
  <2>4. /\ scopes # <<>> /\ GcInit(o) /\ Contents(o, k, p[1], p[2])
        /\ main_env' = main_env
    BY <2>2 DEF New
  <2> QED
    BY <2>3, <2>4, AllocStep
<1>3. CASE Bind
  BY <1>3, BindStep DEF Bind
<1>4. CASE MainPut
  <2>1. PICK e \in Objects \ managed, v \in (Known \ KnownEnvs) \cup {NULL} :
            Env_main_put(e, v)
    BY <1>4 DEF MainPut
  <2>2. main_env \in Known \cup {NULL}
    BY KnownFacts DEF Safe, Sound, Roots
  <2>3. /\ scopes # <<>> /\ GcInit(e) /\ Contents(e, "env", main_env, v)
        /\ main_env' = e
    BY <2>1 DEF Env_main_put
  <2> QED
    BY <2>1, <2>2, <2>3, AllocStep
<1>5. ASSUME NEW e \in KnownEnvs \cup {NULL}, Env_main_set(e)
      PROVE  Safe' /\ marked' \subseteq marked
  <2>1. main_env' = e /\ UNCHANGED <<heapVars, locked, scopes>>
    BY <1>5 DEF Env_main_set
  <2>2. e \in Refs /\ e \in Known \cup {NULL} /\ TypeOK
    BY <1>5, KnownFacts DEF Safe, Sound, KnownEnvs, Refs
  <2>3. Roots(scopes', main_env') \subseteq Known
    BY <2>1, <2>2, KnownFacts DEF Roots
  <2> QED
    BY <2>1, <2>2, <2>3, QuietStep DEF TypeOK
<1>6. ASSUME NEW o \in Known, Gc_lock(o) \/ Gc_unlock(o)
      PROVE  Safe' /\ marked' \subseteq marked
  BY <1>6, LockStep
<1>7. CASE UNCHANGED vars
  <2>1. /\ UNCHANGED <<heapVars, locked, scopes, main_env>>
        /\ Roots(scopes', main_env') \subseteq Known
    BY <1>7, KnownFacts DEF vars, Safe, Sound
  <2> QED
    BY <2>1, QuietStep DEF Safe, Sound, TypeOK
<1> QED
  BY <1>1, <1>2, <1>3, <1>4, <1>5, <1>6, <1>7 DEF Next

LEMMA NextIInv ==
    ASSUME IInv, "native_clos" \notin Kinds, [Next]_vars
    PROVE  IInv'
  BY NextSafe DEF IInv, MarksClear

(* The inductive invariant of the collector.                               *)
THEOREM Invariance ==
    ASSUME "native_clos" \notin Kinds
    PROVE  Spec => []IInv
<1>1. IInv /\ [Next]_vars => IInv'
  BY NextIInv
<1> QED
  BY <1>1, InitIInv, PTL DEF Spec

(* Every variable keeps its type, and at most GC_THRESHOLD allocations     *)
(* pass between collections (gc.c:101).                                    *)
THEOREM TypeCorrect ==
    ASSUME "native_clos" \notin Kinds
    PROVE  Spec => []TypeOK
<1>1. IInv => TypeOK
  BY DEF IInv, Safe, Sound
<1> QED
  BY <1>1, Invariance, PTL

(* Memory safety: what main_env and the scopes lead to is never freed,     *)
(* however the client interleaves allocation, binding, scopes and locks.   *)
THEOREM NothingDangles ==
    ASSUME "native_clos" \notin Kinds
    PROVE  Spec => []NoDangling
<1>1. IInv => NoDangling
  BY DEF IInv, Safe, Sound
<1> QED
  BY <1>1, Invariance, PTL

(* Sweeping leaves no mark behind, which the next marking relies on.       *)
THEOREM SweepClearsMarks ==
    ASSUME "native_clos" \notin Kinds
    PROVE  Spec => []MarksClear
<1>1. IInv => MarksClear
  BY DEF IInv, Safe, Sound
<1> QED
  BY <1>1, Invariance, PTL

(* A lock keeps an object and the immutable part of its contents.          *)
THEOREM LocksHold ==
    ASSUME "native_clos" \notin Kinds
    PROVE  Spec => []LockedClosed
<1>1. IInv => LockedClosed
  BY DEF IInv, Safe, Sound
<1> QED
  BY <1>1, Invariance, PTL
-----------------------------------------------------------------------------
FreesGarbage == \A o \in managed \ managed' : o \notin Known /\ o \notin locked

LEMMA NextFreesGarbage ==
    ASSUME Safe, Next
    PROVE  FreesGarbage
<1>1. ASSUME NEW o, scopes # <<>>, GcInit(o)
      PROVE  FreesGarbage
  BY <1>1, GcInitKeeps DEF FreesGarbage
<1>2. ASSUME managed' = managed
      PROVE  FreesGarbage
  BY <1>2 DEF FreesGarbage
<1>3. CASE Scope
  BY <1>2, <1>3 DEF Scope, Gc_scope_push, Gc_scope_pop, PUSH_N_SAVE, POP_N_SAVE,
                    Gc_scope_save, heapVars
<1>4. CASE Alloc
  BY <1>1, <1>4 DEF Alloc, New
<1>5. CASE Bind
  BY <1>1, <1>5 DEF Bind, BindLambda
<1>6. CASE MainPut
  BY <1>1, <1>6 DEF MainPut, Env_main_put
<1>7. ASSUME NEW e, Env_main_set(e) PROVE FreesGarbage
  BY <1>2, <1>7 DEF Env_main_set, heapVars
<1>8. ASSUME NEW o, Gc_lock(o) \/ Gc_unlock(o) PROVE FreesGarbage
  BY <1>2, <1>8 DEF Gc_lock, Gc_unlock, heapVars
<1> QED
  BY <1>3, <1>4, <1>5, <1>6, <1>7, <1>8 DEF Next

(* Only an object that nobody could reach and that is not locked is ever   *)
(* taken off the list (Gc_sweep).                                          *)
THEOREM SweepsGarbageOnly ==
    ASSUME "native_clos" \notin Kinds
    PROVE  Spec => FreesOnlyGarbage
<1>1. IInv /\ [Next]_vars => [FreesGarbage]_vars
  BY NextFreesGarbage DEF IInv
<1>2. Spec => [][FreesGarbage]_vars
  BY <1>1, Invariance, PTL DEF Spec
<1> QED
  BY <1>2 DEF FreesOnlyGarbage, FreesGarbage
-----------------------------------------------------------------------------
CollectsGarbage == gc_allocs' < gc_allocs => managed \cap managed' \subseteq Known \cup locked

LEMMA GcInitCollects ==
    ASSUME IInv, NEW o, scopes # <<>>, GcInit(o)
    PROVE  CollectsGarbage
<1> USE DEF IInv, Safe, Sound
<1> SUFFICES ASSUME gc_allocs' < gc_allocs
             PROVE  managed \cap managed' \subseteq Known \cup locked
  BY DEF CollectsGarbage
<1> DEFINE heap  == managed \cup {o}
           marks == MarksFrom(scopes', {})
<1>1. /\ o \in Objects \ managed /\ marked \ {o} = {}
      /\ Roots(scopes', main_env) \subseteq Known \cup {o}
      /\ gc_allocs \in Nat
  BY GcInitKeeps DEF MarksClear, TypeOK
<1>2. managed' = heap \ Sweepable(heap, marks)
  <2>1. CASE CollectDue
    BY <1>1, <2>1 DEF GcInit
  <2>2. CASE ~CollectDue
    <3>1. gc_allocs' = gc_allocs + 1
      BY <2>2 DEF GcInit
    <3> QED
      BY <1>1, <3>1
  <2> QED
    BY <2>1, <2>2
<1>3. marks \subseteq Known \cup {o}
  <2> DEFINE S == Known \cup {o}
  <2>1. Pointers[o] = {}
    BY <1>1 DEF BlankMemory, Pointers
  <2>2. Closed(Pointers, S, Objects)
    BY <2>1, KnownFacts DEF Closed
  <2>3. Reach(Pointers, Roots(scopes', main_env), Objects) \subseteq S
    BY <1>1, <2>2, ReachLeast
  <2> QED
    BY <2>3, VisitsAll DEF MarksFrom
<1> QED
  BY <1>1, <1>2, <1>3 DEF Sweepable

LEMMA NextCollectsGarbage ==
    ASSUME IInv, Next
    PROVE  CollectsGarbage
<1>1. ASSUME NEW o, scopes # <<>>, GcInit(o)
      PROVE  CollectsGarbage
  BY <1>1, GcInitCollects
<1>2. ASSUME gc_allocs' = gc_allocs
      PROVE  CollectsGarbage
  BY <1>2 DEF CollectsGarbage, IInv, Safe, Sound, TypeOK
<1>3. CASE Scope
  BY <1>2, <1>3 DEF Scope, Gc_scope_push, Gc_scope_pop, PUSH_N_SAVE, POP_N_SAVE,
                    Gc_scope_save, heapVars
<1>4. CASE Alloc
  BY <1>1, <1>4 DEF Alloc, New
<1>5. CASE Bind
  BY <1>1, <1>5 DEF Bind, BindLambda
<1>6. CASE MainPut
  BY <1>1, <1>6 DEF MainPut, Env_main_put
<1>7. ASSUME NEW e, Env_main_set(e) PROVE CollectsGarbage
  BY <1>2, <1>7 DEF Env_main_set, heapVars
<1>8. ASSUME NEW o, Gc_lock(o) \/ Gc_unlock(o) PROVE CollectsGarbage
  BY <1>2, <1>8 DEF Gc_lock, Gc_unlock, heapVars
<1> QED
  BY <1>3, <1>4, <1>5, <1>6, <1>7, <1>8 DEF Next

(* A collection keeps nothing that was neither reachable nor locked.       *)
THEOREM CollectsAll ==
    ASSUME "native_clos" \notin Kinds
    PROVE  Spec => CollectsAllGarbage
<1>1. IInv /\ [Next]_vars => [CollectsGarbage]_vars
  BY NextCollectsGarbage
<1>2. Spec => [][CollectsGarbage]_vars
  BY <1>1, Invariance, PTL DEF Spec
<1> QED
  BY <1>2 DEF CollectsAllGarbage, CollectsGarbage
-----------------------------------------------------------------------------
\* An env where the code takes an Env *, no env where it takes an Sv *.
EnvOrNull(K, x) == x # NULL => K[x] = "env"
ValOrNull(K, x) == x # NULL => K[x] # "env"

\* What the fields of an object of kind k may hold, K telling the kinds.
FieldsFit(K, k, a, b) ==
    /\ k \in {"lambda", "env"} => EnvOrNull(K, a) /\ ValOrNull(K, b)
    /\ k = "cons" => ValOrNull(K, a) /\ ValOrNull(K, b)

(* TypedPointers, field by field.                                          *)
LEMMA TypedFields ==
    ASSUME Safe
    PROVE  TypedPointers <=> /\ EnvOrNull(kind, main_env)
                             /\ \A x \in Known : FieldsFit(kind, kind[x], fst[x], snd[x])
<1>1. Known \subseteq Objects
  BY KnownFacts DEF Safe, Sound
<1>2. \A x \in Known : Pointers[x] = {fst[x], snd[x]} \ {NULL} /\ kind[x] # "native_clos"
  BY <1>1 DEF Pointers, Safe, Sound, NoClosures
<1> QED
  BY <1>2 DEF TypedPointers, FieldsFit, EnvOrNull, ValOrNull

(* What a known object's fields hold is known, too.                        *)
LEMMA FieldsKnown ==
    ASSUME Safe
    PROVE  /\ main_env \in Known \cup {NULL}
           /\ \A x \in Known : fst[x] \in Known \cup {NULL} /\ snd[x] \in Known \cup {NULL}
<1>1. /\ Known \subseteq Objects /\ Roots(scopes, main_env) \subseteq Known
      /\ \A x \in Known : Pointers[x] \cap Objects \subseteq Known
  BY KnownFacts DEF Safe, Sound, Closed
<1>2. \A x \in Objects : fst[x] \in Refs /\ snd[x] \in Refs
  BY DEF Safe, Sound, TypeOK
<1> QED
  BY <1>1, <1>2 DEF Roots, Pointers, Refs

(* A new object with fields of the right types: its address may be an old  *)
(* one, but no known object still refers to what was there.                *)
LEMMA AllocTyped ==
    ASSUME Safe, TypedPointers, "native_clos" \notin Kinds,
           NEW o, NEW k \in Kinds \cup {"env"},
           NEW a \in Known \cup {NULL}, NEW b \in Known \cup {NULL},
           FieldsFit(kind, k, a, b),
           scopes # <<>>, GcInit(o), Contents(o, k, a, b),
           main_env' = main_env \/ (main_env' = o /\ k = "env")
    PROVE  TypedPointers'
<1>0. main_env' \in {main_env, o}
  OBVIOUS
<1>1. /\ Safe' /\ marked' \subseteq marked
      /\ o \in Objects \ Known /\ Known' \subseteq Known \cup {o}
      /\ kind'[o] = k /\ fst'[o] = a /\ snd'[o] = b
      /\ locked' = locked
      /\ \A x \in Known \cup locked :
            kind'[x] = kind[x] /\ fst'[x] = fst[x] /\ snd'[x] = snd[x]
  BY <1>0, AllocStep, Zenon
<1>2. EnvOrNull(kind', main_env')
  BY <1>1, TypedFields, FieldsKnown DEF EnvOrNull
<1>3. ASSUME NEW x \in Known'
      PROVE  FieldsFit(kind', kind'[x], fst'[x], snd'[x])
  <2>1. CASE x = o
    BY <2>1, <1>1 DEF FieldsFit, EnvOrNull, ValOrNull
  <2>2. CASE x \in Known
    <3>1. FieldsFit(kind, kind[x], fst[x], snd[x])
      BY <2>2, TypedFields
    <3>2. fst[x] \in Known \cup {NULL} /\ snd[x] \in Known \cup {NULL}
      BY <2>2, FieldsKnown
    <3> QED
      BY <2>2, <3>1, <3>2, <1>1 DEF FieldsFit, EnvOrNull, ValOrNull
  <2> QED
    BY <1>1, <2>1, <2>2
<1>4. \A x \in Known' : /\ Pointers'[x] = {fst'[x], snd'[x]} \ {NULL}
                         /\ kind'[x] # "native_clos"
  <2>1. Known' \subseteq Objects
    BY <1>1, KnownFacts DEF Safe, Sound
  <2> QED
    BY <1>1, <2>1 DEF Pointers, Safe, Sound, NoClosures
<1> QED
  BY <1>2, <1>3, <1>4 DEF TypedPointers, FieldsFit, EnvOrNull, ValOrNull

(* The new binding is an env, and the lambda's env field takes it.         *)
LEMMA BindTyped ==
    ASSUME Safe, TypedPointers,
           NEW e, NEW l \in Known, kind[l] = "lambda", BindLambda(l, e)
    PROVE  TypedPointers'
<1>1. /\ Safe'
      /\ e \in Objects \ Known /\ Known' \subseteq Known \cup {e}
      /\ kind'[e] = "env" /\ fst'[e] = fst[l] /\ snd'[e] = l /\ fst'[l] = e
      /\ \A x \in Known : /\ kind'[x] = kind[x] /\ snd'[x] = snd[x]
                          /\ x # l => fst'[x] = fst[x]
  BY BindStep
<1>2. EnvOrNull(kind', main_env')
  <2>1. main_env' = main_env
    BY DEF BindLambda
  <2> QED
    BY <1>1, <2>1, TypedFields, FieldsKnown DEF EnvOrNull
<1>3. EnvOrNull(kind', e) /\ ValOrNull(kind', l) /\ EnvOrNull(kind, fst[l])
      /\ fst[l] \in Known \cup {NULL}
  BY <1>1, TypedFields, FieldsKnown DEF EnvOrNull, ValOrNull, FieldsFit
<1>4. ASSUME NEW x \in Known'
      PROVE  FieldsFit(kind', kind'[x], fst'[x], snd'[x])
  <2>1. CASE x = e
    BY <2>1, <1>1, <1>3 DEF FieldsFit, EnvOrNull, ValOrNull
  <2>2. CASE x \in Known
    <3>1. FieldsFit(kind, kind[x], fst[x], snd[x])
      BY <2>2, TypedFields
    <3>2. fst[x] \in Known \cup {NULL} /\ snd[x] \in Known \cup {NULL}
      BY <2>2, FieldsKnown
    <3> QED
      BY <2>2, <3>1, <3>2, <1>1, <1>3 DEF FieldsFit, EnvOrNull, ValOrNull
  <2> QED
    BY <1>1, <2>1, <2>2
<1>5. \A x \in Known' : /\ Pointers'[x] = {fst'[x], snd'[x]} \ {NULL}
                         /\ kind'[x] # "native_clos"
  <2>1. Known' \subseteq Objects
    BY <1>1, KnownFacts DEF Safe, Sound
  <2> QED
    BY <1>1, <2>1 DEF Pointers, Safe, Sound, NoClosures
<1> QED
  BY <1>2, <1>4, <1>5 DEF TypedPointers, FieldsFit, EnvOrNull, ValOrNull

(* Steps that leave memory alone keep the types of what is still known.    *)
LEMMA QuietTyped ==
    ASSUME Safe, TypedPointers, UNCHANGED <<kind, fst, snd>>,
           Known' \subseteq Known, EnvOrNull(kind, main_env')
    PROVE  TypedPointers'
<1>1. Known \subseteq Objects
  BY KnownFacts DEF Safe, Sound
<1>2. Pointers' = Pointers
  BY DEF Pointers
<1> QED
  BY <1>2 DEF TypedPointers, EnvOrNull

LEMMA NextTyped ==
    ASSUME Safe, TypedPointers, "native_clos" \notin Kinds, [Next]_vars
    PROVE  TypedPointers'
<1>1. EnvOrNull(kind, main_env)
  BY TypedFields
<1>2. CASE Scope
  <2>1. UNCHANGED <<kind, fst, snd, main_env>>
    BY <1>2 DEF Scope, Gc_scope_push, Gc_scope_pop, PUSH_N_SAVE, POP_N_SAVE,
                Gc_scope_save, heapVars
  <2> QED
    BY <1>1, <1>2, <2>1, ScopeStep, QuietTyped
<1>3. CASE Alloc
  <2>1. PICK o \in Objects \ managed, k \in Kinds :
            \E p \in FieldPairs(k) : New(o, k, p[1], p[2])
    BY <1>3 DEF Alloc
  <2>2. PICK p \in FieldPairs(k) : New(o, k, p[1], p[2])
    BY <2>1
  <2>3. /\ p[1] \in Known \cup {NULL} /\ p[2] \in Known \cup {NULL}
        /\ FieldsFit(kind, k, p[1], p[2])
    BY <2>2 DEF FieldPairs, KnownEnvs, FieldsFit, EnvOrNull, ValOrNull
  <2>4. /\ scopes # <<>> /\ GcInit(o) /\ Contents(o, k, p[1], p[2])
        /\ main_env' = main_env
    BY <2>2 DEF New
  <2> QED
    BY <2>3, <2>4, AllocTyped
<1>4. CASE Bind
  BY <1>4, BindTyped DEF Bind
<1>5. CASE MainPut
  <2>1. PICK e \in Objects \ managed, v \in (Known \ KnownEnvs) \cup {NULL} :
            Env_main_put(e, v)
    BY <1>5 DEF MainPut
  <2>2. /\ scopes # <<>> /\ GcInit(e) /\ Contents(e, "env", main_env, v)
        /\ main_env' = e
    BY <2>1 DEF Env_main_put
  <2>3. /\ main_env \in Known \cup {NULL} /\ v \in Known \cup {NULL}
        /\ FieldsFit(kind, "env", main_env, v)
    BY <1>1, <2>1, FieldsKnown DEF KnownEnvs, FieldsFit, ValOrNull
  <2> QED
    BY <2>2, <2>3, AllocTyped
<1>6. ASSUME NEW e \in KnownEnvs \cup {NULL}, Env_main_set(e)
      PROVE  TypedPointers'
  <2>1. main_env' = e /\ UNCHANGED <<heapVars, locked, scopes>>
    BY <1>6 DEF Env_main_set
  <2>2. e \in Refs /\ e \in Known \cup {NULL} /\ TypeOK /\ EnvOrNull(kind, e)
    BY <1>6, KnownFacts DEF Safe, Sound, KnownEnvs, Refs, EnvOrNull
  <2>3. Roots(scopes', main_env') \subseteq Known
    BY <2>1, <2>2, KnownFacts DEF Roots
  <2>4. Known' \subseteq Known
    BY <2>1, <2>2, <2>3, QuietStep DEF TypeOK
  <2> QED
    BY <2>1, <2>2, <2>4, QuietTyped DEF heapVars
<1>7. ASSUME NEW o \in Known, Gc_lock(o) \/ Gc_unlock(o)
      PROVE  TypedPointers'
  <2>1. UNCHANGED <<heapVars, scopes, main_env>>
    BY <1>7 DEF Gc_lock, Gc_unlock
  <2> QED
    BY <1>1, <1>7, <2>1, LockStep, QuietTyped DEF heapVars
<1>8. CASE UNCHANGED vars
  BY <1>1, <1>8, QuietTyped DEF vars, heapVars, Known, Pointers
<1> QED
  BY <1>2, <1>3, <1>4, <1>5, <1>6, <1>7, <1>8 DEF Next

(* Addresses are reused, and yet the client never finds an Env where the   *)
(* code expects an Sv, or the reverse: nothing it can follow outlives what *)
(* it pointed to.                                                          *)
THEOREM TypesSurviveReuse ==
    ASSUME "native_clos" \notin Kinds
    PROVE  Spec => []TypedPointers
<1>1. Init => IInv /\ TypedPointers
  <2> SUFFICES ASSUME Init PROVE TypedPointers
    BY InitIInv
  <2>1. IInv
    BY InitIInv
  <2>2. \A x \in Known : kind[x] = "blank"
    BY <2>1, KnownFacts DEF Init, IInv, Safe, Sound
  <2> QED
    BY <2>1, <2>2, TypedFields DEF IInv, Init, FieldsFit, EnvOrNull
<1>2. IInv /\ TypedPointers /\ [Next]_vars => (IInv /\ TypedPointers)'
  BY NextIInv, NextTyped DEF IInv
<1> QED
  BY <1>1, <1>2, PTL DEF Spec

(***************************************************************************)
(* StuApi: a host of libstu.                                               *)
(***************************************************************************)

\* A reference into what the main environment keeps.
IntoMain(x) == x \in MainKnown \cup {NULL}

\* Locked objects refer to locked ones and to the main environment's; a lambda
\* that an evaluation can still bind to a name is one of the latter.
Whole ==
    /\ \A o \in locked : Pointers[o] \subseteq locked \cup MainKnown
    /\ phase = "eval" =>
           \A o \in Known \cap locked : kind[o] = "lambda" => o \in MainKnown

\* What the environments the host can use lead to is all there.
KeptIntact == \A e \in kept : Reach(Pointers, {e}, Objects) \subseteq managed

ApiInv ==
    /\ Sound
    /\ ApiTypeOK
    /\ held \cup types \subseteq locked
    /\ MainKnown \subseteq managed
    /\ EvalSafe
    /\ KeptIntact
    /\ phase = "dump" => Len(scopes) = 1
    /\ phase = "eval" /\ ~foreign => IntoMain(base)
    /\ phase = "eval" /\ ~diverged => ~foreign
    /\ ~diverged => Whole
-----------------------------------------------------------------------------
(* What an environment leads to includes it and has no way out.            *)
LEMMA RootedFacts ==
    ASSUME NEW P, NEW e \in Refs, \A x \in Objects : P[x] \subseteq Objects
    PROVE  /\ Roots(<<>>, e) = {e} \ {NULL}
           /\ e \in Reach(P, Roots(<<>>, e), Objects) \cup {NULL}
           /\ Reach(P, Roots(<<>>, e), Objects) \subseteq Objects
           /\ \A x \in Reach(P, Roots(<<>>, e), Objects) :
                 P[x] \subseteq Reach(P, Roots(<<>>, e), Objects)
<1> DEFINE M == Reach(P, Roots(<<>>, e), Objects)
<1>1. Roots(<<>>, e) = {e} \ {NULL}
  BY DEF Roots
<1>2. M \subseteq Objects /\ Roots(<<>>, e) \cap Objects \subseteq M /\ Closed(P, M, Objects)
  BY ReachRoots, ReachClosed
<1> HIDE DEF M
<1>3. e \in M \cup {NULL} /\ \A x \in M : P[x] \subseteq M
  BY <1>1, <1>2 DEF Refs, Closed
<1> QED
  BY <1>1, <1>2, <1>3 DEF M

(* The main environment's part of what is known.                           *)
LEMMA MainFacts ==
    ASSUME TypeOK
    PROVE  /\ IntoMain(main_env)
           /\ MainKnown \subseteq Objects
           /\ \A x \in MainKnown : Pointers[x] \subseteq MainKnown
           /\ MainKnown \subseteq Known
           /\ scopes = <<>> => Known = MainKnown
<1>1. main_env \in Refs /\ \A x \in Objects : Pointers[x] \subseteq Objects
  BY DEF Pointers, TypeOK, Refs
<1>2. /\ IntoMain(main_env)
      /\ MainKnown \subseteq Objects
      /\ \A x \in MainKnown : Pointers[x] \subseteq MainKnown
  BY <1>1, RootedFacts DEF MainKnown, IntoMain
<1>3. MainKnown \subseteq Known
  <2>1. Roots(<<>>, main_env) \cap Objects \subseteq Known
    BY KnownFacts DEF Roots
  <2>2. Closed(Pointers, Known, Objects)
    BY KnownFacts
  <2> QED
    BY <2>1, <2>2, ReachLeast DEF MainKnown
<1> QED
  BY <1>2, <1>3 DEF Known, MainKnown

(* The same, of the state after a step.                                    *)
LEMMA MainFactsNext ==
    ASSUME TypeOK'
    PROVE  /\ main_env' \in MainKnown' \cup {NULL}
           /\ \A x \in MainKnown' : Pointers'[x] \subseteq MainKnown'
<1>1. main_env' \in Refs /\ \A x \in Objects : Pointers'[x] \subseteq Objects
  BY DEF Pointers, TypeOK, Refs
<1>2. MainKnown' = Reach(Pointers', Roots(<<>>, main_env'), Objects)
  BY DEF MainKnown
<1> QED
  BY <1>1, <1>2, RootedFacts

(* What the main environment leads to only grows, when it is extended at   *)
(* its front and what it leads to is changed by insertion.                 *)
LEMMA MainGrows ==
    ASSUME TypeOK, main_env \in MainKnown' \cup {NULL},
           \A x \in MainKnown : x \in MainKnown' => Pointers[x] \subseteq MainKnown'
    PROVE  MainKnown \subseteq MainKnown'
<1> DEFINE S == MainKnown \cap MainKnown'
<1>1. Roots(<<>>, main_env) = {main_env} \ {NULL}
  BY DEF Roots
<1>2. Roots(<<>>, main_env) \cap Objects \subseteq S
  BY MainFacts, <1>1 DEF IntoMain
<1>3. Closed(Pointers, S, Objects)
  BY MainFacts DEF Closed
<1>4. Reach(Pointers, Roots(<<>>, main_env), Objects) \subseteq S
  BY <1>2, <1>3, ReachLeast
<1> QED
  BY <1>4 DEF MainKnown

(* What one of a closed set of objects leads to is in that set.            *)
LEMMA ReachWithin ==
    ASSUME NEW P, NEW S \in SUBSET Objects, NEW x \in S,
           \A y \in S : P[y] \subseteq S
    PROVE  Reach(P, {x}, Objects) \subseteq S
<1>1. {x} \cap Objects \subseteq S /\ Closed(P, S, Objects)
  BY DEF Closed
<1> QED
  BY <1>1, ReachLeast

\* All that is locked once Gc_lock has been called for each of S.
LockedWith(S) == locked \cup Reach(Visits, S, Objects \ locked)

(* Locking objects the client knows: all they refer to is locked with them *)
(* or was before.                                                          *)
LEMMA LockMore ==
    ASSUME Safe, NEW S \in SUBSET Known
    PROVE  /\ S \subseteq LockedWith(S) /\ locked \subseteq LockedWith(S)
           /\ LockedWith(S) \subseteq managed /\ LockedWith(S) \subseteq Objects
           /\ \A x \in LockedWith(S) : StablePointers[x] \subseteq LockedWith(S)
           /\ \A x \in LockedWith(S) \ locked : Pointers[x] \subseteq LockedWith(S)
<1> USE DEF Safe, Sound
<1> DEFINE open == Objects \ locked
           R == Reach(Visits, S, open)
           L == LockedWith(S)
<1>1. Known \subseteq Objects /\ Known \subseteq managed /\ locked \subseteq managed
      /\ managed \subseteq Objects
  BY KnownFacts DEF NoDangling, LockedClosed, TypeOK
<1>2. R \subseteq open /\ S \cap open \subseteq R /\ Closed(Pointers, R, open)
  BY ReachRoots, ReachClosed, VisitsAll
<1>3. R \subseteq Known
  <2>1. Closed(Pointers, Known, open)
    BY KnownFacts DEF Closed
  <2> QED
    BY <2>1, ReachLeast, VisitsAll
<1> HIDE DEF R
<1>4. L = locked \cup R
  BY DEF R, LockedWith
<1> HIDE DEF L
<1>5. \A x \in L \ locked : Pointers[x] \subseteq L
  <2>1. \A x \in Objects : Pointers[x] \subseteq Objects
    BY DEF Pointers, TypeOK, Refs
  <2> QED
    BY <2>1, <1>2, <1>4 DEF Closed
<1>6. \A x \in L : StablePointers[x] \subseteq L
  <2>1. \A x \in Objects : StablePointers[x] \subseteq Pointers[x]
    BY DEF StablePointers, Pointers
  <2>2. \A x \in locked : StablePointers[x] \subseteq L
    BY <1>4 DEF LockedClosed
  <2> QED
    BY <2>1, <2>2, <1>1, <1>3, <1>4, <1>5
<1> QED
  BY <1>1, <1>2, <1>3, <1>4, <1>5, <1>6 DEF L

(* A step that leaves memory alone keeps the heap sound, if what is locked *)
(* after it is still closed.                                               *)
LEMMA QuietSound ==
    ASSUME Sound, UNCHANGED heapVars,
           scopes' \in Seq(SUBSET Objects), main_env' \in Refs,
           locked' \subseteq managed, \A x \in locked' : StablePointers[x] \subseteq locked'
    PROVE  /\ Sound'
           /\ Pointers' = Pointers
           /\ main_env' = main_env => MainKnown' = MainKnown
           /\ scopes' = <<>> => Known' = MainKnown'
           /\ Roots(scopes', main_env') \subseteq Known => Known' \subseteq Known
<1> USE DEF Sound, heapVars
<1>1. Pointers' = Pointers /\ StablePointers' = StablePointers
  BY DEF Pointers, StablePointers
<1>2. Sound'
  <2>1. TypeOK'
    BY DEF TypeOK
  <2>2. LockedClosed'
    BY <1>1 DEF LockedClosed
  <2>3. HeapUnmarked' /\ BlankMemory' /\ NoClosures'
    BY DEF HeapUnmarked, BlankMemory, NoClosures
  <2> QED
    BY <2>1, <2>2, <2>3
<1>3. ASSUME Roots(scopes', main_env') \subseteq Known
      PROVE  Known' \subseteq Known
  <2>1. Reach(Pointers, Roots(scopes', main_env'), Objects) \subseteq Known
    BY <1>3, KnownFacts, ReachLeast
  <2> QED
    BY <2>1, <1>1 DEF Known
<1> QED
  BY <1>1, <1>2, <1>3 DEF Known, MainKnown
-----------------------------------------------------------------------------
(* What a step of an evaluation leaves as it was: the locks, the locked    *)
(* objects but for lambdas being bound, and all the main environment held. *)
LEMMA ScopeHeap ==
    ASSUME Safe, Scope
    PROVE  /\ Safe' /\ locked' = locked /\ Known' \subseteq Known
           /\ MainKnown' = MainKnown /\ Pointers' = Pointers /\ kind' = kind
<1>1. UNCHANGED <<heapVars, locked, main_env>>
  BY DEF Scope, Gc_scope_push, Gc_scope_pop, PUSH_N_SAVE, POP_N_SAVE, Gc_scope_save
<1>2. Pointers' = Pointers /\ kind' = kind
  BY <1>1 DEF heapVars, Pointers
<1> QED
  BY <1>1, <1>2, ScopeStep DEF MainKnown

LEMMA AllocHeap ==
    ASSUME Safe, "native_clos" \notin Kinds,
           NEW o, NEW k \in Kinds \cup {"env"},
           NEW a \in Known \cup {NULL}, NEW b \in Known \cup {NULL},
           scopes # <<>>, GcInit(o), Contents(o, k, a, b),
           main_env' \in {main_env, o}, main_env' = o => a = main_env
    PROVE  /\ Safe' /\ locked' = locked
           /\ Known' \subseteq Known \cup {o} /\ o \notin locked
           /\ MainKnown \subseteq MainKnown'
           /\ \A x \in locked : kind'[x] = kind[x] /\ Pointers'[x] = Pointers[x]
<1>1. /\ Safe' /\ marked' \subseteq marked
      /\ o \in Objects \ Known /\ Known' \subseteq Known \cup {o}
      /\ kind'[o] = k /\ fst'[o] = a /\ snd'[o] = b
      /\ locked' = locked
      /\ \A x \in Known \cup locked :
            kind'[x] = kind[x] /\ fst'[x] = fst[x] /\ snd'[x] = snd[x]
  BY AllocStep, Zenon
<1>2. /\ TypeOK /\ TypeOK' /\ locked \subseteq Objects /\ locked \subseteq managed
      /\ Known \subseteq Objects /\ o \notin managed
  BY <1>1, KnownFacts DEF Safe, Sound, TypeOK, LockedClosed, GcInit
<1>3. \A x \in Known \cup locked : Pointers'[x] = Pointers[x]
  BY <1>1, <1>2 DEF Pointers
<1>4. /\ main_env' \in MainKnown' \cup {NULL}
      /\ \A x \in MainKnown' : Pointers'[x] \subseteq MainKnown'
  BY <1>2, MainFactsNext
<1>5. main_env \in MainKnown' \cup {NULL}
  <2>1. CASE main_env' = main_env
    BY <1>4, <2>1
  <2>2. CASE main_env' = o
    <3>1. o \in MainKnown'
      BY <1>1, <1>4, <2>2, GcAssumption
    <3>2. Pointers'[o] = {fst'[o], snd'[o]} \ {NULL}
      BY <1>1 DEF Pointers
    <3>3. fst'[o] = main_env
      BY <1>1, <2>2
    <3> QED
      BY <3>1, <3>2, <3>3, <1>4
  <2> QED
    BY <2>1, <2>2
<1>6. \A x \in MainKnown : x \in MainKnown' => Pointers[x] \subseteq MainKnown'
  BY <1>2, <1>3, <1>4, MainFacts
<1>7. MainKnown \subseteq MainKnown'
  BY <1>2, <1>5, <1>6, MainGrows
<1> QED
  BY <1>1, <1>2, <1>3, <1>7

LEMMA BindHeap ==
    ASSUME Safe, NEW e, NEW l \in Known, kind[l] = "lambda", BindLambda(l, e)
    PROVE  /\ Safe' /\ locked' = locked
           /\ Known' \subseteq Known \cup {e} /\ e \notin locked
           /\ MainKnown \subseteq MainKnown'
           /\ \A x \in locked : kind'[x] = kind[x] /\ (x # l => Pointers'[x] = Pointers[x])
<1>1. /\ Safe' /\ marked' \subseteq marked
      /\ e \in Objects \ Known /\ Known' \subseteq Known \cup {e}
      /\ kind'[e] = "env" /\ fst'[e] = fst[l] /\ snd'[e] = l /\ fst'[l] = e
      /\ locked' = locked /\ main_env' = main_env
      /\ \A x \in Known \cup locked : /\ kind'[x] = kind[x] /\ snd'[x] = snd[x]
                                      /\ x # l => fst'[x] = fst[x]
  BY BindStep
<1>2. /\ TypeOK /\ TypeOK' /\ locked \subseteq Objects /\ locked \subseteq managed
      /\ Known \subseteq Objects /\ e \notin managed
  BY <1>1, KnownFacts DEF Safe, Sound, TypeOK, LockedClosed, BindLambda, GcInit
<1>3. \A x \in Known \cup locked : x # l => Pointers'[x] = Pointers[x]
  BY <1>1, <1>2 DEF Pointers
<1>4. /\ main_env' \in MainKnown' \cup {NULL}
      /\ \A x \in MainKnown' : Pointers'[x] \subseteq MainKnown'
  BY <1>2, MainFactsNext
<1>5. main_env \in MainKnown' \cup {NULL}
  BY <1>1, <1>4
<1>6. ASSUME l \in MainKnown'
      PROVE  Pointers[l] \subseteq MainKnown'
  <2>1. /\ Pointers[l] = {fst[l], snd[l]} \ {NULL}
        /\ Pointers'[l] = {e, snd[l]} \ {NULL}
        /\ Pointers'[e] = {fst[l], l} \ {NULL}
    BY <1>1, <1>2 DEF Pointers
  <2>2. e \in Pointers'[l]
    BY <1>1, <2>1, GcAssumption
  <2>3. e \in MainKnown'
    BY <2>2, <1>4, <1>6
  <2> QED
    BY <2>1, <2>3, <1>4, <1>6
<1>7. \A x \in MainKnown : x \in MainKnown' => Pointers[x] \subseteq MainKnown'
  BY <1>2, <1>3, <1>4, <1>6, MainFacts
<1>8. MainKnown \subseteq MainKnown'
  BY <1>2, <1>5, <1>7, MainGrows
<1> QED
  BY <1>1, <1>2, <1>3, <1>8

LEMMA EvalHeap ==
    ASSUME Safe, "native_clos" \notin Kinds, Scope \/ Alloc \/ Bind \/ MainPut
    PROVE  /\ Safe' /\ locked' = locked
           /\ Known' \cap locked \subseteq Known
           /\ MainKnown \subseteq MainKnown'
           /\ \A x \in locked : /\ kind'[x] = kind[x]
                                /\ \/ Pointers'[x] = Pointers[x]
                                   \/ x \in Known /\ kind[x] = "lambda"
<1>1. CASE Scope
  BY <1>1, ScopeHeap
<1>2. CASE Alloc
  <2>1. PICK o \in Objects \ managed, k \in Kinds :
            \E p \in FieldPairs(k) : New(o, k, p[1], p[2])
    BY <1>2 DEF Alloc
  <2>2. PICK p \in FieldPairs(k) : New(o, k, p[1], p[2])
    BY <2>1
  <2>3. p[1] \in Known \cup {NULL} /\ p[2] \in Known \cup {NULL}
    BY <2>2 DEF FieldPairs, KnownEnvs
  <2>4. /\ scopes # <<>> /\ GcInit(o) /\ Contents(o, k, p[1], p[2])
        /\ main_env' = main_env
    BY <2>2 DEF New
  <2>5. main_env' # o
    BY <2>1, <2>4, KnownFacts, GcAssumption DEF Safe, Sound, NoDangling, Roots
  <2>6. /\ Safe' /\ locked' = locked
        /\ Known' \subseteq Known \cup {o} /\ o \notin locked
        /\ MainKnown \subseteq MainKnown'
        /\ \A x \in locked : kind'[x] = kind[x] /\ Pointers'[x] = Pointers[x]
    BY <2>3, <2>4, <2>5, AllocHeap
  <2> QED
    BY <2>6
<1>3. CASE Bind
  <2>1. PICK e \in Objects \ managed, l \in Known : kind[l] = "lambda" /\ BindLambda(l, e)
    BY <1>3 DEF Bind
  <2>2. /\ Safe' /\ locked' = locked
        /\ Known' \subseteq Known \cup {e} /\ e \notin locked
        /\ MainKnown \subseteq MainKnown'
        /\ \A x \in locked : kind'[x] = kind[x] /\ (x # l => Pointers'[x] = Pointers[x])
    BY <2>1, BindHeap
  <2> QED
    BY <2>1, <2>2
<1>4. CASE MainPut
  <2>1. PICK e \in Objects \ managed, v \in (Known \ KnownEnvs) \cup {NULL} :
            Env_main_put(e, v)
    BY <1>4 DEF MainPut
  <2>2. main_env \in Known \cup {NULL} /\ v \in Known \cup {NULL}
    BY KnownFacts DEF Safe, Sound, Roots, KnownEnvs
  <2>3. /\ scopes # <<>> /\ GcInit(e) /\ Contents(e, "env", main_env, v)
        /\ main_env' = e
    BY <2>1 DEF Env_main_put
  <2>4. /\ Safe' /\ locked' = locked
        /\ Known' \subseteq Known \cup {e} /\ e \notin locked
        /\ MainKnown \subseteq MainKnown'
        /\ \A x \in locked : kind'[x] = kind[x] /\ Pointers'[x] = Pointers[x]
    BY <2>2, <2>3, AllocHeap
  <2> QED
    BY <2>4
<1> QED
  BY <1>1, <1>2, <1>3, <1>4
-----------------------------------------------------------------------------
(* What every step inside an evaluation leaves: Safe, in the parts that    *)
(* ApiInv names.                                                           *)
LEMMA EvalIsSafe ==
    ASSUME ApiInv, phase # "dump"
    PROVE  Safe
  BY DEF ApiInv, EvalSafe, Safe

LEMMA InitApi == ApiInit => ApiInv
<1> SUFFICES ASSUME ApiInit PROVE ApiInv
  OBVIOUS
<1> USE DEF ApiInit
<1>1. /\ Safe /\ TypeOK /\ managed = {} /\ locked = {} /\ scopes = <<>>
  BY InitIInv DEF IInv, Safe, Sound, Init
<1>2. MainKnown = {}
  <2>1. MainKnown \subseteq Known /\ Known \subseteq managed
    BY <1>1, MainFacts DEF Safe, NoDangling
  <2> QED
    BY <2>1, <1>1
<1>3. ApiTypeOK
  BY <1>1 DEF ApiTypeOK, Refs
<1> QED
  BY <1>1, <1>2, <1>3 DEF ApiInv, Safe, EvalSafe, IntoMain, KeptIntact, Whole

(* An evaluation starts with nothing but the main environment in reach;    *)
(* what the host passed it is intact, but nothing protects it.             *)
LEMMA BeginApi ==
    ASSUME ApiInv, NEW b \in kept \cup {NULL}, EvalBegin(b)
    PROVE  ApiInv'
<1>1. /\ phase = "idle" /\ phase' = "eval"
      /\ base' = IF b = NULL THEN main_env ELSE b
      /\ foreign' = (base' \notin MainKnown \cup {NULL})
      /\ diverged' = (diverged \/ foreign')
      /\ kept' = kept \cup ({base'} \ {NULL})
      /\ scopes' = Append(scopes, {})
      /\ UNCHANGED <<held, types>>
      /\ UNCHANGED <<heapVars, locked, main_env>>
  BY DEF EvalBegin, Gc_scope_push
<1>2. Safe /\ Sound /\ TypeOK /\ scopes = <<>> /\ LockedClosed
  BY <1>1, EvalIsSafe DEF Safe, Sound, ApiInv, ApiTypeOK
<1>3. /\ scopes' \in Seq(SUBSET Objects) /\ scopes' # <<>>
      /\ Roots(scopes', main_env') \subseteq Known
  <2>1. main_env \in Refs /\ scopes \in Seq(SUBSET Objects)
    BY <1>2 DEF TypeOK
  <2>2. /\ scopes' \in Seq(SUBSET Objects)
        /\ Roots(scopes', main_env) \subseteq Roots(scopes, main_env) \cup {}
    BY <1>1, <2>1, PushedRoots
  <2>3. scopes' # <<>>
    BY <1>1, <1>2
  <2> QED
    BY <1>1, <1>2, <2>2, <2>3, KnownFacts
<1>4. /\ Sound' /\ Pointers' = Pointers /\ MainKnown' = MainKnown
      /\ Known' \subseteq Known
  <2>1. main_env' \in Refs /\ locked' \subseteq managed
        /\ \A x \in locked' : StablePointers[x] \subseteq locked'
    BY <1>1, <1>2 DEF LockedClosed, TypeOK
  <2> QED
    BY <1>1, <1>2, <1>3, <2>1, QuietSound
<1>5. Known = MainKnown /\ IntoMain(main_env)
  BY <1>2, MainFacts
<1>6. base' \in Refs /\ kept' \subseteq Objects
  <2>1. main_env \in Refs /\ kept \subseteq Objects
    BY <1>2 DEF ApiInv, ApiTypeOK, TypeOK
  <2> QED
    BY <1>1, <2>1 DEF Refs
<1>7. foreign' \in BOOLEAN /\ diverged' \in BOOLEAN
  BY <1>1, Zenon
<1>8. ApiTypeOK'
  BY <1>1, <1>2, <1>3, <1>4, <1>6, <1>7 DEF ApiInv, ApiTypeOK, Sound
<1>9. EvalSafe'
  <2>1. NoDangling'
    BY <1>1, <1>2, <1>4 DEF Safe, NoDangling, heapVars
  <2> QED
    BY <1>1, <2>1 DEF EvalSafe
<1>10. KeptIntact'
  <2>1. ASSUME NEW e \in kept'
        PROVE  Reach(Pointers, {e}, Objects) \subseteq managed
    <3>1. CASE e \in kept
      BY <3>1 DEF ApiInv, KeptIntact
    <3>2. CASE e \notin kept
      <4>1. e = main_env /\ e \in MainKnown
        BY <1>1, <1>5, <3>2 DEF IntoMain
      <4>2. Reach(Pointers, {e}, Objects) \subseteq MainKnown
        BY <1>2, <4>1, MainFacts, ReachWithin
      <4> QED
        BY <4>2 DEF ApiInv
    <3> QED
      BY <3>1, <3>2
  <2> QED
    BY <1>1, <1>4, <2>1 DEF KeptIntact, heapVars
<1>11. ASSUME ~diverged'
       PROVE  ~foreign' /\ Whole'
  <2>1. ~diverged /\ ~foreign'
    BY <1>1, <1>11
  <2> QED
    BY <1>1, <1>4, <1>5, <2>1 DEF ApiInv, Whole, heapVars
<1>12. ASSUME ~foreign'
       PROVE  IntoMain(base)'
  BY <1>1, <1>4, <1>12 DEF IntoMain
<1> QED
  BY <1>1, <1>4, <1>8, <1>9, <1>10, <1>11, <1>12 DEF ApiInv, heapVars

(* A step of the program evaluated: base is still part of the main         *)
(* environment if it was, and a locked lambda that was bound is, too.      *)
LEMMA EvalApi ==
    ASSUME ApiInv, "native_clos" \notin Kinds, EvalStep
    PROVE  ApiInv'
<1>1. /\ phase = "eval" /\ phase' = "eval" /\ scopes' # <<>>
      /\ kept' = Intact(kept)
      /\ UNCHANGED <<base, foreign, held, types, diverged>>
      /\ Scope \/ Alloc \/ Bind \/ MainPut
  BY DEF EvalStep, evalVars
<1>2. Safe
  BY <1>1, EvalIsSafe
<1>3. /\ Safe' /\ locked' = locked
      /\ Known' \cap locked \subseteq Known
      /\ MainKnown \subseteq MainKnown'
      /\ \A x \in locked : /\ kind'[x] = kind[x]
                           /\ \/ Pointers'[x] = Pointers[x]
                              \/ x \in Known /\ kind[x] = "lambda"
  BY <1>1, <1>2, EvalHeap
<1>4. TypeOK' /\ Sound' /\ Known' \subseteq managed'
  BY <1>3 DEF Safe, Sound, NoDangling
<1>5. MainKnown' \subseteq managed'
  <2>1. MainKnown' \subseteq Known'
    <3>1. Roots(<<>>, main_env') \subseteq Roots(scopes', main_env')
      BY DEF Roots
    <3>2. /\ Roots(scopes', main_env') \cap Objects \subseteq Known'
          /\ Closed(Pointers', Known', Objects)
      BY ReachRoots, ReachClosed DEF Known
    <3>3. Reach(Pointers', Roots(<<>>, main_env'), Objects) \subseteq Known'
      BY <3>1, <3>2, ReachLeast
    <3> QED
      BY <3>3 DEF MainKnown
  <2> QED
    BY <2>1, <1>4
<1>6. /\ kept' = {e \in kept : Reach(Pointers', {e}, Objects) \subseteq managed'}
      /\ ApiTypeOK' /\ KeptIntact'
  <2>1. kept' = {e \in kept : Reach(Pointers', {e}, Objects) \subseteq managed'}
    BY <1>1 DEF Intact
  <2>2. ApiTypeOK'
    BY <1>1, <1>4, <2>1 DEF ApiInv, ApiTypeOK
  <2> QED
    BY <2>1, <2>2 DEF KeptIntact
<1>7. ASSUME ~foreign
      PROVE  IntoMain(base)' /\ base' \in kept' \cup {NULL}
  <2>1. base' = base /\ base \in MainKnown' \cup {NULL} /\ base \in kept \cup {NULL}
    BY <1>1, <1>3, <1>7 DEF ApiInv, IntoMain, EvalSafe
  <2>2. ASSUME base # NULL
        PROVE  base \in kept'
    <3>1. /\ \A x \in MainKnown' : Pointers'[x] \subseteq MainKnown'
          /\ MainKnown' \subseteq Objects /\ base \in MainKnown'
      BY <1>4, <1>5, <2>1, <2>2, MainFactsNext DEF TypeOK
    <3>2. Reach(Pointers', {base}, Objects) \subseteq MainKnown'
      <4> DEFINE M == MainKnown'
                 Q == Pointers'
      <4>1. M \in SUBSET Objects /\ base \in M /\ \A x \in M : Q[x] \subseteq M
        BY <3>1
      <4> HIDE DEF M, Q
      <4>2. Reach(Q, {base}, Objects) \subseteq M
        BY <4>1, ReachWithin
      <4> QED
        BY <4>2 DEF M, Q
    <3> QED
      BY <1>5, <1>6, <2>1, <2>2, <3>2
  <2> QED
    BY <2>1, <2>2 DEF IntoMain
<1>8. ASSUME ~diverged'
      PROVE  Whole'
  <2>1. Whole
    BY <1>1, <1>8 DEF ApiInv
  <2>2. ASSUME NEW x \in locked'
        PROVE  Pointers'[x] \subseteq locked' \cup MainKnown'
    <3>1. CASE Pointers'[x] = Pointers[x]
      BY <2>1, <2>2, <3>1, <1>3 DEF Whole
    <3>2. CASE x \in Known /\ kind[x] = "lambda"
      <4>1. x \in MainKnown'
        BY <2>1, <2>2, <3>2, <1>1, <1>3 DEF Whole
      <4> QED
        BY <4>1, <1>4, MainFactsNext
    <3> QED
      BY <2>2, <3>1, <3>2, <1>3
  <2>3. \A x \in Known' \cap locked' : kind'[x] = "lambda" => x \in MainKnown'
    BY <2>1, <1>1, <1>3 DEF Whole
  <2> QED
    BY <2>2, <2>3 DEF Whole
<1>9. held' \cup types' \subseteq locked' /\ EvalSafe'
  <2>1. NoDangling'
    BY <1>4 DEF NoDangling
  <2>2. ~foreign' /\ base' # NULL => base' \in kept'
    BY <1>1, <1>7
  <2> QED
    BY <1>1, <1>3, <2>1, <2>2 DEF ApiInv, EvalSafe
<1> QED
  BY <1>1, <1>4, <1>5, <1>6, <1>7, <1>8, <1>9 DEF ApiInv

(* Looking up a name in base, or saving base, leads to what is there, and  *)
(* to nothing new if the main environment leads to base.                   *)
LEMMA LookupApi ==
    ASSUME ApiInv, NEW x \in Objects, EvalLookup(x)
    PROVE  ApiInv'
<1> DEFINE B == Reach(Pointers, {base}, Objects)
           K == Known \cup B
<1>1. /\ phase = "eval" /\ base \in kept /\ x \in B
      /\ scopes' = Saved(scopes, x) /\ UNCHANGED <<heapVars, locked, main_env>>
      /\ UNCHANGED <<phase, base, foreign, kept, held, types, diverged>>
  BY DEF EvalLookup, Gc_scope_save, evalVars, hostVars
<1>2. Safe /\ TypeOK /\ Sound /\ LockedClosed
  BY <1>1, EvalIsSafe DEF Safe, Sound
<1>3. /\ scopes \in Seq(SUBSET Objects) /\ main_env \in Refs /\ scopes # <<>>
      /\ base \in Objects /\ B \subseteq managed
  BY <1>1, <1>2 DEF ApiInv, ApiTypeOK, KeptIntact, TypeOK
<1>4. /\ scopes' \in Seq(SUBSET Objects) /\ scopes' # <<>>
      /\ Roots(scopes', main_env) \subseteq Roots(scopes, main_env) \cup {x}
  <2>1. /\ scopes' \in Seq(SUBSET Objects)
        /\ Roots(scopes', main_env) \subseteq Roots(scopes, main_env) \cup {x}
    BY <1>1, <1>3, SavedRoots
  <2>2. Len(scopes') = Len(scopes)
    BY <1>1, <1>3 DEF Saved
  <2> QED
    BY <1>3, <2>1, <2>2
<1>5. B \subseteq Objects /\ {base} \cap Objects \subseteq B /\ Closed(Pointers, B, Objects)
  BY ReachRoots, ReachClosed
<1> HIDE DEF B
<1>6. /\ Sound' /\ Pointers' = Pointers /\ MainKnown' = MainKnown
      /\ Roots(scopes', main_env') \subseteq Known => Known' \subseteq Known
  <2>1. main_env' \in Refs /\ locked' \subseteq managed
        /\ \A y \in locked' : StablePointers[y] \subseteq locked'
    BY <1>1, <1>2, <1>3 DEF LockedClosed
  <2> QED
    BY <1>1, <1>2, <1>4, <2>1, QuietSound
<1>7. Known' \subseteq K /\ K \subseteq managed
  <2>1. Roots(scopes', main_env) \cap Objects \subseteq K
    BY <1>1, <1>2, <1>4, KnownFacts
  <2>2. Closed(Pointers, K, Objects)
    BY <1>2, <1>5, KnownFacts DEF Closed
  <2>3. Reach(Pointers, Roots(scopes', main_env), Objects) \subseteq K
    BY <2>1, <2>2, ReachLeast
  <2>4. Known' = Reach(Pointers, Roots(scopes', main_env), Objects)
    BY <1>1, <1>6 DEF Known
  <2> QED
    BY <1>2, <1>3, <2>3, <2>4 DEF Safe, NoDangling
<1> HIDE DEF K
<1>8. ApiTypeOK'
  BY <1>1, <1>4, <1>6 DEF ApiInv, ApiTypeOK, Sound
<1>9. EvalSafe' /\ KeptIntact'
  <2>1. NoDangling'
    BY <1>1, <1>7 DEF NoDangling, heapVars
  <2>2. EvalSafe'
    BY <1>1, <2>1 DEF ApiInv, EvalSafe
  <2>3. KeptIntact'
    BY <1>1, <1>6 DEF ApiInv, KeptIntact, heapVars
  <2> QED
    BY <2>2, <2>3
<1>10. ASSUME ~diverged'
       PROVE  Whole'
  <2>1. Whole /\ base \in MainKnown
    BY <1>1, <1>3, <1>10, GcAssumption DEF ApiInv, IntoMain
  <2>2. B \subseteq MainKnown /\ MainKnown \subseteq Known
    BY <1>2, <2>1, MainFacts, ReachWithin DEF B
  <2>3. Known' \subseteq Known
    <3>1. x \in Known
      BY <1>1, <2>2
    <3> QED
      BY <1>1, <1>2, <1>4, <1>6, <3>1, KnownFacts
  <2> QED
    BY <1>1, <1>6, <2>1, <2>3 DEF Whole, heapVars
<1> QED
  BY <1>1, <1>6, <1>8, <1>9, <1>10 DEF ApiInv, IntoMain, heapVars

(* Registering a type locks program text, which no binding changes.        *)
LEMMA TypeApi ==
    ASSUME ApiInv, NEW name \in Values \ {NULL}, NEW fields \in Values \ {NULL},
           Type_new(name, fields)
    PROVE  ApiInv'
<1> DEFINE S == {name, fields} \cup Pointers[fields]
           open == Objects \ locked
           L == LockedWith(S)
<1>1. /\ phase = "eval" /\ phase' = "eval"
      /\ locked' = L /\ types' = types \cup {name, fields}
      /\ UNCHANGED <<base, foreign, kept, held, diverged>>
      /\ UNCHANGED <<heapVars, scopes, main_env>>
  BY DEF Type_new, LockedWith, evalVars
<1>2. Safe /\ TypeOK /\ Sound
  BY <1>1, EvalIsSafe DEF Safe, Sound
<1>3. name \in Known /\ fields \in Known /\ S \subseteq Known
  <2>1. name \in Known /\ fields \in Known
    BY DEF Values
  <2>2. Pointers[fields] \subseteq Objects
    BY <2>1, <1>2, KnownFacts DEF Pointers, TypeOK, Refs
  <2> QED
    BY <2>1, <2>2, <1>2, KnownFacts DEF Closed
<1>4. /\ S \subseteq L /\ locked \subseteq L /\ L \subseteq managed /\ L \subseteq Objects
      /\ \A x \in L : StablePointers[x] \subseteq L
      /\ \A x \in L \ locked : Pointers[x] \subseteq L
  <2> HIDE DEF S
  <2> QED
    BY <1>2, <1>3, LockMore
<1>5. \A x \in L \ locked : kind[x] = "cons"
  <2> DEFINE N == Reach(Pointers, {name}, Objects)
             F == Reach(Pointers, {fields}, Objects)
             R == Reach(Visits, S, open)
  <2>1. \A x \in N \cup F : kind[x] = "cons"
    BY DEF Type_new, IsText
  <2>2. /\ N \subseteq Objects /\ F \subseteq Objects
        /\ {name} \cap Objects \subseteq N /\ {fields} \cap Objects \subseteq F
        /\ Closed(Pointers, N, Objects) /\ Closed(Pointers, F, Objects)
    BY ReachRoots, ReachClosed
  <2> HIDE DEF N, F
  <2>3. S \cap open \subseteq N \cup F /\ Closed(Pointers, N \cup F, open)
    BY <2>2, <1>2, <1>3, KnownFacts DEF Closed
  <2> HIDE DEF S, open
  <2>4. R \subseteq N \cup F
    BY <2>3, <1>2, ReachLeast, VisitsAll DEF Sound
  <2>5. L = locked \cup R
    BY DEF R, L, LockedWith, open
  <2> QED
    BY <2>1, <2>4, <2>5
<1> HIDE DEF S, L
<1>6. /\ Sound' /\ Pointers' = Pointers /\ MainKnown' = MainKnown /\ Known' = Known
  <2>1. /\ scopes' \in Seq(SUBSET Objects) /\ main_env' \in Refs
    BY <1>1, <1>2 DEF TypeOK
  <2>2. Sound' /\ Pointers' = Pointers /\ MainKnown' = MainKnown
    BY <1>1, <1>2, <1>4, <2>1, QuietSound
  <2> QED
    BY <1>1, <2>2 DEF Known
<1>7. /\ types' \subseteq Objects /\ held' \cup types' \subseteq locked'
  BY <1>1, <1>4 DEF S, ApiInv, ApiTypeOK
<1>8. ApiTypeOK'
  BY <1>1, <1>6, <1>7 DEF ApiInv, ApiTypeOK, Sound
<1>9. ~diverged' => Whole'
  BY <1>1, <1>4, <1>5, <1>6 DEF ApiInv, Whole, heapVars
<1>10. EvalSafe' /\ KeptIntact'
  BY <1>1, <1>6 DEF ApiInv, EvalSafe, NoDangling, KeptIntact, heapVars
<1> QED
  BY <1>1, <1>6, <1>7, <1>8, <1>9, <1>10 DEF ApiInv, IntoMain, heapVars

(* The end of an evaluation: its result is locked with all that it is made *)
(* of before its scope goes, and only the main environment is left.        *)
LEMMA EndApi ==
    ASSUME ApiInv, NEW r \in Values, EvalEnd(r)
    PROVE  /\ Sound' /\ scopes' = <<>>
           /\ phase' = "idle" /\ base' = NULL /\ foreign' = FALSE
           /\ UNCHANGED <<heapVars, main_env, types, diverged>>
           /\ Pointers' = Pointers /\ MainKnown' = MainKnown /\ Known' = MainKnown
           /\ held' \subseteq Objects /\ held' \cup types' \subseteq locked'
           /\ MainKnown' \subseteq managed'
           /\ ~diverged' => \A o \in locked' : Pointers'[o] \subseteq locked' \cup MainKnown'
<1> DEFINE S == {r} \ {NULL}
           L == LockedWith(S)
<1>1. /\ phase = "eval" /\ Len(scopes) = 1 /\ scopes' = Popped(scopes)
      /\ held' = held \cup S
      /\ phase' = "idle" /\ base' = NULL /\ foreign' = FALSE
      /\ UNCHANGED <<heapVars, main_env, types, diverged>>
  BY DEF EvalEnd
<1>2. Safe /\ TypeOK /\ Sound
  BY <1>1, EvalIsSafe DEF Safe, Sound
<1>3. S \in SUBSET Known
  BY DEF Values
<1>4. /\ S \subseteq L /\ locked \subseteq L /\ L \subseteq managed /\ L \subseteq Objects
      /\ \A x \in L : StablePointers[x] \subseteq L
      /\ \A x \in L \ locked : Pointers[x] \subseteq L
  <2> HIDE DEF S
  <2> QED
    BY <1>2, <1>3, LockMore
<1>5. locked' = L
  <2>1. CASE r = NULL
    <3>1. S = {}
      BY <2>1
    <3>2. Closed(Visits, {}, Objects \ locked)
      BY DEF Closed
    <3>3. Reach(Visits, {}, Objects \ locked) \subseteq {}
      BY <3>2, ReachLeast
    <3>4. locked' = locked
      BY <2>1 DEF EvalEnd
    <3> QED
      BY <3>1, <3>3, <3>4 DEF LockedWith
  <2>2. CASE r # NULL
    <3>1. S = {r}
      BY <2>2
    <3> QED
      BY <2>2, <3>1 DEF EvalEnd, Protected, LockedWith
  <2> QED
    BY <2>1, <2>2
<1> HIDE DEF S, L
<1>6. /\ scopes' = <<>> /\ scopes' \in Seq(SUBSET Objects)
      /\ main_env' \in Refs /\ scopes # <<>>
  <2>1. scopes \in Seq(SUBSET Objects) /\ main_env' \in Refs
    BY <1>1, <1>2 DEF TypeOK
  <2>2. scopes' = SubSeq(scopes, 1, 0)
    BY <1>1 DEF Popped
  <2>3. SubSeq(scopes, 1, 0) \in Seq(SUBSET Objects) /\ Len(SubSeq(scopes, 1, 0)) = 0
    BY <2>1
  <2>4. Len(scopes) = 1 /\ Len(<<>>) = 0
    BY <1>1
  <2>5. scopes # <<>>
    BY <2>4
  <2>6. \A q \in Seq(SUBSET Objects) : Len(q) = 0 => q = <<>>
    OBVIOUS
  <2> QED
    BY <2>1, <2>2, <2>3, <2>5, <2>6
<1>7. /\ Sound' /\ Pointers' = Pointers /\ MainKnown' = MainKnown /\ Known' = MainKnown
  BY <1>1, <1>2, <1>4, <1>5, <1>6, QuietSound
<1>8. held' \subseteq Objects /\ held' \cup types' \subseteq locked'
  BY <1>1, <1>4, <1>5 DEF ApiInv, ApiTypeOK
<1>9. MainKnown' \subseteq managed'
  BY <1>1, <1>7 DEF ApiInv, heapVars
<1>10. ASSUME ~diverged', NEW o \in locked'
       PROVE  Pointers'[o] \subseteq locked' \cup MainKnown'
  BY <1>1, <1>4, <1>5, <1>7, <1>10 DEF ApiInv, Whole
<1> QED
  BY <1>1, <1>6, <1>7, <1>8, <1>9, <1>10

(* What the host can use afterwards is all there.                          *)
LEMMA HandOutApi ==
    ASSUME ApiInv, NEW r \in Values, EvalEnd(r), kept' \subseteq Objects,
           \A e \in kept' : Reach(Pointers, {e}, Objects) \subseteq managed
    PROVE  ApiInv'
<1>1. /\ Sound' /\ scopes' = <<>>
      /\ phase' = "idle" /\ base' = NULL /\ foreign' = FALSE
      /\ UNCHANGED <<heapVars, main_env, types, diverged>>
      /\ Pointers' = Pointers /\ MainKnown' = MainKnown /\ Known' = MainKnown
      /\ held' \subseteq Objects /\ held' \cup types' \subseteq locked'
      /\ MainKnown' \subseteq managed'
      /\ ~diverged' => \A o \in locked' : Pointers'[o] \subseteq locked' \cup MainKnown'
  BY EndApi
<1>2. ApiTypeOK'
  BY <1>1 DEF ApiInv, ApiTypeOK, Sound, Refs
<1>3. EvalSafe' /\ (~diverged' => Whole')
  BY <1>1 DEF EvalSafe, NoDangling, Whole
<1>4. KeptIntact'
  BY <1>1 DEF KeptIntact, heapVars
<1> QED
  BY <1>1, <1>2, <1>3, <1>4 DEF ApiInv

LEMMA ReturnApi ==
    ASSUME ApiInv, NEW r \in Values, EvalReturn(r)
    PROVE  ApiInv'
<1>1. EvalEnd(r) /\ kept' = kept
  BY DEF EvalReturn
<1>2. /\ kept' \subseteq Objects
      /\ \A e \in kept' : Reach(Pointers, {e}, Objects) \subseteq managed
  BY <1>1 DEF ApiInv, ApiTypeOK, KeptIntact
<1> QED
  BY <1>1, <1>2, HandOutApi

(* The environment handed out leads to nothing that was not known.         *)
LEMMA ReturnEnvApi ==
    ASSUME ApiInv, NEW r \in Values, NEW e \in FinalEnvs, EvalReturnEnv(r, e)
    PROVE  ApiInv'
<1>1. EvalEnd(r) /\ phase = "eval" /\ kept' = kept \cup {e}
  BY DEF EvalReturnEnv, EvalEnd
<1>2. Safe /\ TypeOK /\ KeptIntact /\ kept \subseteq Objects
  BY <1>1, EvalIsSafe DEF Safe, Sound, ApiInv, ApiTypeOK
<1>3. e \in kept \cup Known
  BY DEF FinalEnvs, KnownEnvs
<1>4. /\ Known \subseteq Objects /\ Known \subseteq managed
      /\ \A x \in Known : Pointers[x] \subseteq Known
  <2>1. \A x \in Objects : Pointers[x] \subseteq Objects
    BY <1>2 DEF Pointers, TypeOK, Refs
  <2> QED
    BY <1>2, <2>1, KnownFacts DEF Safe, NoDangling, Closed
<1>5. Reach(Pointers, {e}, Objects) \subseteq managed
  <2>1. CASE e \in kept
    BY <1>2, <2>1 DEF KeptIntact
  <2>2. CASE e \in Known
    <3>1. Reach(Pointers, {e}, Objects) \subseteq Known
      BY <1>4, <2>2, ReachWithin
    <3> QED
      BY <1>4, <3>1
  <2> QED
    BY <1>3, <2>1, <2>2
<1>6. /\ kept' \subseteq Objects
      /\ \A f \in kept' : Reach(Pointers, {f}, Objects) \subseteq managed
  BY <1>1, <1>2, <1>3, <1>4, <1>5 DEF KeptIntact
<1> QED
  BY <1>1, <1>6, HandOutApi

(* What the main environment leads to is all there.                        *)
LEMMA MainEnvApi ==
    ASSUME ApiInv, Stu_main_env
    PROVE  ApiInv'
<1>1. /\ phase = "idle" /\ kept' = kept \cup ({main_env} \ {NULL})
      /\ UNCHANGED <<heapVars, locked, scopes, main_env>>
      /\ UNCHANGED <<phase, base, foreign, held, types, diverged>>
  BY DEF Stu_main_env, vars, evalVars
<1>2. Sound /\ TypeOK /\ LockedClosed
  BY DEF ApiInv, Sound
<1>3. Sound' /\ Pointers' = Pointers /\ MainKnown' = MainKnown /\ Known' = Known
  <2>1. Sound' /\ Pointers' = Pointers /\ MainKnown' = MainKnown
    BY <1>1, <1>2, QuietSound DEF LockedClosed, TypeOK
  <2> QED
    BY <1>1, <2>1 DEF Known
<1>4. kept' \subseteq Objects /\ KeptIntact'
  <2>1. ASSUME NEW e \in kept'
        PROVE  e \in Objects /\ Reach(Pointers, {e}, Objects) \subseteq managed
    <3>1. CASE e \in kept
      BY <3>1 DEF ApiInv, ApiTypeOK, KeptIntact
    <3>2. CASE e \notin kept
      <4>1. e \in MainKnown /\ MainKnown \subseteq Objects
        BY <1>1, <1>2, <3>2, MainFacts DEF IntoMain
      <4>2. Reach(Pointers, {e}, Objects) \subseteq MainKnown
        BY <1>2, <4>1, MainFacts, ReachWithin
      <4> QED
        BY <4>1, <4>2 DEF ApiInv
    <3> QED
      BY <3>1, <3>2
  <2> QED
    BY <1>1, <1>3, <2>1 DEF KeptIntact, heapVars
<1>5. ApiTypeOK'
  BY <1>1, <1>3, <1>4 DEF ApiInv, ApiTypeOK, Sound
<1>6. ~diverged' => Whole'
  BY <1>1, <1>3 DEF ApiInv, Whole, heapVars
<1>7. EvalSafe'
  BY <1>1, <1>3 DEF ApiInv, EvalSafe, NoDangling, heapVars
<1> QED
  BY <1>1, <1>3, <1>4, <1>5, <1>6, <1>7 DEF ApiInv, heapVars
-----------------------------------------------------------------------------
\* EnvChain is a way through the references.
LEMMA ChainReaches ==
    ASSUME TypeOK, NEW e \in Refs
    PROVE  EnvChain(e) \subseteq Reach(Pointers, Roots(<<>>, e), Objects)
<1> DEFINE G == [o \in Objects |-> IF kind[o] = "env" THEN {fst[o]} \ {NULL} ELSE {}]
           M == Reach(Pointers, Roots(<<>>, e), Objects)
<1>1. \A x \in Objects : Pointers[x] \subseteq Objects /\ G[x] \subseteq Pointers[x]
  BY DEF Pointers, TypeOK, Refs
<1>2. /\ e \in M \cup {NULL} /\ M \subseteq Objects
      /\ \A x \in M : Pointers[x] \subseteq M
  BY <1>1, RootedFacts
<1> HIDE DEF M, G
<1>3. {e} \cap Objects \subseteq M /\ Closed(G, M, Objects)
  BY <1>1, <1>2, GcAssumption DEF Closed
<1>4. Reach(G, {e}, Objects) \subseteq M
  BY <1>3, ReachLeast
<1> QED
  BY <1>4 DEF EnvChain, G, M

(* Between evaluations the main environment may become any the host can    *)
(* use; unless it extends the old one, diverged records it.                *)
LEMMA UpdateApi ==
    ASSUME ApiInv, NEW e \in kept \cup {NULL}, Stu_update_main_env(e)
    PROVE  ApiInv'
<1>1. /\ phase = "idle" /\ main_env' = e /\ UNCHANGED <<heapVars, locked, scopes>>
      /\ diverged' = (diverged \/ ~(main_env = NULL \/ main_env \in EnvChain(e)))
      /\ UNCHANGED <<phase, base, foreign, kept, held, types>>
  BY DEF Stu_update_main_env, Env_main_set, evalVars
<1>2. /\ Sound /\ TypeOK /\ LockedClosed /\ scopes = <<>> /\ scopes \in Seq(SUBSET Objects)
      /\ kept \subseteq Objects
  BY <1>1 DEF ApiInv, ApiTypeOK, Sound, TypeOK
<1>3. e \in Refs /\ Reach(Pointers, Roots(<<>>, e), Objects) \subseteq managed
  <2>1. CASE e = NULL
    <3>1. Roots(<<>>, e) \cap Objects \subseteq {} /\ Closed(Pointers, {}, Objects)
      BY <2>1 DEF Roots, Closed
    <3>2. Reach(Pointers, Roots(<<>>, e), Objects) \subseteq {}
      BY <3>1, ReachLeast
    <3> QED
      BY <2>1, <3>2 DEF Refs
  <2>2. CASE e # NULL
    <3>1. e \in kept /\ e \in Refs
      BY <1>2, <2>2 DEF Refs
    <3>2. Roots(<<>>, e) = {e}
      BY <2>2 DEF Roots
    <3> QED
      BY <3>1, <3>2 DEF ApiInv, KeptIntact
  <2> QED
    BY <2>1, <2>2
<1>4. /\ Sound' /\ Pointers' = Pointers /\ Known' = MainKnown'
  BY <1>1, <1>2, <1>3, QuietSound DEF LockedClosed
<1>5. MainKnown' = Reach(Pointers, Roots(<<>>, e), Objects)
  BY <1>1, <1>4 DEF MainKnown
<1>6. MainKnown' \subseteq managed' /\ TypeOK'
  BY <1>1, <1>3, <1>4, <1>5 DEF heapVars, Sound
<1>7. ASSUME ~diverged'
      PROVE  Whole'
  <2>1. main_env \in MainKnown' \cup {NULL}
    BY <1>1, <1>2, <1>3, <1>5, <1>7, ChainReaches
  <2>2. \A x \in MainKnown' : Pointers[x] \subseteq MainKnown'
    BY <1>4, <1>6, MainFactsNext
  <2>3. MainKnown \subseteq MainKnown'
    BY <1>2, <2>1, <2>2, MainGrows
  <2>4. ~diverged
    BY <1>1, <1>7
  <2> QED
    BY <1>1, <1>4, <2>3, <2>4 DEF ApiInv, Whole
<1>8. ApiTypeOK'
  <2>1. diverged' \in BOOLEAN
    BY <1>1, Zenon
  <2> QED
    BY <1>1, <1>2, <1>6, <2>1 DEF ApiInv, ApiTypeOK
<1>9. EvalSafe' /\ KeptIntact' /\ held' \cup types' \subseteq locked'
  BY <1>1, <1>4, <1>6 DEF ApiInv, EvalSafe, NoDangling, KeptIntact, heapVars
<1> QED
  BY <1>1, <1>4, <1>6, <1>7, <1>8, <1>9 DEF ApiInv

(* Dumping: the value is a root for a while, whatever has become of it.    *)
LEMMA DumpBeginApi ==
    ASSUME ApiInv, NEW v \in held, DumpBegin(v)
    PROVE  ApiInv'
<1>1. /\ phase = "idle" /\ phase' = "dump" /\ scopes' = Append(scopes, {v})
      /\ UNCHANGED <<base, foreign, kept, held, types, diverged>>
      /\ UNCHANGED <<heapVars, locked, main_env>>
  BY DEF DumpBegin, PUSH_N_SAVE, hostVars
<1>2. Sound /\ TypeOK /\ LockedClosed /\ scopes = <<>> /\ v \in Objects
  BY <1>1 DEF ApiInv, ApiTypeOK, Sound
<1>3. /\ scopes' \in Seq(SUBSET Objects) /\ scopes' # <<>> /\ Len(scopes') = 1
  <2>1. {v} \in SUBSET Objects /\ scopes' = Append(<<>>, {v})
    BY <1>1, <1>2
  <2> QED
    BY <2>1
<1>4. /\ Sound' /\ Pointers' = Pointers /\ MainKnown' = MainKnown
  BY <1>1, <1>2, <1>3, QuietSound DEF LockedClosed, TypeOK
<1>5. ApiTypeOK'
  BY <1>1, <1>3, <1>4 DEF ApiInv, ApiTypeOK, Sound
<1>6. ~diverged' => Whole'
  BY <1>1, <1>4 DEF ApiInv, Whole
<1> QED
  BY <1>1, <1>3, <1>4, <1>5, <1>6 DEF ApiInv, EvalSafe, KeptIntact, heapVars

(* Dumping a lambda allocates, and so may collect.  Marks left on what the *)
(* value no longer has do not stop the main environment from being marked. *)
LEMMA DumpStepApi ==
    ASSUME ApiInv, DumpStep
    PROVE  ApiInv'
<1>1. PICK o \in Objects \ managed, p \in FieldPairs("cons") : New(o, "cons", p[1], p[2])
  BY DEF DumpStep
<1>2. /\ phase = "dump" /\ phase' = "dump"
      /\ UNCHANGED <<base, foreign, held, types, diverged>>
      /\ kept' = Intact(kept)
      /\ scopes # <<>> /\ GcInit(o) /\ Contents(o, "cons", p[1], p[2])
      /\ main_env' = main_env
  BY <1>1 DEF DumpStep, New, evalVars
<1>3. Sound /\ TypeOK /\ Len(scopes) = 1 /\ MainKnown \subseteq managed
      /\ locked \subseteq managed /\ locked \subseteq Objects
  BY <1>2 DEF ApiInv, Sound, LockedClosed, TypeOK
<1>4. /\ MainKnown \subseteq managed' /\ o \in managed'
      /\ managed' \subseteq managed \cup {o}
      /\ locked' = locked /\ locked \subseteq managed'
      /\ marked' \subseteq Objects /\ marked' \cap managed' = {}
      /\ gc_allocs' \in 0 .. GC_THRESHOLD
      /\ scopes' \in Seq(SUBSET Objects) /\ Len(scopes') = Len(scopes)
  <2>1. Roots(<<>>, main_env) \in SUBSET Roots(scopes, main_env)
    BY DEF Roots
  <2>2. Reach(Pointers, Roots(<<>>, main_env), Objects) \subseteq managed
    BY <1>3 DEF MainKnown
  <2> QED
    BY <1>2, <1>3, <2>1, <2>2, GcInitSpares DEF MainKnown
<1>5. p[1] \in Refs /\ p[2] \in Refs
  BY <1>1, <1>3, KnownFacts DEF FieldPairs, KnownEnvs, Refs
<1>6. /\ Sound'
      /\ \A x \in managed \cap managed' :
            kind'[x] = kind[x] /\ fst'[x] = fst[x] /\ snd'[x] = snd[x]
  <2>1. "cons" \in AllKinds \ {"native_clos"} /\ main_env' \in Refs
    BY <1>2, <1>3 DEF AllKinds, TypeOK
  <2> QED
    BY <1>1, <1>2, <1>3, <1>4, <1>5, <2>1, Filled
<1>7. \A x \in MainKnown \cup locked :
          /\ x \in managed \cap managed' /\ x \in Objects
          /\ Pointers'[x] = Pointers[x]
  BY <1>3, <1>4, <1>6, MainFacts DEF Pointers
<1>8. MainKnown' = MainKnown
  <2>1. MainKnown \subseteq MainKnown'
    <3>1. /\ main_env \in MainKnown' \cup {NULL}
          /\ \A x \in MainKnown' : Pointers'[x] \subseteq MainKnown'
      BY <1>2, <1>6, MainFactsNext DEF Sound
    <3> QED
      BY <1>3, <1>7, <3>1, MainGrows
  <2>2. Reach(Pointers', Roots(<<>>, main_env), Objects) \subseteq MainKnown
    <3>1. Roots(<<>>, main_env) \cap Objects \subseteq MainKnown
      BY ReachRoots DEF MainKnown
    <3>2. Closed(Pointers', MainKnown, Objects)
      BY <1>3, <1>7, MainFacts DEF Closed
    <3> QED
      BY <3>1, <3>2, ReachLeast
  <2>3. MainKnown' \subseteq MainKnown
    BY <1>2, <2>2 DEF MainKnown
  <2> QED
    BY <2>1, <2>3
<1>9. scopes' # <<>>
  <2>1. Len(scopes') = 1 /\ Len(<<>>) = 0
    BY <1>3, <1>4
  <2> QED
    BY <2>1
<1>10. ApiTypeOK' /\ KeptIntact'
  <2>1. kept' = {e \in kept : Reach(Pointers', {e}, Objects) \subseteq managed'}
    BY <1>2 DEF Intact
  <2> QED
    BY <1>2, <1>6, <1>9, <2>1 DEF ApiInv, ApiTypeOK, Sound, KeptIntact
<1>11. ~diverged' => Whole'
  BY <1>2, <1>4, <1>7, <1>8 DEF ApiInv, Whole
<1> QED
  BY <1>2, <1>3, <1>4, <1>6, <1>8, <1>10, <1>11 DEF ApiInv, EvalSafe

LEMMA DumpEndApi ==
    ASSUME ApiInv, DumpEnd
    PROVE  ApiInv'
<1>1. /\ phase = "dump" /\ phase' = "idle" /\ scopes' = Popped(scopes)
      /\ UNCHANGED <<base, foreign, kept, held, types, diverged>>
      /\ UNCHANGED <<heapVars, locked, main_env>>
  BY DEF DumpEnd, Gc_scope_pop, hostVars
<1>2. Sound /\ TypeOK /\ LockedClosed /\ Len(scopes) = 1 /\ scopes \in Seq(SUBSET Objects)
  BY <1>1 DEF ApiInv, Sound, TypeOK
<1>3. scopes' = <<>> /\ scopes' \in Seq(SUBSET Objects)
  <2>1. scopes' = SubSeq(scopes, 1, 0)
    BY <1>1, <1>2 DEF Popped
  <2>2. SubSeq(scopes, 1, 0) \in Seq(SUBSET Objects) /\ Len(SubSeq(scopes, 1, 0)) = 0
    BY <1>2
  <2> QED
    BY <2>1, <2>2
<1>4. /\ Sound' /\ Pointers' = Pointers /\ MainKnown' = MainKnown /\ Known' = MainKnown
  BY <1>1, <1>2, <1>3, QuietSound DEF LockedClosed, TypeOK
<1>5. ApiTypeOK'
  BY <1>1, <1>3, <1>4 DEF ApiInv, ApiTypeOK, Sound
<1>6. ~diverged' => Whole'
  BY <1>1, <1>4 DEF ApiInv, Whole
<1>7. EvalSafe'
  BY <1>1, <1>4 DEF ApiInv, EvalSafe, NoDangling, heapVars
<1> QED
  BY <1>1, <1>4, <1>5, <1>6, <1>7 DEF ApiInv, KeptIntact, heapVars

(* Releasing changes no more than what the host has: Gc_unlock, as it is   *)
(* written, starts from a locked object and so unlocks nothing.            *)
LEMMA ReleaseApi ==
    ASSUME ApiInv, NEW v \in held, Stu_release_val(v)
    PROVE  ApiInv'
<1>1. /\ phase = "idle" /\ phase' = "idle" /\ held' = held \ {v}
      /\ UNCHANGED <<base, foreign, kept, types, diverged>>
      /\ Gc_unlock(v) /\ v \in locked
  BY DEF Stu_release_val, ApiInv, evalVars
<1>2. UNCHANGED <<heapVars, locked, scopes, main_env>>
  <2>1. UnlockReach(v) \cap locked = {}
    BY ReachRoots DEF UnlockReach
  <2> QED
    BY <1>1, <2>1 DEF Gc_unlock
<1>3. Sound /\ TypeOK /\ LockedClosed
  BY DEF ApiInv, Sound
<1>4. Sound' /\ Pointers' = Pointers /\ MainKnown' = MainKnown /\ Known' = Known
  <2>1. Sound' /\ Pointers' = Pointers /\ MainKnown' = MainKnown
    BY <1>2, <1>3, QuietSound DEF LockedClosed, TypeOK
  <2> QED
    BY <1>2, <2>1 DEF Known
<1>5. ApiTypeOK'
  BY <1>1, <1>2, <1>4 DEF ApiInv, ApiTypeOK, Sound
<1>6. ~diverged' => Whole'
  BY <1>1, <1>2, <1>4 DEF ApiInv, Whole, heapVars
<1> QED
  BY <1>1, <1>2, <1>4, <1>5, <1>6
     DEF ApiInv, EvalSafe, NoDangling, KeptIntact, heapVars

LEMMA StutterApi ==
    ASSUME ApiInv, UNCHANGED apiVars
    PROVE  ApiInv'
<1>1. /\ UNCHANGED <<heapVars, locked, scopes, main_env>>
      /\ UNCHANGED <<phase, base, foreign, kept, held, types, diverged>>
  BY DEF apiVars, vars, evalVars, hostVars
<1>2. Sound /\ TypeOK /\ LockedClosed
  BY DEF ApiInv, Sound
<1>3. Sound' /\ Pointers' = Pointers /\ MainKnown' = MainKnown /\ Known' = Known
  <2>1. Sound' /\ Pointers' = Pointers /\ MainKnown' = MainKnown
    BY <1>1, <1>2, QuietSound DEF LockedClosed, TypeOK
  <2> QED
    BY <1>1, <2>1 DEF Known
<1>4. ApiTypeOK'
  BY <1>1, <1>3 DEF ApiInv, ApiTypeOK, Sound
<1>5. ~diverged' => Whole'
  BY <1>1, <1>3 DEF ApiInv, Whole, heapVars
<1> QED
  BY <1>1, <1>3, <1>4, <1>5
     DEF ApiInv, IntoMain, EvalSafe, NoDangling, KeptIntact, heapVars
-----------------------------------------------------------------------------
LEMMA NextApi ==
    ASSUME ApiInv, "native_clos" \notin Kinds, [ApiNext]_apiVars
    PROVE  ApiInv'
<1>1. ASSUME NEW b \in kept \cup {NULL}, EvalBegin(b)
      PROVE  ApiInv'
  BY <1>1, BeginApi
<1>2. CASE EvalStep
  BY <1>2, EvalApi
<1>3. ASSUME NEW x \in Objects, EvalLookup(x)
      PROVE  ApiInv'
  BY <1>3, LookupApi
<1>4. ASSUME NEW name \in Values \ {NULL}, NEW fields \in Values \ {NULL},
             Type_new(name, fields)
      PROVE  ApiInv'
  BY <1>4, TypeApi
<1>5. ASSUME NEW r \in Values, EvalReturn(r)
      PROVE  ApiInv'
  BY <1>5, ReturnApi
<1>6. ASSUME NEW r \in Values, NEW e \in FinalEnvs, EvalReturnEnv(r, e)
      PROVE  ApiInv'
  BY <1>6, ReturnEnvApi
<1>7. CASE Stu_main_env
  BY <1>7, MainEnvApi
<1>8. ASSUME NEW e \in kept \cup {NULL}, Stu_update_main_env(e)
      PROVE  ApiInv'
  BY <1>8, UpdateApi
<1>9. ASSUME NEW v \in held, DumpBegin(v) \/ Stu_release_val(v)
      PROVE  ApiInv'
  BY <1>9, DumpBeginApi, ReleaseApi
<1>10. CASE DumpStep
  BY <1>10, DumpStepApi
<1>11. CASE DumpEnd
  BY <1>11, DumpEndApi
<1>12. CASE UNCHANGED apiVars
  BY <1>12, StutterApi
<1> QED
  BY <1>1, <1>2, <1>3, <1>4, <1>5, <1>6, <1>7, <1>8, <1>9, <1>10, <1>11, <1>12
     DEF ApiNext

(* The inductive invariant of the interpreter under a host.                *)
THEOREM ApiInvariance ==
    ASSUME "native_clos" \notin Kinds
    PROVE  ApiSpec => []ApiInv
<1>1. ApiInv /\ [ApiNext]_apiVars => ApiInv'
  BY NextApi
<1> QED
  BY <1>1, InitApi, PTL DEF ApiSpec

(* Every variable keeps its type, and there is a scope exactly while an    *)
(* evaluation or a dump is under way.                                      *)
THEOREM ApiTypeCorrect ==
    ASSUME "native_clos" \notin Kinds
    PROVE  ApiSpec => []ApiTypeOK
<1>1. ApiInv => ApiTypeOK
  BY DEF ApiInv
<1> QED
  BY <1>1, ApiInvariance, PTL

(* No program whose steps follow the rule of Gc gets at freed memory, and  *)
(* none loses an environment it runs in that the main one leads to,        *)
(* whatever intact environments the host evaluated in, kept or made the    *)
(* main one before, and whatever values it held, dumped or released.       *)
THEOREM ProgramsAreSafe ==
    ASSUME "native_clos" \notin Kinds
    PROVE  ApiSpec => []EvalSafe
<1>1. ApiInv => EvalSafe
  BY DEF ApiInv
<1> QED
  BY <1>1, ApiInvariance, PTL

(* What the host and the type registry hold keeps its shape.               *)
THEOREM HeldKeepsShape ==
    ASSUME "native_clos" \notin Kinds
    PROVE  ApiSpec => []HeldShape
<1>1. ASSUME ApiInv PROVE HeldShape
  <2>1. /\ (held \cup types) \cap Objects \subseteq locked
        /\ Closed(StablePointers, locked, Objects) /\ locked \subseteq managed
    BY <1>1 DEF ApiInv, Sound, LockedClosed, Closed
  <2>2. Reach(StablePointers, held \cup types, Objects) \subseteq locked
    BY <2>1, ReachLeast
  <2> QED
    BY <2>1, <2>2 DEF HeldShape
<1> QED
  BY <1>1, ApiInvariance, PTL

(* As long as the host evaluates only in environments the main one leads   *)
(* to, and only ever extends the main one, what it holds stays whole, the  *)
(* environments of the closures in it included.                            *)
THEOREM HeldStaysWhole ==
    ASSUME "native_clos" \notin Kinds
    PROVE  ApiSpec => []HeldWhole
<1>1. ASSUME ApiInv PROVE HeldWhole
  <2> SUFFICES ASSUME ~diverged
               PROVE  Reach(Pointers, held, Objects) \subseteq managed
    BY DEF HeldWhole
  <2> DEFINE S == locked \cup MainKnown
  <2>1. S \subseteq managed /\ held \cap Objects \subseteq S /\ TypeOK
    BY <1>1 DEF ApiInv, Sound, LockedClosed
  <2>2. Closed(Pointers, S, Objects)
    BY <1>1, <2>1, MainFacts DEF ApiInv, Whole, Closed
  <2> HIDE DEF S
  <2>3. Reach(Pointers, held, Objects) \subseteq S
    BY <2>1, <2>2, ReachLeast
  <2> QED
    BY <2>1, <2>3
<1> QED
  BY <1>1, ApiInvariance, PTL
=============================================================================
