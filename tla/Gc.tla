-------------------------------- MODULE Gc --------------------------------
(***************************************************************************)
(* The mark-and-sweep collector of libstu (gc.c, gc.h) under an arbitrary  *)
(* client that follows the interpreter's rule: it allocates under a scope, *)
(* and it only uses objects it can still reach from main_env or a scope.   *)
(*                                                                         *)
(* An object is a Gc header with two reference fields, enough for every    *)
(* type the collector tells apart:                                         *)
(*    cons         car, cdr (a vector, structure, structure access or      *)
(*                 special is visited the same way)                        *)
(*    lambda       env, and formals/body                                   *)
(*    env          prev, val                                               *)
(*    native_clos  bound_args, which Gc_visit_sv does not visit            *)
(* Memory on no list is "blank", as calloc or memset leaves it; so is an   *)
(* object inside GC_INIT, before its creator has given it a type.  NULL    *)
(* also stands for NIL, the singleton the collector never sweeps.          *)
(*                                                                         *)
(* Gc_visit_env walks the whole prev chain where Visits takes one step of  *)
(* it; Gc_mark and Gc_lock take the other steps when they reach prev, so   *)
(* the two differ only past an env that is flagged while its prev is not,  *)
(* which LockedClosed excludes (and MarksClear, for marks).                *)
(***************************************************************************)
EXTENDS Naturals, Sequences, Reachability

CONSTANTS
    Objects,       \* the addresses objects can have
    NULL,
    GC_THRESHOLD,  \* allocations between collections (configure.ac:50-60)
    Kinds,         \* the types of object the client creates
    MaxScopes      \* bound: depth of the scope stack

AllKinds == {"cons", "lambda", "env", "native_clos"}

ASSUME GcAssumption ==
    /\ NULL \notin Objects
    /\ GC_THRESHOLD \in Nat
    /\ Kinds \subseteq AllKinds
    /\ MaxScopes \in Nat

VARIABLES
    managed,    \* the objects on the gc_head .. gc_tail list
    kind,       \* type tag of each object
    fst, snd,   \* the two reference fields of each object
    marked,     \* objects with GC_MARK_MASK set
    locked,     \* objects with GC_LOCK_MASK set
    scopes,     \* gc_scope_stack: the objects saved in each scope, top last
    main_env,
    gc_allocs   \* allocations since the last collection

heapVars == <<managed, kind, fst, snd, marked, gc_allocs>>
vars == <<heapVars, locked, scopes, main_env>>

Refs == Objects \cup {NULL}

TypeOK ==
    /\ managed \subseteq Objects
    /\ kind \in [Objects -> AllKinds \cup {"blank"}]
    /\ fst \in [Objects -> Refs]
    /\ snd \in [Objects -> Refs]
    /\ marked \subseteq Objects
    /\ locked \subseteq Objects
    /\ scopes \in Seq(SUBSET Objects)
    /\ main_env \in Refs
    /\ gc_allocs \in 0 .. GC_THRESHOLD

Init ==
    /\ managed = {} /\ marked = {} /\ locked = {}
    /\ kind = [o \in Objects |-> "blank"]
    /\ fst = [o \in Objects |-> NULL]
    /\ snd = [o \in Objects |-> NULL]
    /\ scopes = <<>>
    /\ main_env = NULL
    /\ gc_allocs = 0
-----------------------------------------------------------------------------
\* What the client could follow, and what the collector follows.
Pointers == [o \in Objects |-> {fst[o], snd[o]} \ {NULL}]

\* Mutant of Visits: the environment of a lambda is forgotten.
VisitsNoLambdaEnv == [o \in Objects |->
    IF kind[o] \in {"cons", "env"} THEN Pointers[o]
    ELSE IF kind[o] = "lambda" THEN {snd[o]} \ {NULL} ELSE {}]

Visits == [o \in Objects |->
              IF kind[o] \in {"cons", "lambda", "env"} THEN Pointers[o] ELSE {}]

Roots(scs, env) == ((UNION {scs[i] : i \in DOMAIN scs}) \cup {env}) \ {NULL}

\* Every object the client can still get at.
Known == Reach(Pointers, Roots(scopes, main_env), Objects)

KnownEnvs == {o \in Known : kind[o] = "env"}

\* Gc_scope_save: remember o in the top scope, if there is one.
Saved(scs, o) ==
    IF scs = <<>> THEN scs ELSE [scs EXCEPT ![Len(scs)] = @ \cup {o}]

Popped(scs) == SubSeq(scs, 1, Len(scs) - 1)

\* Mutant of MarksFrom: only the top scope is marked.
MarksFromTop(scs, marks) ==
    marks \cup Reach(Visits, Roots(SubSeq(scs, Len(scs), Len(scs)), main_env),
                     Objects \ marks)

\* The marks once main_env and every scope have been marked.
MarksFrom(scs, marks) ==
    marks \cup Reach(Visits, Roots(scs, main_env), Objects \ marks)

\* Mutant of Sweepable: the lock is not looked at.
SweepableUnmarked(heap, marks) == heap \ marks

\* GC_SWEEPABLE: neither marked nor locked.
Sweepable(heap, marks) == {x \in heap : x \notin marks /\ x \notin locked}

\* Mutant of SweptMarks: the sweep leaves the marks as they are.
SweptMarksKept(heap, marks) == marks

\* Gc_sweep clears the mark of every object it keeps.
SweptMarks(heap, marks) == marks \ heap

\* Mutant of CollectDue: the count is compared before it is incremented.
CollectDueLate == gc_allocs > GC_THRESHOLD

\* Gc_add counts this allocation, then Gc_collect compares the count.
CollectDue == gc_allocs + 1 > GC_THRESHOLD

\* GC_INIT: clear the flags, join the list and the top scope, maybe collect.
GcInit(o) ==
    LET heap  == managed \cup {o}
        marks == MarksFrom(scopes', marked \ {o})
    IN  /\ o \in Objects \ managed
        /\ scopes' = Saved(scopes, o)
        /\ locked' = locked \ {o}
        /\ IF CollectDue
           THEN /\ managed' = heap \ Sweepable(heap, marks)
                /\ marked' = SweptMarks(heap, marks)
                /\ gc_allocs' = 0
           ELSE /\ managed' = heap
                /\ marked' = marked \ {o}
                /\ gc_allocs' = gc_allocs + 1

\* What allocation and sweeping leave in memory: o filled in, the swept blank.
Contents(o, k, a, b) ==
    LET keep(f, x, empty) == IF x \in managed' THEN f[x] ELSE empty
    IN  /\ kind' = [x \in Objects |-> IF x = o THEN k ELSE keep(kind, x, "blank")]
        /\ fst' = [x \in Objects |-> IF x = o THEN a ELSE keep(fst, x, NULL)]
        /\ snd' = [x \in Objects |-> IF x = o THEN b ELSE keep(snd, x, NULL)]

\* The objects a traversal started by Gc_unlock(o) goes through: as written it
\* goes on only from objects that are not locked.
UnlockReach(o) == Reach(Visits, {o}, Objects \ locked)
-----------------------------------------------------------------------------
Gc_scope_push ==
    /\ Len(scopes) < MaxScopes
    /\ scopes' = Append(scopes, {})
    /\ UNCHANGED <<heapVars, locked, main_env>>

Gc_scope_pop ==
    /\ scopes # <<>>
    /\ scopes' = Popped(scopes)
    /\ UNCHANGED <<heapVars, locked, main_env>>

PUSH_N_SAVE(o) ==
    /\ Len(scopes) < MaxScopes
    /\ scopes' = Append(scopes, {o})
    /\ UNCHANGED <<heapVars, locked, main_env>>

POP_N_SAVE(o) ==
    /\ scopes # <<>>
    /\ scopes' = Saved(Popped(scopes), o)
    /\ UNCHANGED <<heapVars, locked, main_env>>

Gc_scope_save(o) ==
    /\ scopes' = Saved(scopes, o)
    /\ UNCHANGED <<heapVars, locked, main_env>>

\* Sv_cons, Sv_new_lambda, Env_put, ...: allocate, then set type and fields.
New(o, k, a, b) ==
    /\ scopes # <<>>
    /\ GcInit(o)
    /\ Contents(o, k, a, b)
    /\ UNCHANGED main_env

\* Binding a symbol to lambda l also puts the binding in l's own environment.
BindLambda(l, e) ==
    /\ scopes # <<>>
    /\ GcInit(e)
    /\ kind' = [x \in Objects |-> IF x = e THEN "env"
                                  ELSE IF x \in managed' THEN kind[x] ELSE "blank"]
    /\ fst' = [x \in Objects |-> IF x = e THEN fst[l]
                                 ELSE IF x = l THEN e
                                 ELSE IF x \in managed' THEN fst[x] ELSE NULL]
    /\ snd' = [x \in Objects |-> IF x = e THEN l
                                 ELSE IF x \in managed' THEN snd[x] ELSE NULL]
    /\ UNCHANGED main_env

\* Env_main_put (defmacro and the registration of builtins): bind in front of
\* the main environment.
Env_main_put(e, v) ==
    /\ scopes # <<>>
    /\ GcInit(e)
    /\ Contents(e, "env", main_env, v)
    /\ main_env' = e

Env_main_set(e) ==
    /\ main_env' = e
    /\ UNCHANGED <<heapVars, locked, scopes>>

\* Mutant of Gc_lock: what o refers to is not locked.
GcLockShallow(o) ==
    /\ locked' = locked \cup {o}
    /\ UNCHANGED <<heapVars, scopes, main_env>>

Gc_lock(o) ==
    /\ locked' = locked \cup Reach(Visits, {o}, Objects \ locked)
    /\ UNCHANGED <<heapVars, scopes, main_env>>

Gc_unlock(o) ==
    /\ locked' = locked \ UnlockReach(o)
    /\ UNCHANGED <<heapVars, scopes, main_env>>
-----------------------------------------------------------------------------
\* The fields a client may give a new object: an env where the code takes an
\* Env *, any other object it knows, or nothing, where it takes an Sv *.
FieldPairs(k) ==
    LET envs == KnownEnvs \cup {NULL}
        vals == (Known \ KnownEnvs) \cup {NULL}
    IN  (IF k \in {"lambda", "env"} THEN envs ELSE vals) \X vals

Alloc ==
    \E o \in Objects \ managed, k \in Kinds :
        \E p \in FieldPairs(k) : New(o, k, p[1], p[2])

Bind ==
    \E e \in Objects \ managed, l \in Known :
        kind[l] = "lambda" /\ BindLambda(l, e)

Scope ==
    \/ Gc_scope_push
    \/ Gc_scope_pop
    \/ \E o \in Known : PUSH_N_SAVE(o) \/ POP_N_SAVE(o) \/ Gc_scope_save(o)

MainPut ==
    \E e \in Objects \ managed, v \in (Known \ KnownEnvs) \cup {NULL} :
        Env_main_put(e, v)

Next ==
    \/ Scope
    \/ Alloc
    \/ Bind
    \/ MainPut
    \/ \E e \in KnownEnvs \cup {NULL} : Env_main_set(e)
    \/ \E o \in Known : Gc_lock(o) \/ Gc_unlock(o)

Spec == Init /\ [][Next]_vars
-----------------------------------------------------------------------------
(* The values bound in a native closure stay allocated as long as the      *)
(* program can call it: check/022_native_closure.input:3-8 binds 5 in c5   *)
(* and expects it back from every later call.                              *)
BoundArgsLive == \A o \in Known : kind[o] = "native_clos" => Pointers[o] \subseteq managed

(* Whatever the client can still reach, from a C local saved in a scope or *)
(* from the main environment, is still on the collector's list: a          *)
(* collection in the middle of any sequence of calls never frees it.       *)
NoDangling == Known \subseteq managed

(* Between collections no object carries a mark, so the next Gc_mark does  *)
(* not stop short at a leftover one (Gc_sweep unmarks what it keeps).      *)
MarksClear == marked = {}

(* Addresses are reused, and still every Env * the client can follow       *)
(* points to an Env and every Sv * to an Sv: no field of a reachable       *)
(* object outlives what it pointed to.                                     *)
TypedPointers ==
    /\ main_env # NULL => kind[main_env] = "env"
    /\ \A o \in Known :
        /\ kind[o] \in {"lambda", "env"} /\ fst[o] # NULL => kind[fst[o]] = "env"
        /\ kind[o] \in {"lambda", "env"} /\ snd[o] # NULL => kind[snd[o]] # "env"
        /\ kind[o] \in {"cons", "native_clos"} =>
               \A p \in Pointers[o] : kind[p] # "env"

(* A locked object is still allocated and so is all of it that cannot      *)
(* change after the lock: Gc_lock has locked that part with it, and it     *)
(* stays locked.  What can change is a lambda's env.                       *)
StablePointers == [o \in Objects |->
    IF kind[o] = "lambda" THEN {snd[o]} \ {NULL}
    ELSE IF kind[o] = "native_clos" THEN {} ELSE Pointers[o]]

LockedClosed ==
    /\ locked \subseteq managed
    /\ \A o \in locked : StablePointers[o] \subseteq locked

(* The collector frees garbage only: an object leaves the list only when   *)
(* nobody could reach it before the step and it is not locked.             *)
FreesOnlyGarbage ==
    [][\A o \in managed \ managed' : o \notin Known /\ o \notin locked]_vars

(* A collection leaves no garbage behind: of the objects that were there   *)
(* before, those it keeps were reachable or locked (Gc_collect, gc.c:97).  *)
(* A drop of gc_allocs shows a collection when GC_THRESHOLD > 0.           *)
CollectsAllGarbage ==
    [][gc_allocs' < gc_allocs => managed \cap managed' \subseteq Known \cup locked]_vars
=============================================================================
