------------------------------- MODULE GcList -------------------------------
(***************************************************************************)
(* The doubly linked list of managed objects, pointer by pointer (Gc_add,  *)
(* Gc_del and the loop of Gc_sweep, gc.c).                                 *)
(*                                                                         *)
(* gc_head is the oldest object and prev leads from it to the newer ones,  *)
(* up to gc_tail; next leads back.  The memory of an object is zeroed when *)
(* it is allocated (see Allocator) and may hold anything once released,    *)
(* which nobody may look at: the model blanks it.                          *)
(***************************************************************************)
EXTENDS Integers, FiniteSets, Reachability

CONSTANTS Objects, NULL

ASSUME GcListAssumption == NULL \notin Objects /\ IsFiniteSet(Objects)

VARIABLES
    gc_head, gc_tail,
    next, prev,        \* the links in each object's header
    allocated,         \* objects created and not destroyed
    marked,            \* objects Gc_sweep is to keep: marked or locked
    cur,               \* where Gc_sweep is, NULL when it is not running
    unconditional,     \* its argument: 1 in Stu_destroy
    managed_objects    \* stats_gc_managed_objects

links == <<gc_head, gc_tail, next, prev>>
vars == <<links, allocated, marked, cur, unconditional, managed_objects>>

Refs == Objects \cup {NULL}

Init ==
    /\ gc_head = NULL /\ gc_tail = NULL
    /\ next = [o \in Objects |-> NULL]
    /\ prev = [o \in Objects |-> NULL]
    /\ allocated = {} /\ marked = {}
    /\ cur = NULL
    /\ unconditional = FALSE
    /\ managed_objects = 0
-----------------------------------------------------------------------------
\* A new object, zeroed, goes to the end of the list.
Gc_add(o) ==
    /\ cur = NULL /\ ~unconditional
    /\ o \notin allocated
    /\ allocated' = allocated \cup {o}
    /\ managed_objects' = managed_objects + 1
    /\ gc_tail' = o
    /\ IF gc_head = NULL
       THEN gc_head' = o /\ UNCHANGED <<next, prev>>
       ELSE /\ next' = [next EXCEPT ![o] = gc_tail]
            /\ prev' = [prev EXCEPT ![gc_tail] = o]
            /\ UNCHANGED gc_head
    /\ UNCHANGED <<marked, cur, unconditional>>

\* Mutant of Unlinked: the tail is not moved when it is the object deleted.
UnlinkedNotTail(o) ==
    /\ gc_tail' = gc_tail
    /\ gc_head' = IF next[o] = NULL THEN prev[o] ELSE gc_head
    /\ next' = [x \in Objects |-> IF x = o THEN NULL
                                  ELSE IF x = prev[o] THEN next[o] ELSE next[x]]
    /\ prev' = [x \in Objects |-> IF x = o THEN NULL
                                  ELSE IF x = next[o] THEN prev[o] ELSE prev[x]]

\* Gc_del: o's neighbours, or the ends of the list, are joined over it.
Unlinked(o) ==
    /\ gc_tail' = IF prev[o] = NULL THEN next[o] ELSE gc_tail
    /\ gc_head' = IF next[o] = NULL THEN prev[o] ELSE gc_head
    /\ next' = [x \in Objects |-> IF x = o THEN NULL
                                  ELSE IF x = prev[o] THEN next[o] ELSE next[x]]
    /\ prev' = [x \in Objects |-> IF x = o THEN NULL
                                  ELSE IF x = next[o] THEN prev[o] ELSE prev[x]]

\* Gc_sweep starts on what the marking, or the locks, have left.
SweepStart(marks, all) ==
    /\ cur = NULL /\ ~unconditional
    /\ gc_head # NULL
    /\ cur' = gc_head
    /\ marked' = marks
    /\ unconditional' = all
    /\ UNCHANGED <<links, allocated, managed_objects>>

\* Mutant of AfterCur: the link is read after the object has been destroyed.
AfterCurLate == prev'[cur]

\* The object the loop goes to next, read before cur is destroyed.
AfterCur == prev[cur]

CountAfter(dead) == IF dead THEN managed_objects - 1 ELSE managed_objects

\* Mutant of Dead: the argument of Gc_sweep is not looked at.
DeadUnmarked == cur \notin marked

Dead == unconditional \/ cur \notin marked

\* Mutant of SweepStep: an object that is kept is skipped before the loop has
\* gone on to the next.
SweepStepContinue ==
    /\ cur # NULL
    /\ managed_objects' = CountAfter(Dead)
    /\ IF Dead
       THEN Unlinked(cur) /\ allocated' = allocated \ {cur} /\ cur' = AfterCur
       ELSE UNCHANGED <<links, allocated, cur>>
    /\ UNCHANGED <<marked, unconditional>>

\* One turn of the loop: delete and destroy the object, or unmark it.
SweepStep ==
    /\ cur # NULL
    /\ managed_objects' = CountAfter(Dead)
    /\ IF Dead
       THEN /\ Unlinked(cur)
            /\ allocated' = allocated \ {cur}
            /\ UNCHANGED marked
       ELSE /\ marked' = marked \ {cur}
            /\ UNCHANGED <<links, allocated>>
    /\ cur' = AfterCur
    /\ UNCHANGED unconditional

\* Stu_destroy is over and a new interpreter starts from nothing.
Restart ==
    /\ unconditional /\ cur = NULL
    /\ unconditional' = FALSE
    /\ marked' = {}
    /\ UNCHANGED <<links, allocated, cur, managed_objects>>

Next ==
    \/ \E o \in Objects : Gc_add(o)
    \/ \E marks \in SUBSET allocated, all \in BOOLEAN : SweepStart(marks, all)
    \/ SweepStep
    \/ Restart

Spec == Init /\ [][Next]_vars

\* The loop runs in the interpreter's own thread and waits for nothing.
FairSpec == Spec /\ WF_vars(SweepStep)
-----------------------------------------------------------------------------
\* The objects met on the way from start along a link, and those beyond x.
Met(start, link) == Way(start, link, Objects, NULL)
Beyond(x, link) == Met(link[x], link)

TypeOK ==
    /\ gc_head \in Refs /\ gc_tail \in Refs /\ cur \in Refs
    /\ next \in [Objects -> Refs] /\ prev \in [Objects -> Refs]
    /\ allocated \subseteq Objects /\ marked \subseteq Objects
    /\ unconditional \in BOOLEAN
    /\ managed_objects \in Nat

(* In the middle of a sweep as between two, both directions of the list    *)
(* hold exactly the objects that are allocated, once each, in opposite     *)
(* orders, and stats_gc_managed_objects counts them.                       *)
Linked ==
    /\ Met(gc_head, prev) = allocated
    /\ Met(gc_tail, next) = allocated
    /\ \A x \in allocated : x \notin Beyond(x, prev)
    /\ \A x, y \in allocated : y \in Beyond(x, prev) <=> x \in Beyond(y, next)
    /\ managed_objects = Cardinality(allocated)

(* After Stu_destroy's unconditional sweep nothing is left, locked or not. *)
DestroyedAll == unconditional /\ cur = NULL => allocated = {} /\ gc_tail = NULL

(* Every sweep comes to an end, although the list it walks loses objects   *)
(* under it: the loop neither stands still nor enters a cycle.             *)
SweepEnds == cur # NULL ~> cur = NULL

\* What will be left when the sweep under way is over, and in what order.
Surviving ==
    allocated \ (Met(cur, prev) \ (IF unconditional THEN {} ELSE marked))
Older == {p \in Surviving \X Surviving : p[2] \in Beyond(p[1], prev)}

(* The loop of Gc_sweep, deletions and all, does what one atomic sweep     *)
(* does: every object it should drop goes, every other stays, in order.    *)
Promise == INSTANCE ObjectList WITH members <- Surviving, older <- Older

KeepsPromise == Promise!Spec
=============================================================================
