---------------------------- MODULE GcList_proof ----------------------------
(***************************************************************************)
(* The links of the collector's list spell one sequence, for any number of *)
(* objects, between any two turns of a sweep.  That an order of the        *)
(* objects agrees with the links says so without walking along them: a     *)
(* deletion leaves the order as it was, and a new object ranks last.  What *)
(* is met on the way along a link is then what ranks after the start.      *)
(***************************************************************************)
EXTENDS GcList, FiniteSetTheorems, TLAPS

\* The collector's list, as Reachability has lists.
List == [head |-> gc_head, tail |-> gc_tail, next |-> next, prev |-> prev]

IsOrder(rank) == IsList(rank, allocated, List, NULL)

\* An object that is not allocated is linked to nothing.
Detached == \A o \in Objects \ allocated : next[o] = NULL /\ prev[o] = NULL

\* An unconditional sweep is always at the head of what is left.
Sweeping ==
    /\ cur \in allocated \cup {NULL}
    /\ unconditional => cur = gc_head

IInv ==
    /\ TypeOK
    /\ managed_objects = Cardinality(allocated)
    /\ Detached
    /\ Sweeping
    /\ \E rank : IsOrder(rank)
-----------------------------------------------------------------------------
\* An order of the list agrees with the links and the ends.
OrderIsOrdered ==
    \A rank : IsOrder(rank) => Ordered(rank, allocated, gc_head, gc_tail, next, prev, NULL)

LEMMA OrderOrdered == OrderIsOrdered
  BY DEF OrderIsOrdered, IsOrder, IsList, List

LEMMA OrderOrderedNext == OrderIsOrdered'
  BY OrderOrdered, PTL

LEMMA InitIInv == Init => IInv
<1> SUFFICES ASSUME Init PROVE IInv
  OBVIOUS
<1> USE DEF Init
<1>1. TypeOK
  BY DEF TypeOK, Refs
<1>2. managed_objects = Cardinality(allocated)
  BY FS_EmptySet
<1>3. IsOrder([o \in Objects |-> 0])
  BY DEF IsOrder, IsList, List, Ordered, Spans
<1> QED
  BY <1>1, <1>2, <1>3 DEF IInv, Detached, Sweeping

(* The count follows the set.                                              *)
LEMMA Counted ==
    ASSUME NEW S \in SUBSET Objects
    PROVE  /\ Cardinality(S) \in Nat
           /\ \A o \in Objects \ S : Cardinality(S \cup {o}) = Cardinality(S) + 1
           /\ \A o \in S : Cardinality(S \ {o}) = Cardinality(S) - 1
<1>1. IsFiniteSet(S)
  BY GcListAssumption, FS_Subset
<1> QED
  BY <1>1, FS_CardinalityType, FS_AddElement, FS_RemoveElement

(* A new object goes to the end of the list.                               *)
LEMMA AddOrder ==
    ASSUME IInv, NEW o \in Objects, Gc_add(o), NEW rank, IsOrder(rank)
    PROVE  \E r : IsOrder(r)' /\ \A x \in allocated : r[x] = rank[x]
<1>1. /\ o \notin allocated /\ allocated' = allocated \cup {o} /\ gc_tail' = o
      /\ o # NULL /\ allocated \subseteq Objects /\ NULL \notin allocated
      /\ next[o] = NULL /\ prev[o] = NULL
      /\ next \in [Objects -> Refs] /\ prev \in [Objects -> Refs]
  BY GcListAssumption DEF Gc_add, IInv, Detached, TypeOK
<1>2. Ordered(rank, allocated, gc_head, gc_tail, next, prev, NULL)
  BY OrderOrdered DEF OrderIsOrdered
<1>3. /\ gc_head' = IF gc_head = NULL THEN o ELSE gc_head
      /\ next'[o] = gc_tail /\ prev'[o] = NULL
      /\ \A x \in allocated : /\ next'[x] = next[x]
                              /\ prev'[x] = IF x = gc_tail THEN o ELSE prev[x]
  <2>1. CASE gc_head = NULL
    BY <1>1, <1>2, <2>1 DEF Gc_add, Ordered
  <2>2. CASE gc_head # NULL
    <3>1. /\ gc_head' = gc_head /\ gc_tail \in allocated /\ gc_tail # o
          /\ next' = [next EXCEPT ![o] = gc_tail]
          /\ prev' = [prev EXCEPT ![gc_tail] = o]
      BY <1>1, <1>2, <2>2 DEF Gc_add, Ordered
    <3> QED
      BY <1>1, <2>2, <3>1
  <2> QED
    BY <2>1, <2>2
<1>4. Appends(o, allocated, List, List', NULL)
  BY <1>1, <1>3 DEF Appends, List
<1>5. IsList(rank, allocated, List, NULL)
  BY DEF IsOrder
<1> DEFINE L == List
           M == List'
<1>6. Lengthens(rank, o, allocated, L, M, NULL)
  BY <1>1, <1>4, <1>5 DEF Lengthens
<1> HIDE DEF L, M
<1>7. \E r : RankedAs(r, rank, o, allocated, M, NULL)
  BY <1>6, AppendedList
<1> QED
  BY <1>1, <1>7 DEF IsOrder, RankedAs, M

(* A new object goes to the end, and the count with it.                    *)
LEMMA AddIInv ==
    ASSUME IInv, NEW o \in Objects, Gc_add(o)
    PROVE  IInv'
<1> USE DEF IInv
<1>1. PICK rank : IsOrder(rank)
  OBVIOUS
<1>2. \E r : IsOrder(r)'
  BY <1>1, AddOrder
<1>6. Ordered(rank, allocated, gc_head, gc_tail, next, prev, NULL)
  BY <1>1, OrderOrdered DEF OrderIsOrdered
<1>3. /\ o \notin allocated /\ cur = NULL /\ ~unconditional
      /\ allocated' = allocated \cup {o} /\ gc_tail' = o
      /\ managed_objects' = managed_objects + 1
      /\ UNCHANGED <<marked, cur, unconditional>>
      /\ o # NULL /\ allocated \subseteq Objects /\ next[o] = NULL /\ prev[o] = NULL
  BY GcListAssumption DEF Gc_add, Detached, TypeOK
<1>4. managed_objects' = Cardinality(allocated') /\ managed_objects' \in Nat
  BY <1>3, Counted
<1>5. TypeOK' /\ Detached'
  <2>1. CASE gc_head = NULL
    BY <1>3, <1>4, <2>1 DEF Gc_add, TypeOK, Refs, Detached
  <2>2. CASE gc_head # NULL
    <3>1. /\ gc_head' = gc_head /\ gc_tail \in allocated /\ gc_tail \in Objects
          /\ next' = [next EXCEPT ![o] = gc_tail]
          /\ prev' = [prev EXCEPT ![gc_tail] = o]
      BY <1>3, <1>6, <2>2 DEF Gc_add, Ordered, TypeOK
    <3>2. /\ next' \in [Objects -> Refs] /\ prev' \in [Objects -> Refs]
          /\ \A x \in Objects : /\ x # o => next'[x] = next[x]
                               /\ x # gc_tail => prev'[x] = prev[x]
      BY <3>1 DEF TypeOK, Refs
    <3>3. TypeOK'
      BY <1>3, <1>4, <3>1, <3>2 DEF TypeOK, Refs
    <3>4. Detached'
      BY <1>3, <3>1, <3>2 DEF Detached
    <3> QED
      BY <3>3, <3>4
  <2> QED
    BY <2>1, <2>2
<1> QED
  BY <1>2, <1>3, <1>4, <1>5 DEF Sweeping

(* An object deleted leaves the others in order.                           *)
LEMMA UnlinkOrder ==
    ASSUME TypeOK, NEW c \in allocated, Unlinked(c), allocated' = allocated \ {c},
           NEW rank, IsOrder(rank)
    PROVE  /\ IsOrder(rank)'
           /\ prev[c] \in allocated' \cup {NULL}
           /\ c = gc_head => gc_head' = prev[c]
<1>1. /\ c \in Objects /\ c # NULL /\ allocated \subseteq Objects /\ NULL \notin allocated
  BY GcListAssumption DEF TypeOK
<1>2. Ordered(rank, allocated, gc_head, gc_tail, next, prev, NULL)
  BY OrderOrdered DEF OrderIsOrdered
<1>3. Joins(c, allocated, List, List', NULL)
  BY <1>1 DEF Unlinked, Joins, List
<1>4. IsList(rank, allocated, List, NULL)
  BY DEF IsOrder
<1>5. IsOrder(rank)'
  BY <1>1, <1>3, <1>4, JoinedList DEF IsOrder
<1>6. prev[c] \in allocated' \cup {NULL}
  <2>1. prev[c] # NULL => rank[c] < rank[prev[c]] /\ rank[c] \in Nat
    BY <1>2 DEF Ordered
  <2> QED
    BY <1>2, <2>1 DEF Ordered
<1>7. c = gc_head => gc_head' = prev[c]
  BY <1>2 DEF Unlinked, Ordered
<1> QED
  BY <1>5, <1>6, <1>7

(* A sweep starts at the head.                                             *)
LEMMA StartIInv ==
    ASSUME IInv, NEW marks \in SUBSET allocated, NEW all \in BOOLEAN, SweepStart(marks, all)
    PROVE  IInv'
<1> USE DEF IInv
<1>1. /\ gc_head # NULL /\ cur' = gc_head /\ marked' = marks /\ unconditional' = all
      /\ UNCHANGED <<gc_head, gc_tail, next, prev, allocated, managed_objects>>
  BY DEF SweepStart, links
<1>2. PICK rank : IsOrder(rank)
  OBVIOUS
<1>3. gc_head \in allocated /\ IsOrder(rank)'
  BY <1>1, <1>2, OrderOrdered DEF OrderIsOrdered, Ordered, IsOrder, List
<1> QED
  BY <1>1, <1>3 DEF TypeOK, Refs, Detached, Sweeping

(* One turn of the loop, whether it keeps the object or not.               *)
LEMMA StepIInv ==
    ASSUME IInv, SweepStep
    PROVE  IInv'
<1> USE DEF IInv
<1>1. PICK rank : IsOrder(rank)
  OBVIOUS
<1>2. /\ cur \in allocated /\ cur \in Objects /\ cur # NULL /\ allocated \subseteq Objects
      /\ cur' = prev[cur] /\ unconditional' = unconditional
      /\ unconditional => cur = gc_head
  BY DEF SweepStep, Sweeping, AfterCur, TypeOK
<1>3. CASE Dead
  <2>1. /\ Unlinked(cur) /\ allocated' = allocated \ {cur} /\ marked' = marked
        /\ managed_objects' = managed_objects - 1
    BY <1>3 DEF SweepStep, CountAfter
  <2>2. /\ IsOrder(rank)' /\ cur' \in allocated' \cup {NULL}
        /\ cur = gc_head => gc_head' = cur'
    BY <1>1, <1>2, <2>1, UnlinkOrder
  <2>3. managed_objects' = Cardinality(allocated') /\ managed_objects' \in Nat
    <3>1. Cardinality(allocated) - 1 = Cardinality(allocated') /\ Cardinality(allocated') \in Nat
      BY <1>2, <2>1, Counted
    <3> QED
      BY <2>1, <3>1
  <2>4. /\ next' \in [Objects -> Refs] /\ prev' \in [Objects -> Refs]
        /\ gc_head' \in Refs /\ gc_tail' \in Refs /\ cur' \in Refs
    BY <1>2, <2>1 DEF Unlinked, TypeOK, Refs
  <2>5. Detached'
    <3>1. ASSUME NEW o \in Objects \ allocated'
          PROVE  next'[o] = NULL /\ prev'[o] = NULL
      <4>1. CASE o = cur
        BY <4>1, <2>1 DEF Unlinked
      <4>2. CASE o # cur
        <5>1. o \notin allocated /\ next[o] = NULL /\ prev[o] = NULL /\ o # NULL
          BY <4>2, <2>1, GcListAssumption DEF Detached
        <5>2. o # prev[cur] /\ o # next[cur]
          BY <5>1, <1>1, <1>2, OrderOrdered DEF OrderIsOrdered, Ordered
        <5> QED
          BY <4>2, <5>1, <5>2, <2>1 DEF Unlinked
      <4> QED
        BY <4>1, <4>2
    <3> QED
      BY <3>1 DEF Detached
  <2>6. TypeOK'
    BY <1>2, <2>1, <2>3, <2>4 DEF TypeOK
  <2>7. Sweeping'
    BY <1>2, <2>2 DEF Sweeping
  <2> QED
    BY <2>2, <2>3, <2>5, <2>6, <2>7
<1>4. CASE ~Dead
  <2>1. /\ marked' = marked \ {cur} /\ ~unconditional
        /\ managed_objects' = managed_objects
        /\ UNCHANGED <<gc_head, gc_tail, next, prev, allocated>>
    BY <1>4 DEF SweepStep, CountAfter, Dead, links
  <2>2. prev[cur] \in allocated \cup {NULL} /\ IsOrder(rank)'
    BY <1>1, <1>2, <2>1, OrderOrdered DEF OrderIsOrdered, Ordered, IsOrder, List
  <2> QED
    BY <1>2, <2>1, <2>2 DEF TypeOK, Refs, Detached, Sweeping
<1> QED
  BY <1>3, <1>4

(* Every step keeps the list.                                              *)
LEMMA NextIInv ==
    ASSUME IInv, [Next]_vars
    PROVE  IInv'
<1>1. ASSUME NEW o \in Objects, Gc_add(o) PROVE IInv'
  BY <1>1, AddIInv
<1>2. ASSUME NEW marks \in SUBSET allocated, NEW all \in BOOLEAN, SweepStart(marks, all)
      PROVE  IInv'
  BY <1>2, StartIInv
<1>3. CASE SweepStep
  BY <1>3, StepIInv
<1>4. CASE Restart
  <2>1. /\ UNCHANGED <<gc_head, gc_tail, next, prev, allocated, cur, managed_objects>>
        /\ marked' \subseteq Objects /\ unconditional' \in BOOLEAN
        /\ unconditional' => unconditional
    BY <1>4 DEF Restart, links, IInv, TypeOK
  <2>2. PICK rank : IsOrder(rank)
    BY DEF IInv
  <2>3. IsOrder(rank)'
    BY <2>1, <2>2 DEF IsOrder, List
  <2> QED
    BY <2>1, <2>3 DEF IInv, TypeOK, Detached, Sweeping
<1>5. CASE UNCHANGED vars
  <2>1. /\ UNCHANGED <<gc_head, gc_tail, next, prev, allocated, cur, managed_objects>>
        /\ marked' \subseteq Objects /\ unconditional' \in BOOLEAN
        /\ unconditional' => unconditional
    BY <1>5 DEF vars, links, IInv, TypeOK
  <2>2. PICK rank : IsOrder(rank)
    BY DEF IInv
  <2>3. IsOrder(rank)'
    BY <2>1, <2>2 DEF IsOrder, List
  <2> QED
    BY <2>1, <2>3 DEF IInv, TypeOK, Detached, Sweeping
<1> QED
  BY <1>1, <1>2, <1>3, <1>4, <1>5 DEF Next
-----------------------------------------------------------------------------
(* The inductive invariant of the list.                                    *)
THEOREM ListInvariance == Spec => []IInv
<1>1. IInv /\ [Next]_vars => IInv'
  BY NextIInv
<1> QED
  BY <1>1, InitIInv, PTL DEF Spec

(* Every variable keeps its type; the count of objects is that of the list.*)
THEOREM ListTypeCorrect == Spec => []TypeOK
<1>1. IInv => TypeOK
  BY DEF IInv
<1> QED
  BY <1>1, ListInvariance, PTL

(* When the sweep of Stu_destroy has come to its end, no object is left,   *)
(* though every deletion moved the ends of the list it was walking.        *)
THEOREM DestroysAll == FairSpec => []DestroyedAll
<1>1. ASSUME IInv PROVE DestroyedAll
  <2> SUFFICES ASSUME unconditional, cur = NULL
               PROVE  allocated = {} /\ gc_tail = NULL
    BY DEF DestroyedAll
  <2> QED
    BY <1>1, OrderOrdered DEF IInv, Sweeping, OrderIsOrdered, Ordered
<1> QED
  BY <1>1, ListInvariance, PTL DEF FairSpec
-----------------------------------------------------------------------------
\* What a walk from an object meets, read off the order.
ByRank(rank) ==
    /\ \A x \in allocated : rank[x] \in Nat
    /\ \A x \in allocated :
        /\ Met(x, prev) = {y \in allocated : rank[x] <= rank[y]}
        /\ Met(x, next) = {y \in allocated : rank[y] <= rank[x]}
        /\ Beyond(x, prev) = {y \in allocated : rank[x] < rank[y]}
        /\ Beyond(x, next) = {y \in allocated : rank[y] < rank[x]}
    /\ Met(gc_head, prev) = allocated /\ Met(gc_tail, next) = allocated

AllByRank == \A rank : IsOrder(rank) => ByRank(rank)

(* A walk by prev meets what ranks after its start, one by next the rest;  *)
(* from the ends they meet everything.                                     *)
LEMMA WalksByRank == IInv => AllByRank
<1> SUFFICES ASSUME IInv, NEW rank, IsOrder(rank)
             PROVE  ByRank(rank)
  BY DEF AllByRank
<1>1. /\ NULL \notin Objects /\ allocated \in SUBSET Objects
      /\ List.prev \in [Objects -> Objects \cup {NULL}]
      /\ List.next \in [Objects -> Objects \cup {NULL}]
  BY GcListAssumption DEF IInv, TypeOK, Refs, List
<1>2. IsList(rank, allocated, List, NULL)
  BY DEF IsOrder
<1>3. /\ Ranked(rank, allocated, List, Objects, NULL)
      /\ Way(List.head, List.prev, Objects, NULL) = allocated
      /\ Way(List.tail, List.next, Objects, NULL) = allocated
  BY <1>1, <1>2, ListWalks
<1>4. \A x \in allocated : rank[x] \in Nat
  BY <1>2 DEF IsList, Ordered
<1> QED
  BY <1>3, <1>4 DEF ByRank, Ranked, Met, Beyond, List

(* So it is after a step.                                                  *)
LEMMA WalksByRankNext == IInv' => AllByRank'
BY WalksByRank, PTL

(* Forwards and backwards the links spell the objects that are allocated,  *)
(* in opposite orders and without a cycle, also in the middle of a sweep.  *)
THEOREM ListLinked == FairSpec => []Linked
<1>1. IInv => Linked
  <2> SUFFICES ASSUME IInv
               PROVE  Linked
    OBVIOUS
  <2>1. PICK rank : IsOrder(rank)
    BY DEF IInv
  <2>2. ByRank(rank)
    BY <2>1, WalksByRank DEF AllByRank
  <2>3. \A x \in allocated : x \notin Beyond(x, prev)
    BY <2>2 DEF ByRank
  <2>4. \A x, y \in allocated : y \in Beyond(x, prev) <=> x \in Beyond(y, next)
    BY <2>2 DEF ByRank
  <2> QED
    BY <2>2, <2>3, <2>4 DEF Linked, IInv, ByRank
<1> QED
  BY <1>1, ListInvariance, PTL DEF FairSpec
-----------------------------------------------------------------------------
(* Between two sweeps everything survives, in the order of the ranks.      *)
LEMMA AtRest ==
    IInv /\ cur = NULL => Surviving = allocated
<1> SUFFICES ASSUME IInv, cur = NULL
             PROVE  Surviving = allocated
  OBVIOUS
<1>1. Met(cur, prev) = {}
  BY GcListAssumption, WayFromNowhere DEF IInv, TypeOK, Met, Refs
<1> QED
  BY <1>1 DEF Surviving

\* The order of the survivors, by rank.
OlderByRank ==
    \A rank : IsOrder(rank) =>
        \A x, y : <<x, y>> \in Older <=>
            x \in Surviving /\ y \in Surviving /\ rank[x] < rank[y]

LEMMA OlderRanked == IInv => OlderByRank
<1> SUFFICES ASSUME IInv, NEW rank, IsOrder(rank), NEW x, NEW y
             PROVE  <<x, y>> \in Older <=>
                        x \in Surviving /\ y \in Surviving /\ rank[x] < rank[y]
  BY DEF OlderByRank
<1>1. ByRank(rank)
  BY WalksByRank DEF AllByRank
<1>2. Surviving \subseteq allocated
  BY DEF Surviving
<1>3. <<x, y>> \in Older <=> x \in Surviving /\ y \in Surviving /\ y \in Beyond(x, prev)
  BY DEF Older
<1> QED
  BY <1>1, <1>2, <1>3 DEF ByRank

LEMMA AtRestNext == IInv' /\ (cur = NULL)' => (Surviving = allocated)'
BY AtRest, PTL

LEMMA OlderRankedNext == IInv' => OlderByRank'
BY OlderRanked, PTL

(* A new object joins as the newest.                                       *)
LEMMA AddJoins ==
    ASSUME IInv, IInv', NEW o \in Objects, Gc_add(o)
    PROVE  Promise!Add(o)
<1>1. PICK rank : IsOrder(rank)
  BY DEF IInv
<1>2. PICK r : IsOrder(r)' /\ \A x \in allocated : r[x] = rank[x]
  BY <1>1, AddOrder
<1>3. /\ o \notin allocated /\ cur = NULL /\ cur' = NULL
      /\ allocated' = allocated \cup {o} /\ gc_tail' = o /\ allocated \subseteq Objects
  BY DEF Gc_add, IInv, TypeOK
<1>4. Surviving = allocated /\ Surviving' = allocated \cup {o}
  BY <1>3, AtRest, AtRestNext
<1>5. /\ \A x \in allocated : r[x] < r[o] /\ r[x] \in Nat
      /\ r[o] \in Nat
  <2>1. /\ \A x \in allocated' : r[x] <= r[gc_tail']
        /\ \A x, y \in allocated' : r[x] = r[y] => x = y
    BY <1>2, OrderOrderedNext DEF OrderIsOrdered, Ordered
  <2>2. r[o] \in Nat /\ \A x \in allocated : r[x] \in Nat
    BY <1>2, <1>3, OrderOrderedNext DEF OrderIsOrdered, Ordered
  <2>3. \A x \in allocated : r[x] # r[o] /\ r[x] <= r[o]
    BY <1>3, <2>1
  <2>4. \A x \in allocated : r[x] < r[o]
    BY <2>2, <2>3
  <2> QED
    BY <2>2, <2>4
<1>6. \A x, y : <<x, y>> \in Older <=> x \in allocated /\ y \in allocated /\ rank[x] < rank[y]
  BY <1>1, <1>4, OlderRanked DEF OlderByRank
<1>7. \A x, y : <<x, y>> \in Older' <=>
          x \in allocated \cup {o} /\ y \in allocated \cup {o} /\ r[x] < r[y]
  BY <1>2, <1>4, OlderRankedNext DEF OlderByRank
<1>8. \A x, y : <<x, y>> \in Older' <=> <<x, y>> \in Older \/ (x \in allocated /\ y = o)
  <2> SUFFICES ASSUME NEW x, NEW y
               PROVE  <<x, y>> \in Older' <=> <<x, y>> \in Older \/ (x \in allocated /\ y = o)
    OBVIOUS
  <2>1. CASE x \in allocated /\ y \in allocated
    BY <1>2, <1>3, <1>6, <1>7, <2>1
  <2>2. CASE x \in allocated /\ y = o
    BY <1>5, <1>6, <1>7, <2>2
  <2>3. CASE x = o /\ y \in allocated \cup {o}
    <3>1. ~(r[o] < r[y])
      BY <1>3, <1>5, <2>3
    <3> QED
      BY <1>3, <1>6, <1>7, <2>3, <3>1
  <2>4. CASE ~(x \in allocated \cup {o} /\ y \in allocated \cup {o})
    BY <1>6, <1>7, <2>4
  <2> QED
    BY <2>1, <2>2, <2>3, <2>4
<1>9. Older' = Older \cup (Surviving \X {o})
  <2>1. Older \subseteq Surviving \X Surviving /\ Older' \subseteq Surviving' \X Surviving'
    BY DEF Older
  <2> QED
    BY <1>4, <1>8, <2>1
<1> QED
  BY <1>3, <1>4, <1>9 DEF Promise!Add

(* The start of a sweep settles what it will keep.                         *)
LEMMA StartSweeps ==
    ASSUME IInv, IInv', NEW marks \in SUBSET allocated, NEW all \in BOOLEAN,
           SweepStart(marks, all)
    PROVE  \E keep \in SUBSET Objects : Promise!Sweep(keep)
<1>1. /\ cur = NULL /\ cur' = gc_head /\ marked' = marks /\ unconditional' = all
      /\ gc_head' = gc_head /\ prev' = prev /\ allocated' = allocated
  BY DEF SweepStart, links
<1> DEFINE keep == IF all THEN {} ELSE marks
<1>2. keep \in SUBSET Objects
  BY DEF IInv, TypeOK
<1>3. Surviving = allocated
  BY <1>1, AtRest
<1>4. Surviving' = allocated \cap keep
  <2>1. Met(cur', prev') = allocated
    BY <1>1, WalksByRank DEF IInv, AllByRank, ByRank
  <2> QED
    BY <1>1, <2>1 DEF Surviving
<1>5. Older' = Older \cap (keep \X keep)
  BY <1>1, <1>3, <1>4 DEF Older
<1> QED
  BY <1>2, <1>3, <1>4, <1>5 DEF Promise!Sweep

(* A turn of the loop looks at one object, whether it deletes it or not,   *)
(* and leaves the rest of its way as it was.                               *)
LEMMA StepWalks ==
    ASSUME IInv, IInv', SweepStep
    PROVE  /\ cur \in Met(cur, prev) /\ Met(cur, prev) \subseteq allocated
           /\ Met(cur', prev') = Met(cur, prev) \ {cur}
<1>1. PICK rank : IsOrder(rank)
  BY DEF IInv
<1>2. /\ cur \in allocated /\ cur \in Objects /\ allocated \subseteq Objects
      /\ cur' = prev[cur] /\ unconditional' = unconditional
      /\ Ordered(rank, allocated, gc_head, gc_tail, next, prev, NULL)
      /\ \A x \in allocated : rank[x] \in Nat
  BY <1>1, OrderOrdered DEF SweepStep, IInv, Sweeping, AfterCur, TypeOK, OrderIsOrdered, Ordered
<1>3. /\ IsOrder(rank)' /\ (prev[cur] # NULL => prev[cur] \in allocated')
      /\ allocated' = IF Dead THEN allocated \ {cur} ELSE allocated
      /\ marked' = IF Dead THEN marked ELSE marked \ {cur}
  <2>1. CASE Dead
    <3>1. Unlinked(cur) /\ allocated' = allocated \ {cur} /\ marked' = marked
      BY <2>1 DEF SweepStep
    <3> QED
      BY <1>1, <1>2, <2>1, <3>1, UnlinkOrder DEF IInv
  <2>2. CASE ~Dead
    <3>1. /\ marked' = marked \ {cur}
          /\ UNCHANGED <<gc_head, gc_tail, next, prev, allocated>>
      BY <2>2 DEF SweepStep, links
    <3> QED
      BY <1>1, <1>2, <2>2, <3>1 DEF Ordered, IsOrder, List
  <2> QED
    BY <2>1, <2>2
<1>4. Met(cur, prev) = {y \in allocated : rank[cur] <= rank[y]}
  BY <1>1, <1>2, WalksByRank DEF AllByRank, ByRank
<1>5. Met(cur', prev') = Met(cur, prev) \ {cur}
  <2>1. \A y \in allocated : rank[y] = rank[cur] => y = cur
    BY <1>1, <1>2 DEF Ordered
  <2>2. CASE prev[cur] = NULL
    <3>1. Met(cur', prev') = {}
      BY <1>2, <2>2, GcListAssumption, WayFromNowhere DEF IInv, TypeOK, Met, Refs
    <3>2. \A y \in allocated : rank[y] <= rank[cur]
      BY <1>1, <1>2, <2>2 DEF Ordered
    <3>3. \A y \in allocated : rank[cur] <= rank[y] => y = cur
      BY <1>2, <2>1, <3>2
    <3> QED
      BY <1>4, <3>1, <3>3
  <2>3. CASE prev[cur] # NULL
    <3> DEFINE p == prev[cur]
    <3>1. /\ rank[cur] < rank[p] /\ p \in allocated /\ p \in allocated' /\ cur' = p
          /\ \A y \in allocated : rank[y] <= rank[cur] \/ rank[p] <= rank[y]
      BY <1>1, <1>2, <1>3, <2>3 DEF Ordered
    <3> HIDE DEF p
    <3>2. Met(p, prev') = {y \in allocated' : rank[p] <= rank[y]}
      BY <1>3, <3>1, WalksByRankNext DEF AllByRank, ByRank
    <3>3. \A y \in allocated : rank[p] <= rank[y] <=> rank[cur] <= rank[y] /\ y # cur
      BY <1>2, <2>1, <3>1
    <3> QED
      BY <1>3, <1>4, <3>1, <3>2, <3>3
  <2> QED
    BY <2>2, <2>3
<1>6. cur \in Met(cur, prev) /\ Met(cur, prev) \subseteq allocated
  BY <1>2, <1>4
<1> QED
  BY <1>5, <1>6

(* A turn of the loop changes nothing that is settled: the object it       *)
(* deletes was to go, the one it unmarks has been visited.                 *)
LEMMA StepStutters ==
    ASSUME IInv, IInv', SweepStep
    PROVE  Surviving' = Surviving /\ Older' = Older
<1>1. PICK rank : IsOrder(rank)
  BY DEF IInv
<1>2. /\ allocated' = IF Dead THEN allocated \ {cur} ELSE allocated
      /\ marked' = IF Dead THEN marked ELSE marked \ {cur}
      /\ cur \in allocated /\ unconditional' = unconditional
  BY DEF SweepStep, links, IInv, Sweeping
<1>3. IsOrder(rank)'
  <2>1. CASE Dead
    BY <1>1, <1>2, <2>1, UnlinkOrder DEF IInv, SweepStep
  <2>2. CASE ~Dead
    BY <1>1, <2>2 DEF SweepStep, links, IsOrder, List
  <2> QED
    BY <2>1, <2>2
<1>4. /\ cur \in Met(cur, prev) /\ Met(cur, prev) \subseteq allocated
      /\ Met(cur', prev') = Met(cur, prev) \ {cur}
  BY StepWalks
<1>5. Surviving' = Surviving
  BY <1>2, <1>4 DEF Surviving, Dead
<1>6. \A x, y : <<x, y>> \in Older' <=> <<x, y>> \in Older
  BY <1>1, <1>3, <1>5, OlderRanked, OlderRankedNext DEF OlderByRank
<1>7. Older' = Older
  <2>1. Older \subseteq Surviving \X Surviving /\ Older' \subseteq Surviving' \X Surviving'
    BY DEF Older
  <2> QED
    BY <1>6, <2>1
<1> QED
  BY <1>5, <1>7

(* Walking and deleting object by object does what one atomic sweep does:  *)
(* the list is the ordered set that ObjectList promises.                   *)
THEOREM Implements == FairSpec => KeepsPromise
<1>1. Init => Promise!Init
  BY DEF Init, Promise!Init, Surviving, Older
<1>2. IInv /\ IInv' /\ [Next]_vars => [Promise!Next]_<<Surviving, Older>>
  <2> SUFFICES ASSUME IInv, IInv', [Next]_vars
               PROVE  Promise!Next \/ (Surviving' = Surviving /\ Older' = Older)
    OBVIOUS
  <2>1. ASSUME NEW o \in Objects, Gc_add(o)
        PROVE  Promise!Next
    BY <2>1, AddJoins DEF Promise!Next
  <2>2. ASSUME NEW marks \in SUBSET allocated, NEW all \in BOOLEAN, SweepStart(marks, all)
        PROVE  Promise!Next
    BY <2>2, StartSweeps DEF Promise!Next
  <2>3. CASE SweepStep
    BY <2>3, StepStutters
  <2>4. CASE Restart
    <3>1. cur = NULL /\ cur' = NULL /\ allocated' = allocated /\ prev' = prev
      BY <2>4 DEF Restart, links
    <3>2. Surviving' = Surviving
      BY <3>1, AtRest, AtRestNext
    <3> QED
      BY <3>1, <3>2 DEF Older
  <2>5. CASE UNCHANGED vars
    BY <2>5 DEF vars, links, Surviving, Older
  <2> QED
    BY <2>1, <2>2, <2>3, <2>4, <2>5 DEF Next
<1> QED
  BY <1>1, <1>2, ListInvariance, PTL DEF FairSpec, Spec, KeepsPromise, Promise!Spec
-----------------------------------------------------------------------------
\* The objects a sweep has still to look at.
Ahead == Met(cur, prev)

\* While a sweep is under way, every step shortens what is ahead of it.
SweepAdvances ==
    [][cur # NULL => cur \in Ahead /\ Ahead' = Ahead \ {cur}
                     /\ Cardinality(Ahead') = Cardinality(Ahead) - 1]_vars

(* The safety of SweepEnds: what is ahead of a sweep is a finite set, and  *)
(* each turn takes the current object out of it and adds nothing, although *)
(* the turn may have deleted that object from the list being walked.  So a *)
(* sweep takes at most as many turns as there are objects when it starts.  *)
THEOREM SweepRunsOut == FairSpec => SweepAdvances
<1> DEFINE Advance == cur # NULL => cur \in Ahead /\ Ahead' = Ahead \ {cur}
                                    /\ Cardinality(Ahead') = Cardinality(Ahead) - 1
<1>1. IInv /\ IInv' /\ [Next]_vars => [Advance]_vars
  <2> SUFFICES ASSUME IInv, IInv', [Next]_vars, ~UNCHANGED vars, cur # NULL
               PROVE  /\ cur \in Ahead /\ Ahead' = Ahead \ {cur}
                      /\ Cardinality(Ahead') = Cardinality(Ahead) - 1
    OBVIOUS
  <2>1. SweepStep
    BY DEF Next, Gc_add, SweepStart, Restart
  <2>2. cur \in Ahead /\ Ahead' = Ahead \ {cur} /\ Ahead \subseteq allocated
    BY <2>1, StepWalks DEF Ahead
  <2>3. Ahead \in SUBSET Objects
    BY <2>2 DEF IInv, TypeOK
  <2> QED
    BY <2>2, <2>3, Counted
<1> QED
  BY <1>1, ListInvariance, PTL DEF FairSpec, Spec, SweepAdvances
=============================================================================
