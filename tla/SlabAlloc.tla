----------------------------- MODULE SlabAlloc -----------------------------
(***************************************************************************)
(* The slab allocator (alloc/alloc_slab.c): chunks of one size, SLAB_SIZE  *)
(* of them in a slab, a LIFO free list per slab, new slabs on demand.      *)
(*                                                                         *)
(* A chunk's address is its slab's number and its index in the slab.  A    *)
(* free list holds the indices up to free_list_head; chunks above          *)
(* chunk_head have never been handed out.  Owners write to what they have  *)
(* and release it once.                                                    *)
(***************************************************************************)
EXTENDS Integers, Sequences, SequencesExt

CONSTANTS
    SLAB_SIZE,          \* chunks per slab (configure.ac:40-48)
    INITIAL_NUM_SLABS,  \* entries the slab array starts with
    MaxSlabs            \* bound: slabs ever created

ASSUME SlabAssumption ==
    /\ SLAB_SIZE \in Nat \ {0}
    /\ INITIAL_NUM_SLABS \in Nat \ {0}
    /\ MaxSlabs \in Nat \ {0}

VARIABLES
    slabs,      \* the used_slabs slabs in use, in order
    num_slabs,  \* entries allocated for the slab array
    live,       \* chunks their owner has not released
    dirty       \* chunks whose bytes may differ from zero

vars == <<slabs, num_slabs, live, dirty>>

Indices == 0 .. SLAB_SIZE - 1
Chunks == (1 .. MaxSlabs) \X Indices
Slab == [chunk_head : -1 .. SLAB_SIZE - 1, free_list : Seq(Indices)]

\* init_slab: malloc leaves whatever was in memory.
EmptySlab == [chunk_head |-> -1, free_list |-> <<>>]

Init ==
    /\ slabs = <<EmptySlab>>
    /\ num_slabs = INITIAL_NUM_SLABS
    /\ live = {}
    /\ dirty = Chunks
-----------------------------------------------------------------------------
\* Mutant of HasChunk: the free list is not looked at.
HasFreshChunk(slab) == slab.chunk_head < SLAB_SIZE - 1

HasChunk(slab) == slab.free_list # <<>> \/ slab.chunk_head < SLAB_SIZE - 1

\* next_chunk: the last chunk freed, or else the first never handed out.
NextIndex(slab) ==
    IF slab.free_list # <<>> THEN Last(slab.free_list) ELSE slab.chunk_head + 1

\* Mutant of NextSlab: the index taken stays on the free list.
NextSlabNoPop(slab) ==
    IF slab.free_list # <<>> THEN slab ELSE [slab EXCEPT !.chunk_head = @ + 1]

NextSlab(slab) ==
    IF slab.free_list # <<>>
    THEN [slab EXCEPT !.free_list = Front(@)]
    ELSE [slab EXCEPT !.chunk_head = @ + 1]

\* Mutant of Cleared: no memset.
NotCleared(c) == dirty

\* The memset at the end of next_chunk.
Cleared(c) == dirty \ {c}

\* Mutant of Freed: free_list_head is not advanced, the last entry overwritten.
FreedOverLast(slab, i) ==
    IF i > 0
    THEN IF slab.free_list = <<>> THEN [slab EXCEPT !.free_list = <<i>>]
         ELSE [slab EXCEPT !.free_list[Len(slab.free_list)] = i]
    ELSE slab

\* release_chunk: chunk i goes on the free list.
Freed(slab, i) ==
    IF i > 0 /\ i < SLAB_SIZE /\ Len(slab.free_list) - 1 < SLAB_SIZE - 1
    THEN [slab EXCEPT !.free_list = Append(@, i)]
    ELSE slab

\* Mutant of GrownArray: the array is doubled one slab too late.
GrownArrayLate == IF Len(slabs) > num_slabs THEN num_slabs * 2 ELSE num_slabs

\* next_slab doubles a full slab array.
GrownArray == IF Len(slabs) = num_slabs THEN num_slabs * 2 ELSE num_slabs

\* The first slab with a chunk to spare serves the request.
AllocateFrom(s) ==
    LET c == <<s, NextIndex(slabs[s])>>
    IN  /\ HasChunk(slabs[s])
        /\ \A t \in 1 .. s - 1 : ~HasChunk(slabs[t])
        /\ slabs' = [slabs EXCEPT ![s] = NextSlab(@)]
        /\ live' = live \cup {c}
        /\ dirty' = Cleared(c)
        /\ UNCHANGED num_slabs

\* No slab has one: next_slab makes another.
AllocateNewSlab ==
    LET c == <<Len(slabs) + 1, NextIndex(EmptySlab)>>
    IN  /\ Len(slabs) < MaxSlabs
        /\ \A t \in DOMAIN slabs : ~HasChunk(slabs[t])
        /\ num_slabs' = GrownArray
        /\ slabs' = Append(slabs, NextSlab(EmptySlab))
        /\ live' = live \cup {c}
        /\ dirty' = Cleared(c)

Write(c) ==
    /\ dirty' = dirty \cup {c}
    /\ UNCHANGED <<slabs, num_slabs, live>>

\* find_slab finds the slab the address lies in.
AllocSlab_release(c) ==
    /\ live' = live \ {c}
    /\ slabs' = [slabs EXCEPT ![c[1]] = Freed(@, c[2])]
    /\ UNCHANGED <<num_slabs, dirty>>

Next ==
    \/ \E s \in DOMAIN slabs : AllocateFrom(s)
    \/ AllocateNewSlab
    \/ \E c \in live : Write(c) \/ AllocSlab_release(c)

Spec == Init /\ [][Next]_vars
-----------------------------------------------------------------------------
FreeIndices(slab) == {slab.free_list[j] : j \in DOMAIN slab.free_list}

(* The free list never outgrows the SLAB_SIZE entries malloc gave it, and  *)
(* the slab array has room for every slab in use.                          *)
TypeOK ==
    /\ slabs \in Seq(Slab)
    /\ num_slabs \in Nat
    /\ Len(slabs) \in 1 .. num_slabs
    /\ \A s \in DOMAIN slabs : Len(slabs[s].free_list) <= SLAB_SIZE
    /\ live \subseteq Chunks
    /\ dirty \subseteq Chunks

(* However allocations and releases interleave, a free chunk is on its     *)
(* free list once, is nobody's, and has been handed out before; a chunk    *)
(* somebody owns lies in a slab below chunk_head.  So next_chunk never     *)
(* hands out a chunk that is in use.                                       *)
NoOverlap ==
    /\ \A s \in DOMAIN slabs :
        /\ IsInjective(slabs[s].free_list)
        /\ \A i \in FreeIndices(slabs[s]) : i <= slabs[s].chunk_head /\ <<s, i>> \notin live
    /\ \A c \in live : c[1] \in DOMAIN slabs /\ c[2] <= slabs[c[1]].chunk_head

(* Of the chunks handed out so far, a slab loses track of its first at     *)
(* most: any other is in use or on the free list.                          *)
LosesFirstOnly ==
    \A s \in DOMAIN slabs : \A i \in 1 .. slabs[s].chunk_head :
        <<s, i>> \in live \/ i \in FreeIndices(slabs[s])

(* Memory grows only under need: a new slab is made only when all chunks   *)
(* of all slabs, but for the first of each, are in use.                    *)
GrowsWhenFull ==
    [][Len(slabs') > Len(slabs) =>
        \A s \in DOMAIN slabs : \A i \in 1 .. SLAB_SIZE - 1 : <<s, i>> \in live]_vars

(* The slab allocator keeps the promise of alloc.h.                        *)
Promise == INSTANCE Allocator WITH zeroed <- live \ dirty

KeepsPromise == Promise!Spec
=============================================================================
