----------------------------- MODULE Allocator -----------------------------
(***************************************************************************)
(* What the rest of libstu expects of Alloc_allocate and Alloc_release     *)
(* (alloc.c), whichever allocator is built in: a chunk is handed to one    *)
(* owner at a time, and it is zeroed when handed out.  The collector needs *)
(* both: an object is on its list once, and one whose type has not been    *)
(* set yet is blank (see Gc).                                              *)
(***************************************************************************)
CONSTANT Chunks

VARIABLES
    live,     \* chunks handed out and not released
    zeroed    \* live chunks their owner has not written to yet

Init == live = {} /\ zeroed = {}

Allocate(c) ==
    /\ c \in Chunks \ live
    /\ live' = live \cup {c}
    /\ zeroed' = zeroed \cup {c}

Write(c) ==
    /\ c \in live
    /\ zeroed' = zeroed \ {c}
    /\ UNCHANGED live

Release(c) ==
    /\ c \in live
    /\ live' = live \ {c}
    /\ zeroed' = zeroed \ {c}

Next == \E c \in Chunks : Allocate(c) \/ Write(c) \/ Release(c)

Spec == Init /\ [][Next]_<<live, zeroed>>
=============================================================================
