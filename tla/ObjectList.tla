----------------------------- MODULE ObjectList -----------------------------
(***************************************************************************)
(* What the collector's list of managed objects promises: objects join as  *)
(* the newest when they are created, and a sweep drops the sweepable ones  *)
(* in one go and leaves the others in order.  Gc speaks of the list as the *)
(* set managed.                                                            *)
(***************************************************************************)
CONSTANT Objects

VARIABLES
    members,   \* the objects in the list
    older      \* their order: <<x, y>> if x was created before y

Init == members = {} /\ older = {}

Add(o) ==
    /\ o \notin members
    /\ members' = members \cup {o}
    /\ older' = older \cup (members \X {o})

Sweep(keep) ==
    /\ members' = members \cap keep
    /\ older' = older \cap (keep \X keep)

Next ==
    \/ \E o \in Objects : Add(o)
    \/ \E keep \in SUBSET Objects : Sweep(keep)

Spec == Init /\ [][Next]_<<members, older>>
=============================================================================
