---------------------------- MODULE Reachability ----------------------------
(***************************************************************************)
(* The traversal that gc.c performs twice, once with Gc_mark and once with *)
(* Gc_lock: start from some objects, flag each one, go on to the objects   *)
(* it visits, and stop at any object that already carries the flag         *)
(* ("if (gc && !GC_MARKED(gc))", "if (gc && !GC_LOCKED(gc))").             *)
(*                                                                         *)
(* The flagged objects are the smallest set that holds the roots and is    *)
(* closed under visits, both cut down to the objects that were open        *)
(* (unflagged) when the traversal began.  A smallest closed set needs no   *)
(* recursion, which lets TLAPS reason about it.                            *)
(*                                                                         *)
(* A walk along the links of a list is such a traversal, too; the second   *)
(* part is about these.                                                    *)
(***************************************************************************)
EXTENDS Integers

\* ch[x] is the set of objects that visiting x leads to.
Closed(ch, S, open) == \A x \in S : ch[x] \cap open \subseteq S

ClosedSets(ch, roots, open) ==
    {S \in SUBSET open : roots \cap open \subseteq S /\ Closed(ch, S, open)}

\* What a traversal from roots flags when only the objects in open are unflagged.
Reach(ch, roots, open) ==
    LET C == ClosedSets(ch, roots, open)
    IN  {x \in open : \A S \in C : x \in S}

-----------------------------------------------------------------------------

(* A traversal flags its unflagged roots and nothing that was already      *)
(* flagged (gc.c:192, gc.c:209).                                           *)
LEMMA ReachRoots ==
    ASSUME NEW ch, NEW roots, NEW open
    PROVE  /\ Reach(ch, roots, open) \subseteq open
           /\ roots \cap open \subseteq Reach(ch, roots, open)
  BY DEF Reach, ClosedSets

(* A traversal leaves no unflagged object next to a flagged one (the calls *)
(* of action in Gc_visit_sv and Gc_visit_env, gc.c:32-87).                 *)
LEMMA ReachClosed ==
    ASSUME NEW ch, NEW roots, NEW open
    PROVE  Closed(ch, Reach(ch, roots, open), open)
<1> SUFFICES ASSUME NEW x \in Reach(ch, roots, open),
                    NEW y \in ch[x], y \in open
             PROVE  y \in Reach(ch, roots, open)
  BY DEF Closed
<1>1. ASSUME NEW S \in ClosedSets(ch, roots, open)
      PROVE  y \in S
  <2>1. x \in S
    BY DEF Reach
  <2>2. Closed(ch, S, open)
    BY DEF ClosedSets
  <2> QED
    BY <2>1, <2>2 DEF Closed
<1> QED
  BY <1>1 DEF Reach

(* A traversal flags nothing beyond the smallest such set: whatever set    *)
(* holds the roots and is closed under visits contains everything flagged. *)
LEMMA ReachLeast ==
    ASSUME NEW ch, NEW roots, NEW open, NEW S,
           roots \cap open \subseteq S, Closed(ch, S, open)
    PROVE  Reach(ch, roots, open) \subseteq S
<1> DEFINE T == S \cap open
<1>1. T \in SUBSET open /\ roots \cap open \subseteq T
  OBVIOUS
<1>2. Closed(ch, T, open)
  BY DEF Closed
<1>3. T \in ClosedSets(ch, roots, open)
  BY <1>1, <1>2 DEF ClosedSets
<1> QED
  BY <1>3 DEF Reach
-----------------------------------------------------------------------------
(***************************************************************************)
(* Linked lists, which the collector (gc.c) and the hash table (hash.c)    *)
(* keep by hand.  A list L of the nodes A has a head and a tail; L.prev    *)
(* leads from the head to the tail and L.next back; null ends both ways.   *)
(***************************************************************************)

\* What is met from start on along a link; N is where the nodes come from.
Way(start, link, N, null) ==
    Reach([x \in N |-> {link[x]} \ {null}], {start} \ {null}, N)

\* Who starts at start and follows link meets all of A.
Spans(start, link, A, null) ==
    \A S \in SUBSET A :
        /\ start # null => start \in S
        /\ \A x \in S : link[x] # null => link[x] \in S
        => S = A

\* An order agrees with the links: the ends rank first and last, and nothing
\* ranks between two neighbours.
Ordered(rank, A, h, t, ln, lp, null) ==
    /\ \A x \in A : rank[x] \in Nat
    /\ h \in A \cup {null} /\ t \in A \cup {null}
    /\ h = null <=> A = {}
    /\ t = null <=> A = {}
    /\ \A x \in A : rank[h] <= rank[x] /\ rank[x] <= rank[t]
    /\ \A x, y \in A : rank[x] = rank[y] => x = y
    /\ \A x \in A :
        /\ lp[x] \in A \cup {null} /\ ln[x] \in A \cup {null}
        /\ lp[x] = null <=> x = t
        /\ ln[x] = null <=> x = h
        /\ ln[x] # null => lp[ln[x]] = x
        /\ lp[x] # null =>
            /\ ln[lp[x]] = x
            /\ rank[x] < rank[lp[x]]
            /\ \A y \in A : rank[y] <= rank[x] \/ rank[lp[x]] <= rank[y]

IsList(rank, A, L, null) ==
    /\ Ordered(rank, A, L.head, L.tail, L.next, L.prev, null)
    /\ Spans(L.head, L.prev, A, null)
    /\ Spans(L.tail, L.next, A, null)

\* M is L with o after its tail.
Appends(o, A, L, M, null) ==
    /\ o \notin A /\ o # null
    /\ M.tail = o /\ M.head = IF L.head = null THEN o ELSE L.head
    /\ M.next[o] = L.tail /\ M.prev[o] = null
    /\ \A x \in A : /\ M.next[x] = L.next[x]
                    /\ M.prev[x] = IF x = L.tail THEN o ELSE L.prev[x]

Lengthens(rank, o, A, L, M, null) ==
    /\ null \notin A
    /\ IsList(rank, A, L, null)
    /\ Appends(o, A, L, M, null)

\* M is a list of A and o, ranked by r as A was by rank.
RankedAs(r, rank, o, A, M, null) ==
    IsList(r, A \cup {o}, M, null) /\ \A x \in A : r[x] = rank[x]

\* M is L with the neighbours of c, or the ends, joined over c.
Joins(c, A, L, M, null) ==
    /\ c \in A /\ c # null
    /\ M.tail = IF L.prev[c] = null THEN L.next[c] ELSE L.tail
    /\ M.head = IF L.next[c] = null THEN L.prev[c] ELSE L.head
    /\ \A x \in A \ {c} :
           /\ M.next[x] = IF x = L.prev[c] THEN L.next[c] ELSE L.next[x]
           /\ M.prev[x] = IF x = L.next[c] THEN L.prev[c] ELSE L.prev[x]

\* link leads from each object of A to the one after it in the order R.
Goes(link, A, R, null) ==
    /\ \A x \in A : <<x, x>> \in R /\ link[x] \in A \cup {null}
    /\ \A x, y \in A : <<x, y>> \in R \/ <<y, x>> \in R
    /\ \A x, y \in A : <<x, y>> \in R /\ <<y, x>> \in R => x = y
    /\ \A x, y, z \in A : <<x, y>> \in R /\ <<y, z>> \in R => <<x, z>> \in R
    /\ \A x \in A : link[x] # null =>
           /\ <<x, link[x]>> \in R
           /\ \A y \in A : <<y, x>> \in R \/ <<link[x], y>> \in R

\* From s along l is from start along link, but for c, which came after b.
Skips(A, start, link, s, l, c, b, null) ==
    /\ c \in A /\ c # null /\ link[c] \in A \cup {null} /\ link[c] # c
    /\ b = null => c = start /\ s = link[c]
    /\ b # null => c # start /\ s = start /\ b # c
    /\ \A x \in A \ {c} : l[x] = IF x = b THEN link[c] ELSE link[x]
    /\ \A x \in A : link[x] = c <=> x = b

(* What is met along a link is the smallest set that holds the start and   *)
(* follows the link.                                                       *)
LEMMA WayFacts ==
    ASSUME NEW N, NEW null, null \notin N,
           NEW start \in N \cup {null}, NEW link \in [N -> N \cup {null}]
    PROVE  /\ Way(start, link, N, null) \subseteq N
           /\ start # null => start \in Way(start, link, N, null)
           /\ \A x \in Way(start, link, N, null) :
                  link[x] # null => link[x] \in Way(start, link, N, null)
           /\ \A S \in SUBSET N :
                  /\ start # null => start \in S
                  /\ \A x \in S : link[x] # null => link[x] \in S
                  => Way(start, link, N, null) \subseteq S
<1> DEFINE ch == [x \in N |-> {link[x]} \ {null}]
           M == Way(start, link, N, null)
<1>1. /\ M \subseteq N /\ ({start} \ {null}) \cap N \subseteq M
      /\ Closed(ch, M, N)
  BY ReachRoots, ReachClosed DEF Way
<1>2. ASSUME NEW x \in M, link[x] # null
      PROVE  link[x] \in M
  <2>1. x \in N /\ ch[x] = {link[x]} \ {null} /\ link[x] \in N
    BY <1>1, <1>2
  <2> HIDE DEF ch, M
  <2> QED
    BY <1>1, <1>2, <2>1 DEF Closed
<1>3. ASSUME NEW S \in SUBSET N, start # null => start \in S,
             \A x \in S : link[x] # null => link[x] \in S
      PROVE  M \subseteq S
  <2>1. ({start} \ {null}) \cap N \subseteq S
    BY <1>3
  <2>2. Closed(ch, S, N)
    BY <1>3 DEF Closed
  <2> QED
    BY <2>1, <2>2, ReachLeast DEF Way
<1>4. start # null => start \in M
  BY <1>1
<1> QED
  BY <1>1, <1>2, <1>3, <1>4

(* Nothing is met from nowhere.                                            *)
LEMMA WayFromNowhere ==
    ASSUME NEW N, NEW null, null \notin N, NEW link \in [N -> N \cup {null}]
    PROVE  Way(null, link, N, null) = {}
<1> DEFINE S == {}
<1>1. null \in N \cup {null} /\ S \in SUBSET N /\ \A x \in S : link[x] # null => link[x] \in S
  OBVIOUS
<1> HIDE DEF S
<1>2. Way(null, link, N, null) \subseteq S
  BY <1>1, WayFacts
<1> QED
  BY <1>2 DEF S

(* A walk meets what comes later in the order, and all of it.              *)
LEMMA WayInOrder ==
    ASSUME NEW N, NEW null, null \notin N,
           NEW A \in SUBSET N, NEW start \in A \cup {null}, NEW link \in [N -> N \cup {null}],
           NEW R, Spans(start, link, A, null), Goes(link, A, R, null),
           \A y \in A : <<start, y>> \in R, NEW x \in A
    PROVE  Way(x, link, N, null) = {y \in A : <<x, y>> \in R}
<1> DEFINE M == Way(x, link, N, null)
           L == {y \in A : <<x, y>> \in R}
           U == {y \in A : y \in M \/ ~(<<x, y>> \in R)}
<1>1. /\ x \in N \cup {null} /\ x # null /\ x \in M
      /\ \A y \in M : link[y] # null => link[y] \in M
  BY WayFacts
<1>2. M \subseteq L
  <2>1. L \in SUBSET N /\ x \in L
    BY DEF Goes
  <2>2. \A y \in L : link[y] # null => link[y] \in L
    <3> SUFFICES ASSUME NEW y \in L, link[y] # null
                 PROVE  link[y] \in A /\ <<x, link[y]>> \in R
      OBVIOUS
    <3>1. link[y] \in A /\ <<y, link[y]>> \in R
      BY DEF Goes
    <3> QED
      BY <3>1 DEF Goes
  <2> HIDE DEF L
  <2> QED
    BY <1>1, <2>1, <2>2, WayFacts
<1> HIDE DEF M
<1>3. U = A
  <2>1. start # null => start \in U
    <3>1. start # null /\ <<x, start>> \in R => start = x
      BY DEF Goes
    <3> QED
      BY <1>1, <3>1
  <2>2. ASSUME NEW z \in U, link[z] # null
        PROVE  link[z] \in U
    <3>1. link[z] \in A
      BY <2>2 DEF Goes
    <3>2. CASE z \in M
      BY <1>1, <2>2, <3>1, <3>2
    <3>3. CASE ~(<<x, z>> \in R) /\ <<x, link[z]>> \in R
      <4>1. <<link[z], x>> \in R
        BY <2>2, <3>3 DEF Goes
      <4>2. link[z] = x
        BY <3>1, <3>3, <4>1 DEF Goes
      <4> QED
        BY <1>1, <4>2
    <3> QED
      BY <3>1, <3>2, <3>3
  <2>3. U \in SUBSET A
    OBVIOUS
  <2> HIDE DEF U
  <2> QED
    BY <2>1, <2>2, <2>3 DEF Spans
<1>4. L \subseteq M
  BY <1>3
<1> QED
  BY <1>2, <1>4 DEF M

(* Nothing but A is met from the end that all of A is met from.            *)
LEMMA WayMeetsAll ==
    ASSUME NEW N, NEW null, null \notin N, NEW A \in SUBSET N, NEW start \in A \cup {null},
           NEW link \in [N -> N \cup {null}], Spans(start, link, A, null),
           \A x \in A : link[x] \in A \cup {null}
    PROVE  Way(start, link, N, null) = A
<1> DEFINE M == Way(start, link, N, null)
<1>1. start \in N \cup {null}
  OBVIOUS
<1>2. /\ start # null => start \in M
      /\ \A x \in M : link[x] # null => link[x] \in M
  BY <1>1, WayFacts
<1>3. M \subseteq A
  BY <1>1, WayFacts
<1> HIDE DEF M
<1>4. M = A
  BY <1>2, <1>3 DEF Spans
<1> QED
  BY <1>4 DEF M

(* A node added behind the last one is met as well.                        *)
LEMMA SpansAfter ==
    ASSUME NEW null, NEW A, NEW start, NEW link, NEW l, NEW o, o \notin A, o # null,
           NEW t \in A, Spans(start, link, A, null), start \in A,
           link[t] = null, l[t] = o, l[o] = null,
           \A x \in A : link[x] \in A \cup {null} /\ (x # t => l[x] = link[x])
    PROVE  Spans(start, l, A \cup {o}, null)
<1> SUFFICES ASSUME NEW S \in SUBSET (A \cup {o}), start # null => start \in S,
                    \A x \in S : l[x] # null => l[x] \in S
             PROVE  S = A \cup {o}
  BY DEF Spans
<1> DEFINE T == S \ {o}
<1>1. T \in SUBSET A /\ (start # null => start \in T)
  OBVIOUS
<1>2. \A x \in T : link[x] # null => link[x] \in T
  OBVIOUS
<1> HIDE DEF T
<1>3. T = A
  BY <1>1, <1>2 DEF Spans
<1>4. t \in S
  BY <1>3 DEF T
<1>5. o \in S
  BY <1>4
<1> QED
  BY <1>3, <1>5 DEF T

(* A node added before the first one leads to all the others.              *)
LEMMA SpansBefore ==
    ASSUME NEW null, NEW A, NEW start, NEW link, NEW l, NEW o, o \notin A, o # null,
           Spans(start, link, A, null), start # o, l[o] = start,
           \A x \in A : link[x] \in A \cup {null} /\ l[x] = link[x]
    PROVE  Spans(o, l, A \cup {o}, null)
<1> SUFFICES ASSUME NEW S \in SUBSET (A \cup {o}), o \in S,
                    \A x \in S : l[x] # null => l[x] \in S
             PROVE  S = A \cup {o}
  BY DEF Spans
<1> DEFINE T == S \ {o}
<1>1. T \in SUBSET A /\ (start # null => start \in T)
  OBVIOUS
<1>2. \A x \in T : link[x] # null => link[x] \in T
  OBVIOUS
<1> HIDE DEF T
<1>3. T = A
  BY <1>1, <1>2 DEF Spans
<1> QED
  BY <1>3 DEF T

(* Joining the neighbours of a node over it leaves all others met.         *)
LEMMA SpansWithout ==
    ASSUME NEW null, NEW A, NEW start, NEW link, NEW s, NEW l, NEW c, NEW b,
           Spans(start, link, A, null), Skips(A, start, link, s, l, c, b, null)
    PROVE  Spans(s, l, A \ {c}, null)
<1> USE DEF Skips
<1> SUFFICES ASSUME NEW S \in SUBSET (A \ {c}), s # null => s \in S,
                    \A x \in S : l[x] # null => l[x] \in S
             PROVE  S = A \ {c}
  BY DEF Spans
<1> DEFINE T == S \cup {c}
<1>1. CASE b = null \/ b \in S
  <2>1. T \in SUBSET A /\ (start # null => start \in T)
    BY <1>1
  <2>2. link[c] # null => link[c] \in S
    BY <1>1
  <2>3. ASSUME NEW x \in S, link[x] # null
        PROVE  link[x] \in T
    BY <2>3
  <2>4. \A x \in T : link[x] # null => link[x] \in T
    BY <2>2, <2>3
  <2> HIDE DEF T
  <2>5. T = A
    BY <2>1, <2>4 DEF Spans
  <2> QED
    BY <2>5 DEF T
<1>2. CASE b # null /\ b \notin S
  <2>1. S \in SUBSET A /\ (start # null => start \in S)
    BY <1>2
  <2>2. \A x \in S : link[x] # null => link[x] \in S
    BY <1>2
  <2>3. S = A
    BY <2>1, <2>2 DEF Spans
  <2> QED
    BY <2>3
<1> QED
  BY <1>1, <1>2

(* Either end leads to a node added at the tail, too.                      *)
LEMMA AppendedList ==
    ASSUME NEW null, NEW A, NEW L, NEW M, NEW o, NEW rank, Lengthens(rank, o, A, L, M, null)
    PROVE  \E r : RankedAs(r, rank, o, A, M, null)
<1>0. null \notin A /\ IsList(rank, A, L, null) /\ Appends(o, A, L, M, null)
  BY DEF Lengthens
<1> USE <1>0
<1> SUFFICES \E r : IsList(r, A \cup {o}, M, null) /\ \A x \in A : r[x] = rank[x]
  BY DEF RankedAs
<1> DEFINE h == L.head
           t == L.tail
           ln == L.next
           lp == L.prev
           mh == M.head
           mt == M.tail
           mn == M.next
           mp == M.prev
<1>1. /\ Ordered(rank, A, h, t, ln, lp, null)
      /\ Spans(h, lp, A, null) /\ Spans(t, ln, A, null)
  BY DEF IsList
<1>2. /\ o \notin A /\ o # null /\ mt = o /\ mp[o] = null /\ mn[o] = t
      /\ mh = IF h = null THEN o ELSE h
      /\ \A x \in A : mn[x] = ln[x]
      /\ \A x \in A : mp[x] = IF x = t THEN o ELSE lp[x]
  BY DEF Appends
<1> SUFFICES \E r : /\ Ordered(r, A \cup {o}, mh, mt, mn, mp, null)
                    /\ Spans(mh, mp, A \cup {o}, null) /\ Spans(mt, mn, A \cup {o}, null)
                    /\ \A x \in A : r[x] = rank[x]
  BY DEF IsList
<1> HIDE DEF h, t, ln, lp, mh, mt, mn, mp
<1>3. PICK r : Ordered(r, A \cup {o}, mh, mt, mn, mp, null) /\ \A x \in A : r[x] = rank[x]
  <2> DEFINE B == A \cup {o}
  <2>1. \A x \in A : rank[x] \in Nat
    BY <1>1 DEF Ordered
  <2>2. /\ o \notin A /\ o # null /\ mt = o /\ mp[o] = null /\ mn[o] = t
        /\ \A x \in A : /\ mn[x] = ln[x]
                        /\ mp[x] = IF x = t THEN o ELSE lp[x]
    BY <1>2
  <2>3. CASE A = {}
    <3> DEFINE r == [x \in {o} |-> 0]
    <3>1. mh = o /\ mn[o] = null /\ r[o] = 0
      BY <1>1, <1>2, <2>2, <2>3 DEF Ordered
    <3>2. Ordered(r, {o}, mh, mt, mn, mp, null)
      BY <1>1, <2>2, <3>1 DEF Ordered
    <3> QED
      BY <2>3, <3>2
  <2>4. CASE A # {}
    <3>1. mh = h /\ h \in A /\ t \in A /\ t # o /\ t # null
      BY <1>1, <1>2, <2>2, <2>4 DEF Ordered
    <3>2. mp[t] = o /\ \A x \in A : x # t => mp[x] = lp[x]
      BY <2>2, <3>1
    <3> DEFINE r == [x \in B |-> IF x = o THEN rank[t] + 1 ELSE rank[x]]
    <3>3. r[o] = rank[t] + 1 /\ \A x \in A : r[x] = rank[x]
      BY <2>2
    <3> HIDE DEF r
    <3>4. \A x \in A : r[x] < r[o] /\ r[x] \in Nat
      BY <1>1, <2>1, <2>2, <3>1, <3>3 DEF Ordered
    <3>5. \A x \in A : r[h] <= r[x] /\ r[x] <= r[t]
      BY <1>1, <2>1, <3>1, <3>3, <2>4 DEF Ordered
    <3>6. \A x \in B : r[mh] <= r[x] /\ r[x] <= r[mt]
      <4>1. h \in A /\ r[o] \in Nat
        BY <1>1, <2>1, <2>4, <2>2, <3>3 DEF Ordered
      <4> QED
        BY <4>1, <2>2, <3>1, <3>4, <3>5
    <3>7. \A x, y \in B : r[x] = r[y] => x = y
      BY <1>1, <2>1, <2>2, <3>3, <3>4 DEF Ordered
    <3>8. ASSUME NEW x \in B
          PROVE  /\ mp[x] \in B \cup {null} /\ mn[x] \in B \cup {null}
                 /\ mp[x] = null <=> x = mt
                 /\ mn[x] = null <=> x = mh
                 /\ mn[x] # null => mp[mn[x]] = x
                 /\ mp[x] # null =>
                      /\ mn[mp[x]] = x
                      /\ r[x] < r[mp[x]]
                      /\ \A y \in B : r[y] <= r[x] \/ r[mp[x]] <= r[y]
      <4>1. CASE x = o
        <5>1. mp[o] = null /\ mn[o] = t /\ mp[t] = o /\ mh # o
          BY <1>1, <2>1, <2>2, <2>4, <3>1, <3>2 DEF Ordered
        <5> QED
          BY <4>1, <5>1, <2>2, <3>1
      <4>2. CASE x = t
        <5>1. /\ mp[t] = o /\ mn[t] = ln[t] /\ mn[o] = t /\ r[t] < r[o]
              /\ \A y \in B : r[y] <= r[t] \/ r[o] <= r[y]
          BY <2>2, <3>1, <3>2, <3>3, <3>4, <3>5
        <5>2. /\ ln[t] \in A \cup {null} /\ (ln[t] = null <=> t = h)
              /\ (ln[t] # null => lp[ln[t]] = t /\ ln[t] \in A) /\ lp[t] = null
          BY <1>1, <2>1, <3>1 DEF Ordered
        <5>3. ln[t] # null => mp[ln[t]] = t
          BY <5>2, <3>1, <3>2, <2>2
        <5> QED
          BY <4>2, <5>1, <5>2, <5>3, <2>2, <3>1
      <4>3. CASE x \in A \ {t}
        <5>1. /\ mp[x] = lp[x] /\ mn[x] = ln[x] /\ lp[x] \in A
              /\ x # mt /\ lp[x] # null
          BY <1>1, <4>3, <2>1, <2>2, <3>1, <3>2 DEF Ordered
        <5>2. ln[x] # null => ln[x] # t
          <6>1. lp[t] = null /\ (ln[x] # null => lp[ln[x]] = x) /\ x # null
            BY <1>1, <4>3, <2>1, <2>2, <3>1 DEF Ordered
          <6> QED
            BY <6>1
        <5>3. \A y \in B : r[y] <= r[x] \/ r[lp[x]] <= r[y]
          BY <1>1, <4>3, <5>1, <2>1, <2>2, <3>3, <3>4 DEF Ordered
        <5>4. ln[x] # null => ln[x] \in A /\ lp[ln[x]] = x
          BY <1>1, <4>3, <2>1 DEF Ordered
        <5>5. mn[x] # null => mp[mn[x]] = x
          BY <5>1, <5>2, <5>4, <3>2, <2>2
        <5>6. mn[mp[x]] = x /\ r[x] < r[mp[x]]
          <6>1. ln[lp[x]] = x /\ rank[x] < rank[lp[x]]
            BY <1>1, <4>3, <5>1 DEF Ordered
          <6> QED
            BY <2>2, <3>3, <4>3, <5>1, <6>1
        <5>7. mn[x] \in B \cup {null} /\ (mn[x] = null <=> x = mh)
          BY <1>1, <4>3, <5>1, <2>1, <2>2, <3>1 DEF Ordered
        <5> QED
          BY <5>1, <5>3, <5>5, <5>6, <5>7, <2>2
      <4> QED
        BY <4>1, <4>2, <4>3, <2>2
    <3>9. Ordered(r, B, mh, mt, mn, mp, null)
      <4>2. \A x \in B : r[x] \in Nat
        BY <2>1, <3>1, <3>3, <3>4
      <4>1. /\ mh \in B \cup {null} /\ mt \in B \cup {null}
            /\ mh # null /\ mt # null /\ B # {}
        BY <1>1, <2>1, <2>2, <2>4, <3>1 DEF Ordered
      <4> QED
        BY <1>1, <4>1, <4>2, <3>6, <3>7, <3>8 DEF Ordered
    <3> QED
      BY <3>3, <3>9
  <2> QED
    BY <2>3, <2>4
<1>4. CASE A = {}
  <2>1. mh = o /\ mn[o] = null
    BY <1>1, <1>2, <1>4 DEF Ordered
  <2>2. Spans(o, mp, {o}, null) /\ Spans(o, mn, {o}, null)
    BY <1>2, <2>1 DEF Spans
  <2> QED
    BY <1>2, <1>3, <1>4, <2>1, <2>2
<1>5. CASE A # {}
  <2>1. /\ mh = h /\ h \in A /\ t \in A /\ t # o /\ h # o
        /\ lp[t] = null /\ mp[t] = o
        /\ \A x \in A : lp[x] \in A \cup {null} /\ ln[x] \in A \cup {null}
    BY <1>1, <1>2, <1>5 DEF Ordered
  <2>2. Spans(h, mp, A \cup {o}, null)
    BY <1>1, <1>2, <2>1, SpansAfter
  <2>3. Spans(o, mn, A \cup {o}, null)
    BY <1>1, <1>2, <2>1, SpansBefore
  <2> QED
    BY <1>2, <1>3, <2>1, <2>2, <2>3
<1> QED
  BY <1>4, <1>5

(* Either end still leads to every node that is left.                      *)
LEMMA JoinedList ==
    ASSUME NEW null, NEW A, null \notin A, NEW L, NEW M, NEW c, NEW rank,
           IsList(rank, A, L, null), Joins(c, A, L, M, null)
    PROVE  IsList(rank, A \ {c}, M, null)
<1> DEFINE h == L.head
           t == L.tail
           ln == L.next
           lp == L.prev
           mh == M.head
           mt == M.tail
           mn == M.next
           mp == M.prev
<1>1. /\ Ordered(rank, A, h, t, ln, lp, null)
      /\ Spans(h, lp, A, null) /\ Spans(t, ln, A, null)
  BY DEF IsList
<1>2. /\ c \in A
      /\ mt = IF lp[c] = null THEN ln[c] ELSE t
      /\ mh = IF ln[c] = null THEN lp[c] ELSE h
      /\ \A x \in A \ {c} : mn[x] = IF x = lp[c] THEN ln[c] ELSE ln[x]
      /\ \A x \in A \ {c} : mp[x] = IF x = ln[c] THEN lp[c] ELSE lp[x]
  BY DEF Joins
<1> SUFFICES /\ Ordered(rank, A \ {c}, mh, mt, mn, mp, null)
             /\ Spans(mh, mp, A \ {c}, null) /\ Spans(mt, mn, A \ {c}, null)
  BY DEF IsList
<1> HIDE DEF h, t, ln, lp, mh, mt, mn, mp
<1>3. Ordered(rank, A \ {c}, mh, mt, mn, mp, null)
  <2> DEFINE B == A \ {c}
             p == lp[c]
             n == ln[c]
  <2>1. /\ c \in A /\ c # null
        /\ \A x \in A : x # null /\ rank[x] \in Nat
    BY <1>1, <1>2 DEF Ordered
  <2>2. /\ mt = IF p = null THEN n ELSE t
        /\ mh = IF n = null THEN p ELSE h
        /\ \A x \in B : mn[x] = IF x = p THEN n ELSE ln[x]
        /\ \A x \in B : mp[x] = IF x = n THEN p ELSE lp[x]
    BY <1>2
  <2>3. /\ p \in A \cup {null} /\ n \in A \cup {null}
        /\ (p = null <=> c = t) /\ (n = null <=> c = h)
        /\ n # null => lp[n] = c
        /\ p # null => /\ ln[p] = c /\ rank[c] < rank[p]
                       /\ \A y \in A : rank[y] <= rank[c] \/ rank[p] <= rank[y]
    BY <1>1, <1>2 DEF Ordered
  <2>4. n # null => /\ rank[n] < rank[c]
                    /\ \A y \in A : rank[y] <= rank[n] \/ rank[c] <= rank[y]
    BY <1>1, <2>1, <2>3 DEF Ordered
  <2>5. p \in B \cup {null} /\ n \in B \cup {null}
    BY <2>1, <2>3, <2>4
  <2>6. /\ h \in A /\ t \in A
        /\ \A x \in A : rank[h] <= rank[x] /\ rank[x] <= rank[t]
        /\ \A x, y \in A : rank[x] = rank[y] => x = y
    BY <1>1, <1>2 DEF Ordered
  <2>7. ASSUME NEW x \in A, x # c
        PROVE  /\ rank[x] <= rank[c] => rank[x] < rank[c]
               /\ rank[c] <= rank[x] => rank[c] < rank[x]
    <3>1. rank[x] \in Nat /\ rank[c] \in Nat /\ rank[x] # rank[c]
      BY <2>1, <2>6, <2>7
    <3> QED
      BY <3>1
  <2> HIDE DEF p, n
  <2>8. /\ mh \in B \cup {null} /\ mt \in B \cup {null}
        /\ mh = null <=> B = {}
        /\ mt = null <=> B = {}
    <3>1. p = null /\ n = null => B = {}
      <4> SUFFICES ASSUME p = null, n = null, NEW x \in A PROVE x = c
        OBVIOUS
      <4>1. rank[c] <= rank[x] /\ rank[x] <= rank[c]
        BY <2>3, <2>6
      <4> QED
        BY <4>1, <2>1, <2>6
    <3>2. /\ mh \in B \cup {null} /\ mt \in B \cup {null}
      BY <2>2, <2>3, <2>5, <2>6
    <3>3. p # null => p \in B
      BY <2>5
    <3>4. n # null => n \in B
      BY <2>5
    <3>5. h # null /\ t # null
      BY <2>1, <2>6
    <3> QED
      BY <2>2, <3>1, <3>2, <3>3, <3>4, <3>5
  <2>9. ASSUME NEW x \in B
        PROVE  rank[mh] <= rank[x] /\ rank[x] <= rank[mt]
    <3>1. rank[mh] <= rank[x]
      <4>1. CASE n # null
        BY <4>1, <2>2, <2>6
      <4>2. CASE n = null
        <5>1. mh = p /\ c = h /\ p # null
          BY <4>2, <2>2, <2>3, <2>8
        <5>2. rank[c] < rank[x]
          <6>1. x \in A /\ x # c /\ rank[c] <= rank[x]
            BY <5>1, <2>6
          <6> QED
            BY <6>1, <2>1, <2>7
        <5>3. rank[x] <= rank[c] \/ rank[p] <= rank[x]
          BY <5>1, <2>3
        <5> QED
          BY <5>1, <5>2, <5>3, <2>1
      <4> QED
        BY <4>1, <4>2
    <3>2. rank[x] <= rank[mt]
      <4>1. CASE p # null
        BY <4>1, <2>2, <2>6
      <4>2. CASE p = null
        <5>1. mt = n /\ c = t /\ n # null
          BY <4>2, <2>2, <2>3, <2>8
        <5>2. rank[x] < rank[c]
          <6>1. x \in A /\ x # c /\ rank[x] <= rank[c]
            BY <5>1, <2>6
          <6> QED
            BY <6>1, <2>1, <2>7
        <5>3. rank[x] <= rank[n] \/ rank[c] <= rank[x]
          BY <5>1, <2>4
        <5> QED
          BY <5>1, <5>2, <5>3, <2>1
      <4> QED
        BY <4>1, <4>2
    <3> QED
      BY <3>1, <3>2
  <2>10. ASSUME NEW x \in B
         PROVE  /\ mp[x] \in B \cup {null} /\ mn[x] \in B \cup {null}
                /\ mp[x] = null <=> x = mt
                /\ mn[x] = null <=> x = mh
                /\ mn[x] # null => mp[mn[x]] = x
                /\ mp[x] # null =>
                      /\ mn[mp[x]] = x
                      /\ rank[x] < rank[mp[x]]
                      /\ \A y \in B : rank[y] <= rank[x] \/ rank[mp[x]] <= rank[y]
    <3>1. /\ lp[x] \in A \cup {null} /\ ln[x] \in A \cup {null}
          /\ (lp[x] = null <=> x = t) /\ (ln[x] = null <=> x = h)
          /\ ln[x] # null => lp[ln[x]] = x
          /\ lp[x] # null => /\ ln[lp[x]] = x /\ rank[x] < rank[lp[x]]
                               /\ \A y \in A : rank[y] <= rank[x] \/ rank[lp[x]] <= rank[y]
      BY <1>1 DEF Ordered
    <3>2. (lp[x] = c <=> x = n) /\ (ln[x] = c <=> x = p) /\ x # c /\ x # null
      BY <2>1, <2>3, <3>1 DEF n, p
    <3>3. mp[x] = (IF x = n THEN p ELSE lp[x]) /\ mn[x] = (IF x = p THEN n ELSE ln[x])
      BY <2>2
    <3>4. mp[x] \in B \cup {null} /\ mn[x] \in B \cup {null}
      BY <2>5, <3>1, <3>2, <3>3
    <3>5. (mp[x] = null <=> x = mt) /\ (mn[x] = null <=> x = mh)
      <4>1. mp[x] = null <=> x = mt
        <5>1. CASE p = null
          BY <5>1, <2>2, <2>3, <3>1, <3>2, <3>3
        <5>2. CASE p # null
          <6>1. mt = t /\ t # n
            BY <5>2, <2>2, <2>3, <2>4, <2>1, <2>6
          <6> QED
            BY <5>2, <6>1, <3>1, <3>3
        <5> QED
          BY <5>1, <5>2
      <4>2. mn[x] = null <=> x = mh
        <5>1. CASE n = null
          BY <5>1, <2>2, <2>3, <3>1, <3>2, <3>3
        <5>2. CASE n # null
          <6>1. mh = h /\ h # p
            BY <5>2, <2>2, <2>3, <2>4, <2>1, <2>6
          <6> QED
            BY <5>2, <6>1, <3>1, <3>3
        <5> QED
          BY <5>1, <5>2
      <4> QED
        BY <4>1, <4>2
    <3>6. mn[x] # null => mp[mn[x]] = x
      <4>1. CASE x = p
        BY <4>1, <2>2, <2>5, <3>2, <3>3
      <4>2. CASE x # p /\ ln[x] # null
        <5>1. ln[x] \in B /\ lp[ln[x]] = x
          BY <4>2, <3>1, <3>2
        <5>2. ln[x] # n
          BY <4>2, <5>1, <2>3, <3>2
        <5> QED
          BY <4>2, <5>1, <5>2, <2>2, <3>3
      <4> QED
        BY <4>1, <4>2, <3>3
    <3>7. mp[x] # null =>
              /\ mn[mp[x]] = x
              /\ rank[x] < rank[mp[x]]
              /\ \A y \in B : rank[y] <= rank[x] \/ rank[mp[x]] <= rank[y]
      <4>1. CASE x = n /\ p # null
        <5>1. mp[x] = p /\ mn[p] = x
          BY <4>1, <2>2, <2>5, <3>3
        <5>2. rank[x] < rank[p]
          BY <4>1, <2>1, <2>3, <2>4, <3>2
        <5>3. ASSUME NEW y \in B PROVE rank[y] <= rank[x] \/ rank[p] <= rank[y]
          <6>1. /\ rank[y] <= rank[n] \/ rank[c] <= rank[y]
                /\ rank[y] <= rank[c] \/ rank[p] <= rank[y]
            BY <4>1, <2>3, <2>4, <3>2
          <6>2. y \in A /\ y # c
            OBVIOUS
          <6>3. rank[c] <= rank[y] => rank[c] < rank[y]
            BY <6>2, <2>1, <2>7
          <6> QED
            BY <4>1, <6>1, <6>2, <6>3, <2>1
        <5> QED
          BY <5>1, <5>2, <5>3
      <4>2. CASE x # n /\ lp[x] # null
        <5>1. lp[x] \in B /\ ln[lp[x]] = x /\ mp[x] = lp[x]
          BY <4>2, <3>1, <3>2, <3>3
        <5>2. lp[x] # p
          BY <4>2, <5>1, <2>3, <3>2
        <5>3. mn[lp[x]] = x
          BY <5>1, <5>2, <2>2
        <5> QED
          BY <4>2, <5>1, <5>3, <3>1
      <4> QED
        BY <4>1, <4>2, <3>3
    <3> QED
      BY <3>4, <3>5, <3>6, <3>7
  <2>11. Ordered(rank, B, mh, mt, mn, mp, null)
    <3>1. \A x, y \in B : rank[x] = rank[y] => x = y
      BY <2>6
    <3>2. \A x \in B : rank[x] \in Nat
      BY <2>1
    <3> QED
      BY <1>1, <2>8, <2>9, <2>10, <3>1, <3>2 DEF Ordered
  <2> QED
    BY <2>11
<1>4. \A x \in A :
          /\ x # null /\ rank[x] \in Nat
          /\ lp[x] \in A \cup {null} /\ ln[x] \in A \cup {null}
          /\ (lp[x] = null <=> x = t) /\ (ln[x] = null <=> x = h)
          /\ ln[x] # null => lp[ln[x]] = x
          /\ lp[x] # null => ln[lp[x]] = x /\ rank[x] < rank[lp[x]]
  BY <1>1 DEF Ordered
<1>5. lp[c] # c /\ ln[c] # c
  <2>1. lp[c] # c
    BY <1>2, <1>4
  <2>2. ln[c] # c
    BY <1>2, <1>4, <2>1
  <2> QED
    BY <2>1, <2>2
<1>6. /\ \A x \in A : lp[x] = c <=> x = ln[c]
      /\ \A x \in A : ln[x] = c <=> x = lp[c]
  BY <1>2, <1>4
<1>7. Spans(mh, mp, A \ {c}, null)
  <2>1. Skips(A, h, lp, mh, mp, c, ln[c], null)
    BY <1>2, <1>4, <1>5, <1>6 DEF Skips
  <2> QED
    BY <1>1, <2>1, SpansWithout
<1>8. Spans(mt, mn, A \ {c}, null)
  <2>1. Skips(A, t, ln, mt, mn, c, lp[c], null)
    BY <1>2, <1>4, <1>5, <1>6 DEF Skips
  <2> QED
    BY <1>1, <2>1, SpansWithout
<1> QED
  BY <1>3, <1>7, <1>8

\* What is met from each node of a list, by rank.
Ranked(rank, A, L, N, null) ==
    \A x \in A :
        /\ Way(x, L.prev, N, null) = {y \in A : rank[x] <= rank[y]}
        /\ Way(x, L.next, N, null) = {y \in A : rank[y] <= rank[x]}
        /\ Way(L.prev[x], L.prev, N, null) = {y \in A : rank[x] < rank[y]}
        /\ Way(L.next[x], L.next, N, null) = {y \in A : rank[y] < rank[x]}

(* From a node on, exactly what ranks after it is met, either way; from    *)
(* the ends, all of the list.                                              *)
LEMMA ListWalks ==
    ASSUME NEW N, NEW null, null \notin N, NEW A \in SUBSET N, NEW L, NEW rank,
           L.prev \in [N -> N \cup {null}], L.next \in [N -> N \cup {null}],
           IsList(rank, A, L, null)
    PROVE  /\ Ranked(rank, A, L, N, null)
           /\ Way(L.head, L.prev, N, null) = A
           /\ Way(L.tail, L.next, N, null) = A
<1> DEFINE lp == L.prev
           ln == L.next
           h == L.head
           t == L.tail
           R == {p \in A \X A : rank[p[1]] <= rank[p[2]]}
           Q == {p \in A \X A : rank[p[2]] <= rank[p[1]]}
<1>1. /\ \A y \in A : rank[y] \in Nat /\ y # null
      /\ lp \in [N -> N \cup {null}] /\ ln \in [N -> N \cup {null}]
      /\ h \in A \cup {null} /\ t \in A \cup {null}
      /\ Spans(h, lp, A, null) /\ Spans(t, ln, A, null)
  BY DEF IsList, Ordered
<1>2. /\ \A y, z \in A : <<y, z>> \in R <=> rank[y] <= rank[z]
      /\ \A y, z \in A : <<y, z>> \in Q <=> rank[z] <= rank[y]
  OBVIOUS
<1>3. \A y, z \in A : rank[y] = rank[z] => y = z
  BY DEF IsList, Ordered
<1>4. \A y \in A :
          /\ lp[y] \in A \cup {null} /\ ln[y] \in A \cup {null}
          /\ rank[h] <= rank[y] /\ rank[y] <= rank[t]
          /\ (lp[y] = null <=> y = t) /\ (ln[y] = null <=> y = h)
          /\ lp[y] # null => /\ rank[y] < rank[lp[y]]
                             /\ \A z \in A : rank[z] <= rank[y] \/ rank[lp[y]] <= rank[z]
          /\ ln[y] # null => lp[ln[y]] = y
  BY DEF IsList, Ordered
<1> HIDE DEF R, Q, lp, ln, h, t
<1>5. \A y \in A : ln[y] # null =>
          /\ rank[ln[y]] < rank[y]
          /\ \A z \in A : rank[z] <= rank[ln[y]] \/ rank[y] <= rank[z]
  BY <1>1, <1>4
<1>6. /\ Way(h, lp, N, null) = A /\ Way(t, ln, N, null) = A
  <2>1. Way(h, lp, N, null) = A
    BY <1>1, <1>4, WayMeetsAll
  <2>2. Way(t, ln, N, null) = A
    BY <1>1, <1>4, WayMeetsAll
  <2> QED
    BY <2>1, <2>2
<1>7. ASSUME NEW x \in A
      PROVE  /\ h \in A /\ t \in A
             /\ Way(x, lp, N, null) = {y \in A : rank[x] <= rank[y]}
             /\ Way(x, ln, N, null) = {y \in A : rank[y] <= rank[x]}
  <2>0. h \in A /\ t \in A
    BY DEF IsList, Ordered, h, t
  <2>1. Goes(lp, A, R, null)
    <3>1. /\ \A y \in A : <<y, y>> \in R
          /\ \A y, z \in A : <<y, z>> \in R \/ <<z, y>> \in R
          /\ \A y, z \in A : <<y, z>> \in R /\ <<z, y>> \in R => y = z
          /\ \A y, z, u \in A : <<y, z>> \in R /\ <<z, u>> \in R => <<y, u>> \in R
      BY <1>1, <1>2, <1>3
    <3>2. \A y \in A :
              /\ lp[y] \in A \cup {null}
              /\ lp[y] # null =>
                     /\ <<y, lp[y]>> \in R
                     /\ \A z \in A : <<z, y>> \in R \/ <<lp[y], z>> \in R
      BY <1>1, <1>2, <1>4, <1>5
    <3> QED
      BY <3>1, <3>2 DEF Goes
  <2>2. \A y \in A : <<h, y>> \in R
    BY <1>2, <1>4, <2>0
  <2>3. Way(x, lp, N, null) = {y \in A : <<x, y>> \in R}
    BY <1>1, <2>1, <2>2, WayInOrder
  <2>4. Goes(ln, A, Q, null)
    <3>1. /\ \A y \in A : <<y, y>> \in Q
          /\ \A y, z \in A : <<y, z>> \in Q \/ <<z, y>> \in Q
          /\ \A y, z \in A : <<y, z>> \in Q /\ <<z, y>> \in Q => y = z
          /\ \A y, z, u \in A : <<y, z>> \in Q /\ <<z, u>> \in Q => <<y, u>> \in Q
      BY <1>1, <1>2, <1>3
    <3>2. \A y \in A :
              /\ ln[y] \in A \cup {null}
              /\ ln[y] # null =>
                     /\ <<y, ln[y]>> \in Q
                     /\ \A z \in A : <<z, y>> \in Q \/ <<ln[y], z>> \in Q
      BY <1>1, <1>2, <1>4, <1>5
    <3> QED
      BY <3>1, <3>2 DEF Goes
  <2>5. \A y \in A : <<t, y>> \in Q
    BY <1>2, <1>4, <2>0
  <2>6. Way(x, ln, N, null) = {y \in A : <<x, y>> \in Q}
    BY <1>1, <2>4, <2>5, WayInOrder
  <2> QED
    BY <1>2, <2>0, <2>3, <2>6
<1>8. ASSUME NEW x \in A
      PROVE  Way(lp[x], lp, N, null) = {y \in A : rank[x] < rank[y]}
  <2>1. CASE lp[x] = null
    <3>1. x = t /\ Way(lp[x], lp, N, null) = {}
      BY <1>1, <1>4, <2>1, WayFromNowhere
    <3>2. \A y \in A : ~(rank[x] < rank[y])
      BY <1>1, <1>4, <3>1
    <3> QED
      BY <3>1, <3>2
  <2>2. CASE lp[x] # null
    <3> DEFINE p == lp[x]
    <3>1. p \in A /\ rank[x] < rank[p]
          /\ \A z \in A : rank[z] <= rank[x] \/ rank[p] <= rank[z]
      BY <1>4, <2>2
    <3> HIDE DEF p
    <3>2. Way(p, lp, N, null) = {y \in A : rank[p] <= rank[y]}
      BY <1>7, <3>1
    <3>3. \A y \in A : rank[p] <= rank[y] <=> rank[x] < rank[y]
      BY <1>1, <3>1
    <3> QED
      BY <3>2, <3>3 DEF p
  <2> QED
    BY <2>1, <2>2
<1>9. ASSUME NEW x \in A
      PROVE  Way(ln[x], ln, N, null) = {y \in A : rank[y] < rank[x]}
  <2>1. CASE ln[x] = null
    <3>1. x = h /\ Way(ln[x], ln, N, null) = {}
      BY <1>1, <1>4, <2>1, WayFromNowhere
    <3>2. \A y \in A : ~(rank[y] < rank[x])
      BY <1>1, <1>4, <3>1
    <3> QED
      BY <3>1, <3>2
  <2>2. CASE ln[x] # null
    <3> DEFINE n == ln[x]
    <3>1. n \in A /\ rank[n] < rank[x]
          /\ \A z \in A : rank[z] <= rank[n] \/ rank[x] <= rank[z]
      BY <1>4, <1>5, <2>2
    <3> HIDE DEF n
    <3>2. Way(n, ln, N, null) = {y \in A : rank[y] <= rank[n]}
      BY <1>7, <3>1
    <3>3. \A y \in A : rank[y] <= rank[n] <=> rank[y] < rank[x]
      BY <1>1, <3>1
    <3> QED
      BY <3>2, <3>3 DEF n
  <2> QED
    BY <2>1, <2>2
<1>10. Ranked(rank, A, L, N, null)
  BY <1>7, <1>8, <1>9 DEF Ranked, lp, ln
<1> QED
  BY <1>6, <1>10 DEF lp, ln, h, t

(* A walk meets its start and what is met from the next node.              *)
LEMMA WayStep ==
    ASSUME NEW N, NEW null, null \notin N, NEW link \in [N -> N \cup {null}], NEW x \in N
    PROVE  Way(x, link, N, null) = {x} \cup Way(link[x], link, N, null)
<1> DEFINE W == Way(x, link, N, null)
           V == Way(link[x], link, N, null)
           S == {x} \cup V
           T == {y \in N : y \in W}
<1>1. /\ W \subseteq N /\ x \in W
      /\ \A y \in W : link[y] # null => link[y] \in W
      /\ \A U \in SUBSET N :
             (x \in U /\ \A y \in U : link[y] # null => link[y] \in U) => W \subseteq U
  BY WayFacts
<1>2. /\ V \subseteq N /\ (link[x] # null => link[x] \in V)
      /\ \A y \in V : link[y] # null => link[y] \in V
      /\ \A U \in SUBSET N :
             ((link[x] # null => link[x] \in U) /\ \A y \in U : link[y] # null => link[y] \in U)
                 => V \subseteq U
  <2>1. link[x] \in N \cup {null}
    OBVIOUS
  <2> QED
    BY <2>1, WayFacts
<1> HIDE DEF W, V
<1>3. W \subseteq S
  <2>1. S \in SUBSET N /\ x \in S
    BY <1>2
  <2>2. \A y \in S : link[y] # null => link[y] \in S
    BY <1>2
  <2> HIDE DEF S
  <2> QED
    BY <1>1, <2>1, <2>2
<1>4. V \subseteq W
  <2>1. W \in SUBSET N /\ (link[x] # null => link[x] \in W)
    BY <1>1
  <2> QED
    BY <1>1, <1>2, <2>1
<1> QED
  BY <1>1, <1>3, <1>4 DEF W, V
=============================================================================
