-------------------------- MODULE SlabAlloc_proof --------------------------
(***************************************************************************)
(* The slab allocator hands out no chunk twice, loses at most the first    *)
(* chunk of each slab, and keeps the promise of Allocator, for every slab  *)
(* size and every number of slabs.                                         *)
(***************************************************************************)
EXTENDS SlabAlloc, FiniteSetTheorems, TLAPS

IInv ==
    /\ TypeOK
    /\ Len(slabs) <= MaxSlabs
    /\ NoOverlap
    /\ LosesFirstOnly

\* What IInv says of one slab on its own.
SlabOK(slab) ==
    /\ slab \in Slab
    /\ Len(slab.free_list) <= SLAB_SIZE
    /\ IsInjective(slab.free_list)
    /\ \A i \in FreeIndices(slab) : i <= slab.chunk_head
-----------------------------------------------------------------------------
LEMMA FrontFacts ==
    ASSUME NEW S, NEW q \in Seq(S), q # <<>>
    PROVE  /\ Front(q) \in Seq(S)
           /\ Len(Front(q)) = Len(q) - 1
           /\ DOMAIN Front(q) = 1 .. Len(q) - 1
           /\ \A j \in 1 .. Len(q) - 1 : Front(q)[j] = q[j]
  BY DEF Front

(* How many numbers there are from a to b.                                 *)
LEMMA IntervalSize ==
    ASSUME NEW a \in Int, NEW b \in Int, a <= b + 1
    PROVE  IsFiniteSet(a .. b) /\ Cardinality(a .. b) = b - a + 1
<1>1. /\ IsFiniteSet(a .. b)
      /\ Cardinality(a .. b) = IF a > b THEN 0 ELSE b - a + 1
  BY FS_Interval
<1> DEFINE c == Cardinality(a .. b)
<1>2. c = IF a > b THEN 0 ELSE b - a + 1
  BY <1>1
<1> HIDE DEF c
<1>3. c = b - a + 1
  BY <1>2
<1> QED
  BY <1>1, <1>3 DEF c

(* next_chunk takes a free index, or the next fresh one, and no other      *)
(* index of the slab changes hands.                                        *)
LEMMA NextChunk ==
    ASSUME NEW slab, SlabOK(slab), HasChunk(slab)
    PROVE  /\ NextIndex(slab) \in Indices
           /\ SlabOK(NextSlab(slab))
           /\ FreeIndices(NextSlab(slab)) = FreeIndices(slab) \ {NextIndex(slab)}
           /\ slab.chunk_head <= NextSlab(slab).chunk_head
           /\ NextIndex(slab) <= NextSlab(slab).chunk_head
           /\ NextIndex(slab) \in FreeIndices(slab) \/ NextIndex(slab) > slab.chunk_head
           /\ \A j \in Indices : j <= NextSlab(slab).chunk_head =>
                  j <= slab.chunk_head \/ j = NextIndex(slab)
<1> DEFINE fl == slab.free_list
           h == slab.chunk_head
<1>1. /\ fl \in Seq(Indices) /\ h \in -1 .. SLAB_SIZE - 1
      /\ slab = [chunk_head |-> h, free_list |-> fl]
      /\ SLAB_SIZE \in Nat \ {0}
  BY SlabAssumption DEF SlabOK, Slab
<1>2. CASE fl # <<>>
  <2> DEFINE n == Len(fl)
             front == Front(fl)
             new == NextSlab(slab)
  <2>1. n \in Nat \ {0} /\ DOMAIN fl = 1 .. n /\ n <= SLAB_SIZE
    BY <1>1, <1>2 DEF SlabOK
  <2>2. /\ front \in Seq(Indices) /\ Len(front) = n - 1
        /\ DOMAIN front = 1 .. n - 1
        /\ \A j \in 1 .. n - 1 : front[j] = fl[j]
    BY <1>1, <1>2, FrontFacts
  <2>3. NextIndex(slab) = fl[n] /\ fl[n] \in FreeIndices(slab) /\ fl[n] \in Indices
    BY <1>1, <1>2, <2>1 DEF NextIndex, Last, FreeIndices
  <2>4. new = [chunk_head |-> h, free_list |-> front]
    BY <1>1, <1>2 DEF NextSlab
  <2>5. new \in Slab /\ new.chunk_head = h /\ new.free_list = front
    BY <1>1, <2>2, <2>4 DEF Slab
  <2>6. IsInjective(front)
    BY <2>1, <2>2 DEF SlabOK, IsInjective
  <2>7. FreeIndices(new) = FreeIndices(slab) \ {fl[n]}
    <3>1. FreeIndices(new) = {fl[j] : j \in 1 .. n - 1}
      BY <2>2, <2>5 DEF FreeIndices
    <3>2. FreeIndices(slab) = {fl[j] : j \in 1 .. n}
      BY <2>1 DEF FreeIndices
    <3>3. \A j \in 1 .. n : fl[j] = fl[n] <=> j = n
      BY <2>1 DEF SlabOK, IsInjective
    <3>4. \A j : j \in 1 .. n - 1 <=> j \in 1 .. n /\ j # n
      BY <2>1
    <3> HIDE DEF n, fl
    <3> QED
      BY <3>1, <3>2, <3>3, <3>4
  <2>8. SlabOK(new)
    <3>1. Len(new.free_list) <= SLAB_SIZE
      BY <1>1, <2>1, <2>2, <2>5
    <3>2. \A i \in FreeIndices(new) : i <= new.chunk_head
      BY <2>5, <2>7 DEF SlabOK
    <3>3. IsInjective(new.free_list)
      BY <2>5, <2>6
    <3> HIDE DEF new
    <3> QED
      BY <2>5, <3>1, <3>2, <3>3 DEF SlabOK
  <2>9. fl[n] <= h
    BY <2>3 DEF SlabOK
  <2> QED
    BY <1>1, <2>3, <2>5, <2>7, <2>8, <2>9
<1>3. CASE fl = <<>>
  <2> DEFINE new == NextSlab(slab)
  <2>1. h + 1 \in Indices /\ NextIndex(slab) = h + 1
    BY <1>1, <1>3 DEF HasChunk, NextIndex, Indices
  <2>2. new = [chunk_head |-> h + 1, free_list |-> fl]
    BY <1>1, <1>3 DEF NextSlab
  <2>3. new \in Slab /\ new.chunk_head = h + 1 /\ new.free_list = fl
    BY <1>1, <2>1, <2>2 DEF Slab, Indices
  <2>4. FreeIndices(slab) = {} /\ FreeIndices(new) = {}
    BY <1>3, <2>3 DEF FreeIndices
  <2>5. SlabOK(new)
    BY <2>3, <2>4 DEF SlabOK
  <2> QED
    BY <1>1, <2>1, <2>3, <2>4, <2>5 DEF Indices
<1> QED
  BY <1>2, <1>3

(* release_chunk never finds the free list full, and saves every index     *)
(* but 0.                                                                  *)
LEMMA ReleaseChunk ==
    ASSUME NEW slab, SlabOK(slab), NEW i \in Indices, i <= slab.chunk_head,
           i \notin FreeIndices(slab)
    PROVE  /\ SlabOK(Freed(slab, i))
           /\ Freed(slab, i).chunk_head = slab.chunk_head
           /\ FreeIndices(slab) \subseteq FreeIndices(Freed(slab, i))
           /\ FreeIndices(Freed(slab, i)) \subseteq FreeIndices(slab) \cup {i}
           /\ i > 0 => i \in FreeIndices(Freed(slab, i))
<1> DEFINE fl == slab.free_list
           h == slab.chunk_head
           n == Len(fl)
<1>1. /\ fl \in Seq(Indices) /\ h \in -1 .. SLAB_SIZE - 1
      /\ slab = [chunk_head |-> h, free_list |-> fl]
      /\ SLAB_SIZE \in Nat \ {0} /\ n \in Nat /\ DOMAIN fl = 1 .. n
      /\ i < SLAB_SIZE /\ i \in Nat
  BY SlabAssumption DEF SlabOK, Slab, Indices
<1>2. n <= SLAB_SIZE - 1
  <2> DEFINE I == Indices \ {i}
  <2>1. IsFiniteSet(Indices) /\ Cardinality(Indices) = SLAB_SIZE
    <3>1. SLAB_SIZE - 1 \in Int /\ 0 <= (SLAB_SIZE - 1) + 1
          /\ SLAB_SIZE - 1 - 0 + 1 = SLAB_SIZE
      BY <1>1
    <3>2. /\ IsFiniteSet(0 .. SLAB_SIZE - 1)
          /\ Cardinality(0 .. SLAB_SIZE - 1) = SLAB_SIZE - 1 - 0 + 1
      BY <3>1, IntervalSize
    <3> QED
      BY <3>1, <3>2, Zenon DEF Indices
  <2>2. IsFiniteSet(I) /\ Cardinality(I) = SLAB_SIZE - 1
    BY <2>1, FS_RemoveElement
  <2>3. IsFiniteSet(1 .. n) /\ Cardinality(1 .. n) = n
    <3> HIDE DEF n
    <3>1. n \in Int /\ 1 <= n + 1 /\ n - 1 + 1 = n
      BY <1>1
    <3>2. IsFiniteSet(1 .. n) /\ Cardinality(1 .. n) = n - 1 + 1
      BY <3>1, IntervalSize
    <3> QED
      BY <3>1, <3>2, Zenon
  <2>4. fl \in [1 .. n -> I] /\ \A a, b \in 1 .. n : fl[a] = fl[b] => a = b
    BY <1>1 DEF FreeIndices, SlabOK, IsInjective
  <2>5. Cardinality(1 .. n) <= Cardinality(I)
    BY <2>2, <2>3, <2>4, FS_Injection DEF Injection, IsInjective
  <2> QED
    BY <2>2, <2>3, <2>5
<1>3. CASE i = 0
  <2>1. Freed(slab, i) = slab
    BY <1>3 DEF Freed
  <2> QED
    BY <1>3, <2>1
<1>4. CASE i # 0
  <2> DEFINE new == Freed(slab, i)
             fl2 == Append(fl, i)
  <2>1. new = [chunk_head |-> h, free_list |-> fl2]
    BY <1>1, <1>2, <1>4 DEF Freed
  <2>2. /\ fl2 \in Seq(Indices) /\ Len(fl2) = n + 1 /\ DOMAIN fl2 = 1 .. n + 1
        /\ fl2[n + 1] = i /\ \A j \in 1 .. n : fl2[j] = fl[j]
    BY <1>1
  <2>3. new \in Slab /\ new.chunk_head = h /\ new.free_list = fl2
    BY <1>1, <2>1, <2>2 DEF Slab
  <2>4. FreeIndices(new) = FreeIndices(slab) \cup {i}
    <3>1. FreeIndices(new) = {fl2[j] : j \in 1 .. n + 1}
      BY <2>2, <2>3 DEF FreeIndices
    <3>2. FreeIndices(slab) = {fl[j] : j \in 1 .. n}
      BY <1>1 DEF FreeIndices
    <3>3. \A j : j \in 1 .. n + 1 <=> j \in 1 .. n \/ j = n + 1
      BY <1>1
    <3> HIDE DEF n, fl, fl2, new
    <3> QED
      BY <2>2, <3>1, <3>2, <3>3
  <2>5. IsInjective(fl2)
    BY <1>1, <2>2 DEF SlabOK, IsInjective, FreeIndices
  <2>6. SlabOK(new)
    BY <1>1, <1>2, <2>2, <2>3, <2>4, <2>5 DEF SlabOK
  <2> QED
    BY <2>3, <2>4, <2>6
<1> QED
  BY <1>3, <1>4
-----------------------------------------------------------------------------
(* The slabs of a state, one at a time.                                    *)
LEMMA SlabFacts ==
    ASSUME IInv
    PROVE  /\ DOMAIN slabs = 1 .. Len(slabs) /\ Len(slabs) \in Nat \ {0}
           /\ \A s \in DOMAIN slabs : SlabOK(slabs[s]) /\ s \in 1 .. MaxSlabs
           /\ MaxSlabs \in Nat
<1>1. /\ slabs \in Seq(Slab) /\ num_slabs \in Nat /\ Len(slabs) \in 1 .. num_slabs
      /\ Len(slabs) <= MaxSlabs /\ MaxSlabs \in Nat
  BY SlabAssumption DEF IInv, TypeOK
<1>2. DOMAIN slabs = 1 .. Len(slabs) /\ Len(slabs) \in Nat \ {0}
  BY <1>1
<1>3. ASSUME NEW s \in DOMAIN slabs
      PROVE  SlabOK(slabs[s]) /\ s \in 1 .. MaxSlabs
  <2>1. slabs[s] \in Slab
    BY <1>1, <1>2
  <2>2. s \in 1 .. MaxSlabs
    BY <1>1, <1>2
  <2>3. /\ Len(slabs[s].free_list) <= SLAB_SIZE
        /\ IsInjective(slabs[s].free_list)
        /\ \A i \in FreeIndices(slabs[s]) : i <= slabs[s].chunk_head
    BY DEF IInv, TypeOK, NoOverlap
  <2> QED
    BY <2>1, <2>2, <2>3 DEF SlabOK
<1> QED
  BY <1>1, <1>2, <1>3

(* AllocateFrom hands out a chunk nobody has.                              *)
LEMMA AllocateStep ==
    ASSUME IInv, NEW s \in DOMAIN slabs, AllocateFrom(s)
    PROVE  /\ IInv'
           /\ <<s, NextIndex(slabs[s])>> \in Chunks \ live
<1> DEFINE i == NextIndex(slabs[s])
           new == NextSlab(slabs[s])
           c == <<s, i>>
<1>1. /\ HasChunk(slabs[s]) /\ SlabOK(slabs[s])
      /\ slabs' = [slabs EXCEPT ![s] = new]
      /\ live' = live \cup {c} /\ dirty' = dirty \ {c} /\ num_slabs' = num_slabs
  BY SlabFacts DEF AllocateFrom, Cleared
<1>2. /\ i \in Indices /\ SlabOK(new)
      /\ FreeIndices(new) = FreeIndices(slabs[s]) \ {i}
      /\ slabs[s].chunk_head <= new.chunk_head
      /\ i <= new.chunk_head
      /\ i \in FreeIndices(slabs[s]) \/ i > slabs[s].chunk_head
      /\ \A j \in Indices : j <= new.chunk_head => j <= slabs[s].chunk_head \/ j = i
  BY <1>1, NextChunk
<1>3. i \in Int /\ slabs[s].chunk_head \in Int /\ new.chunk_head \in Int
      /\ new \in Slab
  BY <1>1, <1>2 DEF SlabOK, Slab, Indices
<1>4. c \in Chunks \ live
  <2>1. c \in Chunks
    BY <1>2, SlabFacts DEF Chunks
  <2>2. c \notin live
    BY <1>2, <1>3 DEF IInv, NoOverlap
  <2> QED
    BY <2>1, <2>2
<1> HIDE DEF i, new
<1>5. /\ slabs' \in Seq(Slab) /\ Len(slabs') = Len(slabs)
      /\ DOMAIN slabs' = DOMAIN slabs
      /\ slabs'[s] = new /\ \A t \in DOMAIN slabs : t # s => slabs'[t] = slabs[t]
  BY <1>1, <1>3 DEF IInv, TypeOK
<1>6. TypeOK'
  BY <1>1, <1>2, <1>4, <1>5 DEF IInv, TypeOK, SlabOK
<1>7. NoOverlap'
  <2>1. ASSUME NEW t \in DOMAIN slabs
        PROVE  /\ IsInjective(slabs'[t].free_list)
               /\ \A j \in FreeIndices(slabs'[t]) :
                     j <= slabs'[t].chunk_head /\ <<t, j>> \notin live'
    <3>1. CASE t = s
      <4>1. ASSUME NEW j \in FreeIndices(new)
            PROVE  j <= new.chunk_head /\ <<s, j>> \notin live'
        <5>1. j <= new.chunk_head
          BY <1>2 DEF SlabOK
        <5>2. j \in FreeIndices(slabs[s]) /\ j # i
          BY <1>2
        <5>3. <<s, j>> \notin live /\ <<s, j>> # c
          BY <5>2 DEF IInv, NoOverlap
        <5> QED
          BY <1>1, <5>1, <5>3
      <4> QED
        BY <3>1, <4>1, <1>2, <1>5 DEF SlabOK
    <3>2. CASE t # s
      <4>1. slabs'[t] = slabs[t]
        BY <3>2, <1>5
      <4>2. \A j : <<t, j>> # c
        BY <3>2
      <4> QED
        BY <4>1, <4>2, <1>1 DEF IInv, NoOverlap
    <3> QED
      BY <3>1, <3>2
  <2>2. ASSUME NEW d \in live'
        PROVE  d[1] \in DOMAIN slabs' /\ d[2] <= slabs'[d[1]].chunk_head
    <3>1. CASE d = c
      BY <3>1, <1>2, <1>5
    <3>2. CASE d \in live
      <4>1. d[1] \in DOMAIN slabs /\ d[2] <= slabs[d[1]].chunk_head /\ d[2] \in Int
        BY <3>2 DEF IInv, NoOverlap, TypeOK, Chunks, Indices
      <4>2. CASE d[1] = s
        BY <4>1, <4>2, <1>2, <1>3, <1>5
      <4>3. CASE d[1] # s
        BY <4>1, <4>3, <1>5
      <4> QED
        BY <4>2, <4>3
    <3> QED
      BY <3>1, <3>2, <1>1
  <2> QED
    BY <2>1, <2>2, <1>5 DEF NoOverlap
<1>8. LosesFirstOnly'
  <2>1. ASSUME NEW t \in DOMAIN slabs, NEW j \in 1 .. slabs'[t].chunk_head
        PROVE  <<t, j>> \in live' \/ j \in FreeIndices(slabs'[t])
    <3>1. CASE t # s
      BY <3>1, <1>1, <1>5 DEF IInv, LosesFirstOnly
    <3>2. CASE t = s /\ j = i
      BY <3>2, <1>1
    <3>3. CASE t = s /\ j # i
      <4>1. j \in Indices /\ j <= new.chunk_head /\ 1 <= j
        BY <3>3, <1>3, <1>5, SlabAssumption DEF Slab, Indices
      <4>2. j \in 1 .. slabs[s].chunk_head
        BY <3>3, <4>1, <1>2, <1>3 DEF Indices
      <4>3. <<s, j>> \in live \/ j \in FreeIndices(slabs[s])
        BY <4>2 DEF IInv, LosesFirstOnly
      <4> QED
        BY <4>3, <3>3, <1>1, <1>2, <1>5
    <3> QED
      BY <3>1, <3>2, <3>3
  <2> QED
    BY <2>1, <1>5 DEF LosesFirstOnly
<1> QED
  BY <1>4, <1>5, <1>6, <1>7, <1>8 DEF IInv, i

(* A new slab's first chunk is nobody's: its slab did not exist.           *)
LEMMA NewSlabStep ==
    ASSUME IInv, AllocateNewSlab
    PROVE  /\ IInv'
           /\ <<Len(slabs) + 1, NextIndex(EmptySlab)>> \in Chunks \ live
<1> DEFINE n == Len(slabs)
           new == NextSlab(EmptySlab)
           c == <<n + 1, 0>>
<1>1. /\ SLAB_SIZE \in Nat \ {0} /\ 0 \in Indices
      /\ NextIndex(EmptySlab) = 0
      /\ new = [chunk_head |-> 0, free_list |-> <<>>]
  BY SlabAssumption DEF Indices, NextIndex, NextSlab, EmptySlab
<1>2. /\ new \in Slab /\ new.chunk_head = 0 /\ new.free_list = <<>>
      /\ FreeIndices(new) = {} /\ IsInjective(new.free_list)
  BY <1>1 DEF Slab, Indices, FreeIndices, IsInjective
<1>3. /\ n < MaxSlabs
      /\ num_slabs' = IF n = num_slabs THEN num_slabs * 2 ELSE num_slabs
      /\ slabs' = Append(slabs, new)
      /\ live' = live \cup {c} /\ dirty' = dirty \ {c}
  BY <1>1 DEF AllocateNewSlab, Cleared, GrownArray
<1> HIDE DEF new
<1>4. /\ slabs \in Seq(Slab) /\ num_slabs \in Nat /\ n \in Nat
      /\ 1 <= n /\ n <= num_slabs /\ n = Len(slabs)
      /\ MaxSlabs \in Nat /\ DOMAIN slabs = 1 .. n
  BY SlabFacts DEF IInv, TypeOK
<1>5. /\ slabs' \in Seq(Slab) /\ Len(slabs') = Len(slabs) + 1
      /\ DOMAIN slabs' = 1 .. Len(slabs) + 1
      /\ slabs'[Len(slabs) + 1] = new /\ \A t \in 1 .. Len(slabs) : slabs'[t] = slabs[t]
  <2>1. slabs \in Seq(Slab) /\ new \in Slab /\ slabs' = Append(slabs, new)
    BY <1>2, <1>3, <1>4
  <2> HIDE DEF n
  <2> QED
    BY <2>1
<1> HIDE DEF n
<1>6. /\ slabs' \in Seq(Slab) /\ Len(slabs') = n + 1 /\ DOMAIN slabs' = 1 .. n + 1
      /\ slabs'[n + 1] = new /\ \A t \in 1 .. n : slabs'[t] = slabs[t]
  BY <1>4, <1>5
<1>7. num_slabs' \in Nat /\ n + 1 <= num_slabs'
  BY <1>3, <1>4
<1>8. c \in Chunks \ live
  <2>1. c \in Chunks
    <3>1. n + 1 \in 1 .. MaxSlabs
      BY <1>3, <1>4
    <3> QED
      BY <3>1, <1>1 DEF Chunks
  <2>2. n + 1 \notin DOMAIN slabs /\ c[1] = n + 1
    BY <1>4
  <2> QED
    BY <2>1, <2>2 DEF IInv, NoOverlap
<1>9. TypeOK'
  <2>1. \A s \in DOMAIN slabs' : Len(slabs'[s].free_list) <= SLAB_SIZE
    <3>1. SUFFICES ASSUME NEW s \in DOMAIN slabs'
                   PROVE  Len(slabs'[s].free_list) <= SLAB_SIZE
      OBVIOUS
    <3>2. CASE s = n + 1
      BY <3>2, <1>1, <1>2, <1>6
    <3>3. CASE s # n + 1
      <4>1. s \in DOMAIN slabs
        BY <3>3, <1>4, <1>6
      <4> QED
        BY <4>1, <1>4, <1>6 DEF IInv, TypeOK
    <3> QED
      BY <3>2, <3>3
  <2>2. Len(slabs') \in 1 .. num_slabs'
    BY <1>4, <1>6, <1>7
  <2>3. live' \subseteq Chunks /\ dirty' \subseteq Chunks
    BY <1>3, <1>8 DEF IInv, TypeOK
  <2> QED
    BY <2>1, <2>2, <2>3, <1>6, <1>7 DEF TypeOK
<1>10. NoOverlap'
  <2>1. ASSUME NEW t \in DOMAIN slabs'
        PROVE  /\ IsInjective(slabs'[t].free_list)
               /\ \A j \in FreeIndices(slabs'[t]) :
                     j <= slabs'[t].chunk_head /\ <<t, j>> \notin live'
    <3>1. CASE t = n + 1
      BY <3>1, <1>2, <1>6
    <3>2. CASE t # n + 1
      <4>1. t \in DOMAIN slabs /\ slabs'[t] = slabs[t]
        BY <3>2, <1>4, <1>6
      <4>2. \A j : <<t, j>> # c
        BY <3>2
      <4> QED
        BY <4>1, <4>2, <1>3 DEF IInv, NoOverlap
    <3> QED
      BY <3>1, <3>2
  <2>2. ASSUME NEW d \in live'
        PROVE  d[1] \in DOMAIN slabs' /\ d[2] <= slabs'[d[1]].chunk_head
    <3>1. CASE d = c
      BY <3>1, <1>2, <1>4, <1>6
    <3>2. CASE d \in live
      <4>1. d[1] \in DOMAIN slabs /\ d[2] <= slabs[d[1]].chunk_head
        BY <3>2 DEF IInv, NoOverlap
      <4> QED
        BY <4>1, <1>4, <1>6
    <3> QED
      BY <3>1, <3>2, <1>3
  <2> QED
    BY <2>1, <2>2 DEF NoOverlap
<1>11. LosesFirstOnly'
  <2>1. ASSUME NEW t \in DOMAIN slabs', NEW j \in 1 .. slabs'[t].chunk_head
        PROVE  <<t, j>> \in live' \/ j \in FreeIndices(slabs'[t])
    <3>1. t # n + 1
      BY <1>2, <1>6
    <3>2. t \in DOMAIN slabs /\ slabs'[t] = slabs[t]
      BY <3>1, <1>4, <1>6
    <3> QED
      BY <3>2, <1>3 DEF IInv, LosesFirstOnly
  <2> QED
    BY <2>1 DEF LosesFirstOnly
<1>12. Len(slabs') <= MaxSlabs
  BY <1>3, <1>4, <1>6
<1> QED
  BY <1>1, <1>8, <1>9, <1>10, <1>11, <1>12 DEF IInv, n

(* A release puts the chunk on the free list of its slab, or loses it if   *)
(* it is the slab's first.                                                 *)
LEMMA ReleaseStep ==
    ASSUME IInv, NEW c \in live, AllocSlab_release(c)
    PROVE  IInv'
<1> DEFINE s == c[1]
           i == c[2]
           new == Freed(slabs[s], i)
<1>1. /\ live' = live \ {c} /\ slabs' = [slabs EXCEPT ![s] = new]
      /\ num_slabs' = num_slabs /\ dirty' = dirty
  BY DEF AllocSlab_release
<1>2. /\ c = <<s, i>> /\ i \in Indices /\ i \in Int /\ s \in DOMAIN slabs
      /\ i <= slabs[s].chunk_head
  <2>1. c \in Chunks
    BY DEF IInv, TypeOK
  <2> QED
    BY <2>1, SlabAssumption DEF IInv, NoOverlap, Chunks, Indices
<1>3. SlabOK(slabs[s]) /\ i \notin FreeIndices(slabs[s])
  BY <1>2, SlabFacts DEF IInv, NoOverlap
<1>4. /\ SlabOK(new) /\ new.chunk_head = slabs[s].chunk_head
      /\ FreeIndices(slabs[s]) \subseteq FreeIndices(new)
      /\ FreeIndices(new) \subseteq FreeIndices(slabs[s]) \cup {i}
      /\ i > 0 => i \in FreeIndices(new)
  BY <1>2, <1>3, ReleaseChunk
<1> HIDE DEF s, i, new
<1>5. /\ slabs' \in Seq(Slab) /\ Len(slabs') = Len(slabs)
      /\ DOMAIN slabs' = DOMAIN slabs
      /\ slabs'[s] = new /\ \A t \in DOMAIN slabs : t # s => slabs'[t] = slabs[t]
  BY <1>1, <1>2, <1>4 DEF IInv, TypeOK, SlabOK
<1>6. TypeOK'
  <2>1. \A t \in DOMAIN slabs' : Len(slabs'[t].free_list) <= SLAB_SIZE
    BY <1>4, <1>5 DEF IInv, TypeOK, SlabOK
  <2> QED
    BY <2>1, <1>1, <1>5 DEF IInv, TypeOK
<1>7. NoOverlap'
  <2>1. ASSUME NEW t \in DOMAIN slabs
        PROVE  /\ IsInjective(slabs'[t].free_list)
               /\ \A j \in FreeIndices(slabs'[t]) :
                     j <= slabs'[t].chunk_head /\ <<t, j>> \notin live'
    <3>1. CASE t = s
      <4>1. \A j \in FreeIndices(new) : <<s, j>> \notin live'
        BY <1>1, <1>2, <1>4 DEF IInv, NoOverlap
      <4> QED
        BY <3>1, <4>1, <1>4, <1>5 DEF SlabOK
    <3>2. CASE t # s
      BY <3>2, <1>1, <1>5 DEF IInv, NoOverlap
    <3> QED
      BY <3>1, <3>2
  <2>2. ASSUME NEW d \in live'
        PROVE  d[1] \in DOMAIN slabs' /\ d[2] <= slabs'[d[1]].chunk_head
    <3>1. d[1] \in DOMAIN slabs /\ d[2] <= slabs[d[1]].chunk_head
      BY <1>1 DEF IInv, NoOverlap
    <3> QED
      BY <3>1, <1>4, <1>5
  <2> QED
    BY <2>1, <2>2, <1>5 DEF NoOverlap
<1>8. LosesFirstOnly'
  <2>1. ASSUME NEW t \in DOMAIN slabs, NEW j \in 1 .. slabs'[t].chunk_head
        PROVE  <<t, j>> \in live' \/ j \in FreeIndices(slabs'[t])
    <3>1. CASE t # s
      BY <3>1, <1>1, <1>2, <1>5 DEF IInv, LosesFirstOnly
    <3>2. CASE t = s /\ j = i
      BY <3>2, <1>2, <1>4, <1>5
    <3>3. CASE t = s /\ j # i
      <4>1. <<s, j>> \in live \/ j \in FreeIndices(slabs[s])
        BY <3>3, <1>4, <1>5 DEF IInv, LosesFirstOnly
      <4> QED
        BY <4>1, <3>3, <1>1, <1>2, <1>4, <1>5
    <3> QED
      BY <3>1, <3>2, <3>3
  <2> QED
    BY <2>1, <1>5 DEF LosesFirstOnly
<1> QED
  BY <1>5, <1>6, <1>7, <1>8 DEF IInv

LEMMA WriteStep ==
    ASSUME IInv, NEW c \in live, Write(c)
    PROVE  IInv'
<1>1. /\ dirty' = dirty \cup {c} /\ slabs' = slabs /\ num_slabs' = num_slabs
      /\ live' = live
  BY DEF Write
<1>2. TypeOK' /\ Len(slabs') <= MaxSlabs
  BY <1>1 DEF IInv, TypeOK
<1>3. NoOverlap' /\ LosesFirstOnly'
  BY <1>1 DEF IInv, NoOverlap, LosesFirstOnly
<1> QED
  BY <1>2, <1>3 DEF IInv

LEMMA InitIInv == Init => IInv
<1> SUFFICES ASSUME Init PROVE IInv
  OBVIOUS
<1>1. EmptySlab \in Slab /\ FreeIndices(EmptySlab) = {} /\ IsInjective(EmptySlab.free_list)
      /\ EmptySlab.free_list = <<>> /\ EmptySlab.chunk_head = -1
  BY SlabAssumption DEF EmptySlab, Slab, FreeIndices, IsInjective, Indices
<1>2. /\ slabs = <<EmptySlab>> /\ num_slabs = INITIAL_NUM_SLABS /\ live = {}
      /\ dirty = Chunks
  BY DEF Init
<1> HIDE DEF EmptySlab
<1>3. slabs \in Seq(Slab) /\ Len(slabs) = 1 /\ DOMAIN slabs = {1} /\ slabs[1] = EmptySlab
  BY <1>1, <1>2
<1>4. TypeOK /\ Len(slabs) <= MaxSlabs
  BY <1>1, <1>2, <1>3, SlabAssumption DEF TypeOK
<1>5. NoOverlap
  BY <1>1, <1>2, <1>3 DEF NoOverlap
<1>6. LosesFirstOnly
  BY <1>1, <1>3 DEF LosesFirstOnly
<1> QED
  BY <1>4, <1>5, <1>6 DEF IInv

LEMMA NextIInv == IInv /\ [Next]_vars => IInv'
<1> SUFFICES ASSUME IInv, [Next]_vars PROVE IInv'
  OBVIOUS
<1>1. CASE \E s \in DOMAIN slabs : AllocateFrom(s)
  BY <1>1, AllocateStep
<1>2. CASE AllocateNewSlab
  BY <1>2, NewSlabStep
<1>3. CASE \E c \in live : Write(c) \/ AllocSlab_release(c)
  BY <1>3, WriteStep, ReleaseStep
<1>4. CASE UNCHANGED vars
  <2>1. TypeOK' /\ Len(slabs') <= MaxSlabs
    BY <1>4 DEF vars, IInv, TypeOK
  <2>2. NoOverlap' /\ LosesFirstOnly'
    BY <1>4 DEF vars, IInv, NoOverlap, LosesFirstOnly
  <2> QED
    BY <2>1, <2>2 DEF IInv
<1> QED
  BY <1>1, <1>2, <1>3, <1>4 DEF Next
-----------------------------------------------------------------------------
THEOREM Invariance == Spec => []IInv
  BY InitIInv, NextIInv, PTL DEF Spec

(* The free lists fit their memory and the slab array its entries, in      *)
(* every reachable state (init_slab, next_slab).                           *)
THEOREM TypeCorrect == Spec => []TypeOK
  BY Invariance, PTL DEF IInv

(* No chunk has two owners, or an owner and a place on the free list:      *)
(* next_chunk hands out only what nobody holds.                            *)
THEOREM ChunksDisjoint == Spec => []NoOverlap
  BY Invariance, PTL DEF IInv

(* release_chunk loses no chunk of a slab but its first.                   *)
THEOREM OnlyFirstLost == Spec => []LosesFirstOnly
  BY Invariance, PTL DEF IInv

(* AllocSlab_allocate makes a slab only when every chunk that could be     *)
(* reused is in use.                                                       *)
THEOREM GrowsUnderNeed == Spec => GrowsWhenFull
<1> DEFINE Grown == Len(slabs') > Len(slabs) =>
        \A s \in DOMAIN slabs : \A i \in 1 .. SLAB_SIZE - 1 : <<s, i>> \in live
<1>1. IInv /\ [Next]_vars => [Grown]_vars
  <2> SUFFICES ASSUME IInv, Next PROVE Grown
    OBVIOUS
  <2>1. CASE \E s \in DOMAIN slabs : AllocateFrom(s)
    BY <2>1 DEF AllocateFrom, IInv, TypeOK
  <2>2. CASE AllocateNewSlab
    <3> SUFFICES ASSUME NEW s \in DOMAIN slabs, NEW i \in 1 .. SLAB_SIZE - 1
                 PROVE  <<s, i>> \in live
      OBVIOUS
    <3>1. ~HasChunk(slabs[s]) /\ slabs[s] \in Slab
      BY <2>2, SlabFacts DEF AllocateNewSlab, SlabOK
    <3>2. slabs[s].free_list = <<>> /\ slabs[s].chunk_head = SLAB_SIZE - 1
      BY <3>1, SlabAssumption DEF HasChunk, Slab
    <3>3. FreeIndices(slabs[s]) = {}
      BY <3>2 DEF FreeIndices
    <3> QED
      BY <3>2, <3>3 DEF IInv, LosesFirstOnly
  <2>3. CASE \E c \in live : Write(c) \/ AllocSlab_release(c)
    BY <2>3 DEF Write, AllocSlab_release, IInv, TypeOK
  <2> QED
    BY <2>1, <2>2, <2>3 DEF Next
<1> QED
  BY <1>1, Invariance, PTL DEF Spec, GrowsWhenFull

(* The slab allocator implements Allocator: every chunk it hands out is    *)
(* nobody's and zeroed, for any sequence of requests.                      *)
THEOREM Implements == Spec => KeepsPromise
<1>1. Init => Promise!Init
  BY DEF Init, Promise!Init
<1>2. IInv /\ [Next]_vars => [Promise!Next]_<<live, live \ dirty>>
  <2> SUFFICES ASSUME IInv, [Next]_vars
               PROVE  Promise!Next \/ UNCHANGED <<live, live \ dirty>>
    OBVIOUS
  <2>1. ASSUME NEW s \in DOMAIN slabs, AllocateFrom(s)
        PROVE  Promise!Next
    <3> DEFINE c == <<s, NextIndex(slabs[s])>>
    <3>1. c \in Chunks \ live
      BY <2>1, AllocateStep
    <3>2. live' = live \cup {c} /\ dirty' = dirty \ {c}
      BY <2>1 DEF AllocateFrom, Cleared
    <3> QED
      BY <3>1, <3>2 DEF Promise!Next, Promise!Allocate
  <2>2. ASSUME AllocateNewSlab
        PROVE  Promise!Next
    <3> DEFINE c == <<Len(slabs) + 1, NextIndex(EmptySlab)>>
    <3>1. c \in Chunks \ live
      BY <2>2, NewSlabStep
    <3>2. live' = live \cup {c} /\ dirty' = dirty \ {c}
      BY <2>2 DEF AllocateNewSlab, Cleared
    <3> QED
      BY <3>1, <3>2 DEF Promise!Next, Promise!Allocate
  <2>3. ASSUME NEW c \in live, Write(c)
        PROVE  Promise!Next
    BY <2>3 DEF Write, IInv, TypeOK, Promise!Next, Promise!Write
  <2>4. ASSUME NEW c \in live, AllocSlab_release(c)
        PROVE  Promise!Next
    BY <2>4 DEF AllocSlab_release, IInv, TypeOK, Promise!Next, Promise!Release
  <2>5. CASE UNCHANGED vars
    BY <2>5 DEF vars
  <2> QED
    BY <2>1, <2>2, <2>3, <2>4, <2>5 DEF Next
<1> QED
  BY <1>1, <1>2, Invariance, PTL DEF Spec, KeepsPromise, Promise!Spec
=============================================================================
