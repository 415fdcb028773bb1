---------------------------- MODULE Interp_proof ----------------------------
(***************************************************************************)
(* What Interp guarantees for any depth of evaluation, any nesting of      *)
(* tries and any number of exceptions: the scope stack and the try marker  *)
(* survive every longjmp.                                                  *)
(***************************************************************************)
EXTENDS Interp, SequenceTheorems, TLAPS

\* What frame k, fr, may have called (nx), and the scopes it did so under.
Under(k, fr, nx) ==
    /\ fr.f = "try" => nx.f = IF k = 1 THEN "list" ELSE "eval"
    /\ fr.f = "list" => nx.f = "eval"
    /\ IF fr.f = "try"
       THEN IF fr.at = "catch" THEN nx.size > fr.size ELSE nx.size = fr.size
       ELSE nx.size = fr.size + 1

\* Sizes grow along the frames, the outermost of which is eval's own try.
Stacked ==
    /\ Depth > 0 => /\ Depth > 1 /\ frames[1].f = "try" /\ Top.f # "try"
    /\ \A i, j \in 1 .. Depth :
           /\ j = i + 1 => Under(i, frames[i], frames[j])
           /\ i <= j => frames[i].size <= frames[j].size

\* m is the innermost try within the first n frames.
InnerTry(m, n) ==
    /\ m \in 1 .. n /\ frames[m].f = "try"
    /\ \A i \in m + 1 .. n : frames[i].f # "try"

\* Each try but the first has saved the marker of the try around it.
MarkersChain ==
    \A i \in 2 .. Depth : frames[i].f = "try" => InnerTry(frames[i].marker, i - 1)

IInv ==
    /\ TypeOK
    /\ Stacked
    /\ ScopesBalanced
    /\ MarkersChain
    /\ MarkerRunning
-----------------------------------------------------------------------------
(* Frames and scopes are sequences.                                        *)
LEMMA FramesFacts ==
    ASSUME TypeOK
    PROVE  /\ frames \in Seq(Frame) /\ Depth \in Nat /\ Depth = Len(frames)
           /\ DOMAIN frames = 1 .. Depth
           /\ \A i \in 1 .. Depth : frames[i] \in Frame
           /\ Depth > 0 => Top = frames[Depth] /\ Top \in Frame /\ Depth \in 1 .. Depth
           /\ scopes \in Seq(SUBSET Cells) /\ Len(scopes) \in Nat
           /\ MaxFrames \in Nat /\ MaxFrames > 1 /\ MaxForms \in Nat /\ MaxThrows \in Nat
  BY InterpAssumption DEF TypeOK, Depth, Top

LEMMA FrameFields ==
    ASSUME NEW fr \in Frame
    PROVE  /\ fr.env \in Refs /\ fr.size \in Nat /\ fr.marker \in Nat /\ fr.forms \in Nat
           /\ fr.head \in Refs /\ fr.tail \in Refs
           /\ fr.f \in {"eval", "list", "try"}
  BY DEF Frame

LEMMA NewFrameFacts ==
    ASSUME NEW f \in {"eval", "list", "try"},
           NEW at \in {"args", "new", "body"}, NEW env \in Refs, NEW size \in Nat
    PROVE  /\ NewFrame(f, at, env, size) \in Frame
           /\ NewFrame(f, at, env, size).f = f
           /\ NewFrame(f, at, env, size).at = at
           /\ NewFrame(f, at, env, size).size = size
  BY InterpAssumption DEF NewFrame, Frame, Refs

\* The list of a call, with the captures it has saved.
NewList(env, size, h, t) ==
    [NewFrame("list", "new", env, size) EXCEPT !.head = h, !.tail = t]

LEMMA NewListFacts ==
    ASSUME NEW env \in Refs, NEW size \in Nat, NEW h \in Refs, NEW t \in Refs
    PROVE  /\ NewList(env, size, h, t) \in Frame
           /\ NewList(env, size, h, t).f = "list" /\ NewList(env, size, h, t).size = size
  BY InterpAssumption DEF NewList, NewFrame, Frame, Refs

\* A list takes its next form.
NextForm(fr) ==
    [[[fr EXCEPT !.at = "run"] EXCEPT !.defs = {}] EXCEPT !.forms = fr.forms - 1]

LEMMA NextFormFacts ==
    ASSUME NEW fr \in Frame, fr.forms > 0
    PROVE  /\ NextForm(fr) \in Frame /\ NextForm(fr).f = fr.f
           /\ NextForm(fr).size = fr.size /\ NextForm(fr).marker = fr.marker
<1>1. fr.forms - 1 \in Nat
  BY FrameFields
<1> QED
  BY <1>1 DEF NextForm, Frame

LEMMA PrefixFacts ==
    ASSUME NEW S, NEW q \in Seq(S), NEW n \in Nat, n <= Len(q)
    PROVE  /\ SubSeq(q, 1, n) \in Seq(S)
           /\ Len(SubSeq(q, 1, n)) = n
           /\ \A i \in 1 .. n : SubSeq(q, 1, n)[i] = q[i]
<1>1. \A i \in 1 .. n : q[i] \in S
  OBVIOUS
<1>2. /\ SubSeq(q, 1, n) \in Seq(S)
      /\ Len(SubSeq(q, 1, n)) = IF 1 <= n THEN n - 1 + 1 ELSE 0
      /\ \A i \in 1 .. n - 1 + 1 : SubSeq(q, 1, n)[i] = q[1 + i - 1]
  BY <1>1, SubSeqProperties
<1>3. n - 1 + 1 = n /\ \A i \in 1 .. n : 1 + i - 1 = i
  OBVIOUS
<1> QED
  BY <1>2, <1>3

LEMMA SavedFacts ==
    ASSUME NEW scs \in Seq(SUBSET Cells), NEW cells \in SUBSET Refs
    PROVE  Saved(scs, cells) \in Seq(SUBSET Cells) /\ Len(Saved(scs, cells)) = Len(scs)
<1> DEFINE n == Len(scs)
           top == scs[n] \cup (cells \ {NULL})
           q == [scs EXCEPT ![n] = top]
<1>1. Saved(scs, cells) = q
  BY DEF Saved
<1>2. n \in Nat /\ DOMAIN scs = 1 .. n /\ \A i \in 1 .. n : scs[i] \subseteq Cells
  OBVIOUS
<1>3. n \in 1 .. n => top \subseteq Cells
  BY <1>2 DEF Refs
<1> HIDE DEF top
<1>4. q = [i \in 1 .. n |-> IF i = n THEN top ELSE scs[i]]
  BY <1>2
<1> HIDE DEF n
<1> HIDE DEF q
<1>5. q \in [1 .. n -> SUBSET Cells]
  BY <1>2, <1>3, <1>4
<1>6. q \in Seq(SUBSET Cells) /\ Len(q) = n
  BY <1>2, <1>5
<1> QED
  BY <1>1, <1>6 DEF n, q

LEMMA PoppedFacts ==
    ASSUME NEW S, NEW q \in Seq(S), Len(q) > 0
    PROVE  /\ Popped(q) \in Seq(S) /\ Len(Popped(q)) = Len(q) - 1
           /\ \A i \in 1 .. Len(q) - 1 : Popped(q)[i] = q[i]
<1>1. Len(q) - 1 \in Nat /\ Len(q) - 1 <= Len(q)
  OBVIOUS
<1> QED
  BY <1>1, PrefixFacts DEF Popped

LEMMA TwoMoreFacts ==
    ASSUME NEW q \in Seq(Frame), NEW x \in Frame, NEW y \in Frame, NEW r, r = q \o <<x, y>>
    PROVE  /\ r \in Seq(Frame) /\ Len(r) = Len(q) + 2
           /\ r[Len(q) + 1] = x /\ r[Len(q) + 2] = y
           /\ \A i \in 1 .. Len(q) : r[i] = q[i]
<1> DEFINE t == <<x, y>>
<1>1. t \in Seq(Frame) /\ Len(t) = 2 /\ t[1] = x /\ t[2] = y
  OBVIOUS
<1>2. r = q \o t
  OBVIOUS
<1> HIDE DEF t
<1>3. /\ r \in Seq(Frame) /\ Len(r) = Len(q) + Len(t)
      /\ \A i \in 1 .. Len(q) + Len(t) : r[i] = IF i <= Len(q) THEN q[i] ELSE t[i - Len(q)]
  BY <1>1, <1>2, ConcatProperties
<1> DEFINE n == Len(q)
<1>4. /\ n \in Nat /\ n + 1 \in 1 .. n + 2 /\ n + 2 \in 1 .. n + 2
      /\ ~(n + 1 <= n) /\ ~(n + 2 <= n) /\ n + 1 - n = 1 /\ n + 2 - n = 2
      /\ \A i \in 1 .. n : i \in 1 .. n + 2 /\ i <= n
  OBVIOUS
<1> HIDE DEF n
<1>5. n = Len(q)
  BY DEF n
<1> QED
  BY <1>1, <1>3, <1>4, <1>5

(* A frame changed in place.                                               *)
LEMMA UpdatedFacts ==
    ASSUME NEW q \in Seq(Frame), NEW n \in 1 .. Len(q), NEW fr \in Frame,
           NEW r, r = [q EXCEPT ![n] = fr]
    PROVE  /\ r \in Seq(Frame) /\ Len(r) = Len(q)
           /\ r[n] = fr /\ \A i \in 1 .. Len(q) : i # n => r[i] = q[i]
  OBVIOUS

LEMMA CallingFacts ==
    ASSUME TypeOK, Depth > 0, NEW c \in Cells, NEW at \in {"called", "def"}
    PROVE  /\ Calling(c, at) \in Seq(Frame) /\ Len(Calling(c, at)) = Depth
           /\ \A i \in 1 .. Depth :
                  /\ i # Depth => Calling(c, at)[i] = frames[i]
                  /\ Calling(c, at)[i].f = frames[i].f
                  /\ Calling(c, at)[i].size = frames[i].size
                  /\ Calling(c, at)[i].marker = frames[i].marker
<1> DEFINE r  == Calling(c, at)
           fr == [[frames[Depth] EXCEPT !.at = at] EXCEPT !.call = c]
<1>1. Depth \in 1 .. Depth /\ frames[Depth] \in Frame /\ frames \in Seq(Frame)
      /\ Depth = Len(frames)
  BY FramesFacts
<1>2. /\ fr \in Frame /\ fr.f = frames[Depth].f /\ fr.size = frames[Depth].size
      /\ fr.marker = frames[Depth].marker
  BY <1>1 DEF Frame, Refs
<1>3. r = [frames EXCEPT ![Depth] = fr]
  BY <1>1 DEF Calling
<1> HIDE DEF fr, r
<1>4. /\ r \in Seq(Frame) /\ Len(r) = Depth
      /\ \A i \in 1 .. Depth : /\ i # Depth => r[i] = frames[i]
                              /\ r[i].f = frames[i].f /\ r[i].size = frames[i].size
                              /\ r[i].marker = frames[i].marker
  BY <1>1, <1>2, <1>3, UpdatedFacts
<1> QED
  BY <1>4 DEF r

LEMMA ReturnedFacts ==
    ASSUME NEW q \in Seq(Frame), Len(q) > 0, NEW r, r = Returned(q)
    PROVE  /\ r \in Seq(Frame) /\ Len(r) = Len(q)
           /\ \A i \in 1 .. Len(q) : /\ i # Len(q) => r[i] = q[i]
                                    /\ r[i].f = q[i].f /\ r[i].size = q[i].size
                                    /\ r[i].marker = q[i].marker
<1> DEFINE n == Len(q)
           fr == [[q[n] EXCEPT !.at = "done"] EXCEPT !.call = NULL]
<1>1. n \in 1 .. n /\ q[n] \in Frame
  OBVIOUS
<1>2. /\ fr \in Frame /\ fr.f = q[n].f /\ fr.size = q[n].size
      /\ fr.marker = q[n].marker
  BY <1>1 DEF Frame, Refs
<1>3. r = [q EXCEPT ![n] = fr]
  BY <1>1 DEF Returned
<1> HIDE DEF fr
<1> QED
  BY <1>1, <1>2, <1>3, UpdatedFacts
(* A form whose entry is popped.                                           *)
LEMMA ReturnedFields ==
    ASSUME NEW q \in Seq(Frame), NEW n \in Nat, Len(q) = n, n > 0, NEW r, r = Returned(q)
    PROVE  /\ r[n].at = "done" /\ r[n].call = NULL /\ r[n].env = q[n].env
           /\ r[n].head = q[n].head /\ r[n].tail = q[n].tail
<1> DEFINE fr == [[q[n] EXCEPT !.at = "done"] EXCEPT !.call = NULL]
<1>1. n \in 1 .. n /\ q[n] \in Frame
  OBVIOUS
<1>2. /\ fr.at = "done" /\ fr.call = NULL /\ fr.env = q[n].env
      /\ fr.head = q[n].head /\ fr.tail = q[n].tail
  BY <1>1 DEF Frame, Refs
<1>3. r = [q EXCEPT ![n] = fr]
  BY <1>1 DEF Returned
<1> HIDE DEF fr
<1>4. r[n] = fr
  BY <1>1, <1>3
<1> QED
  BY <1>2, <1>4
-----------------------------------------------------------------------------
\* The first n frames are those of before, frame n perhaps at another place.
Prefix(n) ==
    /\ n \in 1 .. Depth
    /\ \A i \in 1 .. n : /\ i # n => frames'[i].at = frames[i].at
                        /\ frames'[i].f = frames[i].f
                        /\ frames'[i].size = frames[i].size
                        /\ frames'[i].marker = frames[i].marker

\* IInv without the types.
Balance == Stacked /\ ScopesBalanced /\ MarkersChain /\ MarkerRunning

(* A step back to, or within, frame n, an evaluation or a list.            *)
LEMMA BackStep ==
    ASSUME IInv, TypeOK', NEW n, Prefix(n), Depth' = n, n > 1,
           frames[n].f # "try", InnerTry(last_try_marker', n),
           Len(scopes') = frames[n].size + 1
    PROVE  Balance'
<1> USE DEF IInv
<1>1. n \in 1 .. Depth /\ Depth \in Nat /\ n \in Nat
  BY FramesFacts DEF Prefix
<1>2. /\ Top' = frames'[n] /\ last_try_marker' \in Nat
      /\ DOMAIN frames' = 1 .. n
  BY <1>1, FramesFacts DEF Top, Depth, TypeOK
<1>3. Stacked'
  <2>1. ASSUME NEW i \in 1 .. n, NEW j \in 1 .. n
        PROVE  /\ j = i + 1 => Under(i, frames'[i], frames'[j])
               /\ i <= j => frames'[i].size <= frames'[j].size
    BY <1>1, <2>1 DEF Prefix, Stacked, Under
  <2>2. frames'[1].f = "try" /\ Top'.f # "try"
    BY <1>1, <1>2 DEF Prefix, Stacked
  <2> QED
    BY <2>1, <2>2 DEF Stacked
<1>4. ScopesBalanced'
  BY <1>1, <1>2 DEF ScopesBalanced, Prefix
<1>5. MarkersChain'
  <2>1. ASSUME NEW i \in 2 .. n, frames'[i].f = "try"
        PROVE  InnerTry(frames[i].marker, i - 1)
    BY <1>1, <2>1 DEF Prefix, MarkersChain
  <2>2. ASSUME NEW i \in 2 .. n, frames'[i].f = "try"
        PROVE  InnerTry(frames[i].marker, i - 1)'
    <3>1. InnerTry(frames[i].marker, i - 1) /\ frames'[i].marker = frames[i].marker
      BY <1>1, <2>1, <2>2 DEF Prefix
    <3>2. \A k \in 1 .. i - 1 : frames'[k].f = frames[k].f
      BY <1>1 DEF Prefix
    <3>3. frames[i].marker \in Nat
      BY <1>1, FramesFacts, FrameFields
    <3> QED
      BY <3>1, <3>2, <3>3 DEF InnerTry
  <2> QED
    BY <2>2 DEF MarkersChain
<1>6. MarkerRunning'
  <2>1. frames' # <<>>
    BY <1>1, <1>2
  <2> DEFINE m == last_try_marker'
  <2>2. m \in 1 .. n /\ frames'[m].f = "try"
    BY DEF InnerTry, Prefix
  <2>3. \A i \in m + 1 .. n : frames'[i].f # "try"
    <3>1. ASSUME NEW k \in Nat, k \in 1 .. n, NEW i \in k + 1 .. n
          PROVE  i \in 1 .. n
      BY <1>1
    <3>2. \A i \in m + 1 .. n : i \in 1 .. n
      BY <1>2, <2>2, <3>1
    <3> QED
      BY <3>2 DEF InnerTry, Prefix
  <2> QED
    <3>1. m \in DOMAIN frames' /\ m > 0 /\ ~(m = 0)
      BY <1>1, <1>2, <2>2
    <3>2. \A i \in m + 1 .. Depth' : frames'[i].f # "try"
      BY <1>1, <2>3
    <3> HIDE DEF m
    <3>3. m = last_try_marker'
      BY DEF m
    <3> QED
      BY <2>1, <2>2, <3>1, <3>2, <3>3 DEF MarkerRunning
<1> QED
  BY <1>3, <1>4, <1>5, <1>6 DEF Balance

(* A step that calls an evaluation or a list from frame n.                 *)
LEMMA CallStep ==
    ASSUME IInv, TypeOK', NEW n, Prefix(n), Depth' = n + 1,
           frames'[n + 1].f # "try", Under(n, frames'[n], frames'[n + 1]),
           frames[n].size <= frames'[n + 1].size,
           InnerTry(last_try_marker', n),
           Len(scopes') = frames'[n + 1].size + 1
    PROVE  Balance'
<1> USE DEF IInv
<1>1. n \in 1 .. Depth /\ Depth \in Nat /\ n \in Nat
  BY FramesFacts DEF Prefix
<1>2. /\ Top' = frames'[n + 1] /\ last_try_marker' \in Nat
      /\ DOMAIN frames' = 1 .. n + 1
      /\ \A i \in 1 .. n + 1 : frames'[i].size \in Nat
      /\ \A i \in 1 .. Depth : frames[i].size \in Nat
  <2>1. \A i \in 1 .. Depth : frames[i].size \in Nat
    BY FramesFacts, FrameFields
  <2>2. frames' \in Seq(Frame) /\ Len(frames') = n + 1 /\ last_try_marker' \in Nat
    BY <1>1 DEF TypeOK, Depth
  <2>3. \A i \in 1 .. n + 1 : frames'[i].size \in Nat
    BY <1>1, <2>2, FrameFields
  <2> QED
    BY <1>1, <2>1, <2>2, <2>3 DEF Top
<1>3. Stacked'
  <2>1. ASSUME NEW i \in 1 .. n, NEW j \in 1 .. n
        PROVE  /\ j = i + 1 => Under(i, frames'[i], frames'[j])
               /\ i <= j => frames'[i].size <= frames'[j].size
    BY <1>1, <2>1 DEF Prefix, Stacked, Under
  <2>2. ASSUME NEW i \in 1 .. n
        PROVE  frames'[i].size <= frames'[n + 1].size
    <3>1. frames'[i].size <= frames[n].size
      BY <1>1, <2>1 DEF Prefix, Stacked
    <3> QED
      BY <3>1, <1>1, <1>2
  <2>3. frames'[1].f = "try"
    BY <1>1, <1>2 DEF Prefix, Stacked
  <2>4. ASSUME NEW i \in 1 .. n + 1, NEW j \in 1 .. n + 1
        PROVE  /\ j = i + 1 => Under(i, frames'[i], frames'[j])
               /\ i <= j => frames'[i].size <= frames'[j].size
    BY <1>1, <1>2, <2>1, <2>2
  <2> QED
    BY <1>1, <1>2, <2>3, <2>4 DEF Stacked
<1>4. ScopesBalanced'
  BY <1>1, <1>2 DEF ScopesBalanced
<1>5. MarkersChain'
  <2>1. ASSUME NEW i \in 2 .. n + 1, frames'[i].f = "try"
        PROVE  InnerTry(frames[i].marker, i - 1)'
    <3>1. i \in 2 .. n
      BY <1>1, <2>1
    <3>2. InnerTry(frames[i].marker, i - 1) /\ frames'[i].marker = frames[i].marker
      BY <1>1, <2>1, <3>1 DEF Prefix, MarkersChain
    <3>3. \A k \in 1 .. i - 1 : frames'[k].f = frames[k].f
      BY <1>1, <3>1 DEF Prefix
    <3>4. frames[i].marker \in Nat
      BY <1>1, <3>1, FramesFacts, FrameFields
    <3> QED
      BY <3>1, <3>2, <3>3, <3>4 DEF InnerTry
  <2> QED
    BY <2>1 DEF MarkersChain
<1>6. MarkerRunning'
  <2>1. frames' # <<>>
    BY <1>1, <1>2
  <2> DEFINE m == last_try_marker'
  <2>2. m \in 1 .. n /\ frames'[m].f = "try"
    BY DEF InnerTry, Prefix
  <2>3. \A i \in m + 1 .. n + 1 : frames'[i].f # "try"
    <3>1. ASSUME NEW k \in Nat, k \in 1 .. n, NEW i \in k + 1 .. n + 1
          PROVE  (i \in k + 1 .. n /\ i \in 1 .. n) \/ i = n + 1
      BY <1>1
    <3>2. \A i \in m + 1 .. n + 1 : (i \in m + 1 .. n /\ i \in 1 .. n) \/ i = n + 1
      BY <1>2, <2>2, <3>1
    <3>3. \A i \in m + 1 .. n : frames[i].f # "try"
      BY DEF InnerTry
    <3>4. \A i \in 1 .. n : frames'[i].f = frames[i].f
      BY DEF Prefix
    <3> QED
      BY <3>2, <3>3, <3>4
  <2> QED
    <3>1. m \in DOMAIN frames' /\ m > 0 /\ ~(m = 0)
      BY <1>1, <1>2, <2>2
    <3>2. \A i \in m + 1 .. Depth' : frames'[i].f # "try"
      BY <1>1, <2>3
    <3> HIDE DEF m
    <3>3. m = last_try_marker'
      BY DEF m
    <3> QED
      BY <2>1, <2>2, <3>1, <3>2, <3>3 DEF MarkerRunning
<1> QED
  BY <1>3, <1>4, <1>5, <1>6 DEF Balance

(* A step that starts a try in the frame on top.                           *)
LEMMA TryStep ==
    ASSUME IInv, TypeOK', Prefix(Depth), Depth' = Depth + 2,
           frames'[Depth + 1].f = "try", frames'[Depth + 1].at = "body",
           frames'[Depth + 1].marker = last_try_marker,
           frames'[Depth + 1].size = frames[Depth].size + 1,
           frames'[Depth + 2].f = "eval",
           frames'[Depth + 2].size = frames[Depth].size + 1,
           frames[Depth].f = "eval",
           last_try_marker' = Depth + 1, InnerTry(last_try_marker, Depth),
           Len(scopes') = frames[Depth].size + 2
    PROVE  Balance'
<1> USE DEF IInv
<1> DEFINE n == Depth
<1>1. n \in 1 .. n /\ n \in Nat /\ n > 1 /\ Depth' = n + 2
  BY FramesFacts DEF Prefix, Stacked
<1>2. /\ Top' = frames'[n + 2]
      /\ DOMAIN frames' = 1 .. n + 2
      /\ \A i \in 1 .. n : frames[i].size \in Nat
  <2>1. \A i \in 1 .. n : frames[i].size \in Nat
    BY FramesFacts, FrameFields
  <2>2. frames' \in Seq(Frame) /\ Len(frames') = n + 2
    BY <1>1 DEF TypeOK, Depth
  <2> QED
    BY <1>1, <2>1, <2>2 DEF Top
<1>3. Stacked'
  <2>1. ASSUME NEW i \in 1 .. n, NEW j \in 1 .. n
        PROVE  /\ j = i + 1 => Under(i, frames'[i], frames'[j])
               /\ i <= j => frames'[i].size <= frames'[j].size
    BY <1>1, <2>1 DEF Prefix, Stacked, Under
  <2>2. ASSUME NEW i \in 1 .. n
        PROVE  /\ frames'[i].size <= frames'[n + 1].size
               /\ frames'[i].size <= frames'[n + 2].size
    <3>1. frames'[i].size <= frames[n].size
      BY <1>1, <2>1 DEF Prefix, Stacked
    <3> QED
      BY <3>1, <1>1, <1>2 DEF Prefix
  <2>3. frames'[1].f = "try"
    BY <1>1, <1>2 DEF Prefix, Stacked
  <2>4. Under(n, frames'[n], frames'[n + 1])
    BY <1>1 DEF Prefix, Under
  <2>5. Under(n + 1, frames'[n + 1], frames'[n + 2])
    BY <1>1 DEF Under
  <2>6. frames'[n + 1].size <= frames'[n + 2].size /\ frames'[n + 1].size \in Nat
    BY <1>1, <1>2
  <2> HIDE DEF n
  <2>7. ASSUME NEW i \in 1 .. n + 2, NEW j \in 1 .. n + 2
        PROVE  /\ j = i + 1 => Under(i, frames'[i], frames'[j])
               /\ i <= j => frames'[i].size <= frames'[j].size
    <3>1. \/ i \in 1 .. n /\ j \in 1 .. n
          \/ i \in 1 .. n /\ j = n + 1
          \/ i \in 1 .. n /\ j = n + 2
          \/ i = n + 1 /\ j = n + 2
          \/ i = j
          \/ i > j
      BY <1>1
    <3>2. frames'[j].size \in Nat
      BY <1>1, <2>7, FrameFields DEF TypeOK, Depth
    <3>3. CASE i = j
      BY <1>1, <3>2, <3>3
    <3>4. CASE i > j
      BY <1>1, <3>4
    <3>5. CASE i \in 1 .. n /\ j \in 1 .. n
      BY <3>5, <2>1
    <3>6. CASE i \in 1 .. n /\ j = n + 1
      BY <3>6, <1>1, <2>2, <2>4
    <3>7. CASE i \in 1 .. n /\ j = n + 2
      BY <3>7, <1>1, <2>2
    <3>8. CASE i = n + 1 /\ j = n + 2
      BY <3>8, <1>1, <2>5, <2>6
    <3> QED
      BY <3>1, <3>3, <3>4, <3>5, <3>6, <3>7, <3>8
  <2> QED
    BY <1>1, <1>2, <2>3, <2>7 DEF Stacked, n
<1>4. ScopesBalanced'
  BY <1>1, <1>2 DEF ScopesBalanced
<1>5. MarkersChain'
  <2>1. ASSUME NEW i \in 2 .. n + 2, frames'[i].f = "try"
        PROVE  InnerTry(frames[i].marker, i - 1)'
    <3>1. \A k \in 1 .. n : frames'[k].f = frames[k].f
      BY <1>1 DEF Prefix
    <3>2. CASE i \in 2 .. n
      <4>1. InnerTry(frames[i].marker, i - 1) /\ frames'[i].marker = frames[i].marker
        BY <1>1, <2>1, <3>2 DEF Prefix, MarkersChain
      <4>2. frames[i].marker \in Nat
        BY <1>1, <3>2, FramesFacts, FrameFields
      <4>3. \A k \in 1 .. i - 1 : frames'[k].f = frames[k].f
        BY <1>1, <3>1, <3>2
      <4> QED
        BY <3>2, <4>1, <4>2, <4>3 DEF InnerTry
    <3>3. CASE i = n + 1
      <4>1. frames'[i].marker = last_try_marker /\ i - 1 = n
            /\ last_try_marker \in 1 .. n
        BY <1>1, <3>3 DEF InnerTry
      <4> QED
        BY <1>1, <3>1, <4>1 DEF InnerTry
    <3>4. i # n + 2
      BY <2>1
    <3> QED
      BY <1>1, <3>2, <3>3, <3>4
  <2> QED
    BY <1>1, <2>1 DEF MarkersChain
<1>6. MarkerRunning'
  <2>1. frames' # <<>>
    BY <1>1, <1>2
  <2>2. last_try_marker' \in DOMAIN frames' /\ ~(last_try_marker' = 0)
        /\ frames'[last_try_marker'].f = "try"
    BY <1>1, <1>2
  <2>3. \A i \in last_try_marker' + 1 .. Depth' : frames'[i].f # "try"
    BY <1>1
  <2> QED
    BY <2>1, <2>2, <2>3 DEF MarkerRunning
<1> QED
  BY <1>3, <1>4, <1>5, <1>6 DEF Balance

(* The frame on top, and the tries around it.                              *)
LEMMA TopFacts ==
    ASSUME IInv, Depth > 0
    PROVE  /\ Depth \in Nat /\ Depth > 1 /\ Depth - 1 \in 1 .. Depth /\ Depth \in 1 .. Depth
           /\ Top = frames[Depth] /\ Top \in Frame /\ Top.f # "try"
           /\ Top.size \in Nat /\ Len(scopes) = Top.size + 1
           /\ InnerTry(last_try_marker, Depth) /\ InnerTry(last_try_marker, Depth - 1)
           /\ Under(Depth - 1, frames[Depth - 1], Top)
<1>1. /\ Depth \in Nat /\ Depth > 1 /\ Depth - 1 \in 1 .. Depth /\ Depth \in 1 .. Depth
      /\ Top = frames[Depth] /\ Top \in Frame /\ Top.f # "try"
      /\ Top.size \in Nat /\ frames # <<>>
  BY FramesFacts, FrameFields DEF IInv, Stacked
<1>2. Len(scopes) = Top.size + 1
  BY <1>1 DEF IInv, ScopesBalanced
<1>3. /\ last_try_marker \in 1 .. Depth /\ frames[last_try_marker].f = "try"
      /\ \A i \in last_try_marker + 1 .. Depth : frames[i].f # "try"
  BY <1>1, FramesFacts DEF IInv, MarkerRunning, TypeOK
<1>4. InnerTry(last_try_marker, Depth)
  BY <1>3 DEF InnerTry
<1>5. last_try_marker \in 1 .. Depth - 1
  BY <1>1, <1>3
<1>6. InnerTry(last_try_marker, Depth - 1)
  BY <1>1, <1>3, <1>5 DEF InnerTry
<1>7. Under(Depth - 1, frames[Depth - 1], frames[Depth])
  BY <1>1 DEF IInv, Stacked
<1> QED
  BY <1>1, <1>2, <1>4, <1>6, <1>7
-----------------------------------------------------------------------------
(* An evaluation of forms by the host.                                     *)
LEMMA EvalFormsStep ==
    ASSUME IInv, EvalForms
    PROVE  IInv'
<1> USE DEF IInv
<1> DEFINE try == NewFrame("try", "body", main_env, 1)
           list == NewList(main_env, 1, env_capture_head, env_capture_tail)
<1>1. /\ main_env \in Refs /\ env_capture_head \in Refs /\ env_capture_tail \in Refs
      /\ call_stack \in Refs
  BY DEF TypeOK
<1>2. /\ frames' = <<try, list>> /\ last_try_marker' = 1
      /\ scopes' = <<{}, {env_capture_head} \ {NULL}>>
      /\ UNCHANGED <<heap, main_env, call_stack, captures, throws>>
      /\ unpaired' = FALSE
  BY DEF EvalForms, NewList
<1>3. /\ try \in Frame /\ try.f = "try" /\ try.at = "body" /\ try.size = 1
      /\ list \in Frame /\ list.f = "list" /\ list.size = 1
  BY <1>1, NewFrameFacts, NewListFacts
<1> HIDE DEF try, list
<1>4. /\ frames' \in Seq(Frame) /\ Len(frames') = 2 /\ DOMAIN frames' = 1 .. 2
      /\ frames'[1] = try /\ frames'[2] = list
  BY <1>2, <1>3
<1>5. Depth' = 2 /\ Top' = list
  BY <1>4 DEF Depth, Top
<1>6. scopes' \in Seq(SUBSET Cells) /\ Len(scopes') = 2
  <2>1. {env_capture_head} \ {NULL} \in SUBSET Cells
    BY <1>1 DEF Refs
  <2> QED
    BY <1>2, <2>1
<1>7. TypeOK'
  <2>1. unpaired' \in BOOLEAN
    BY <1>2, Zenon
  <2> QED
    BY <1>1, <1>2, <1>4, <1>5, <1>6, <2>1, FramesFacts DEF TypeOK, heap, captures
<1>8. Stacked'
  BY <1>3, <1>4, <1>5 DEF Stacked, Under
<1>9. ScopesBalanced'
  BY <1>3, <1>5, <1>6 DEF ScopesBalanced
<1>10. MarkersChain'
  BY <1>3, <1>4, <1>5 DEF MarkersChain
<1>11. MarkerRunning'
  <2>1. frames' # <<>>
    BY <1>4
  <2> QED
    BY <1>2, <1>3, <1>4, <1>5, <2>1 DEF MarkerRunning
<1> QED
  BY <1>7, <1>8, <1>9, <1>10, <1>11

(* The next form of a list.                                                *)
LEMMA FormStep ==
    ASSUME IInv, Form
    PROVE  IInv'
<1> USE DEF IInv
<1> DEFINE fr == NextForm(frames[Depth])
           nf == NewFrame("eval", "args", Top.env, Len(scopes))
           q == [frames EXCEPT ![Depth] = fr]
<1>1. /\ Depth > 0 /\ Top.f = "list" /\ Top.forms > 0 /\ Depth < MaxFrames
      /\ scopes' = Append(scopes, {})
      /\ env_capture_head' = NULL /\ env_capture_tail' = NULL
      /\ UNCHANGED <<heap, main_env, call_stack, last_try_marker, throws, unpaired>>
  BY DEF Form, At, NoCaptures
<1>2. /\ Depth \in Nat /\ Depth \in 1 .. Depth
      /\ Top = frames[Depth] /\ Top \in Frame
      /\ Top.size \in Nat /\ Len(scopes) = Top.size + 1
      /\ InnerTry(last_try_marker, Depth)
  BY <1>1, TopFacts
<1>3. frames' = Append(q, nf)
  BY <1>2 DEF Form, NextForm
<1>4. nf \in Frame /\ nf.f = "eval" /\ nf.size = Top.size + 1
  BY <1>2, FramesFacts, FrameFields, NewFrameFacts
<1>5. /\ fr \in Frame /\ fr.f = Top.f /\ fr.size = Top.size /\ fr.marker = Top.marker
  BY <1>1, <1>2, NextFormFacts
<1> HIDE DEF fr, nf
<1>6. /\ q \in Seq(Frame) /\ Len(q) = Depth /\ q[Depth] = fr
      /\ \A i \in 1 .. Depth : i # Depth => q[i] = frames[i]
  BY <1>2, <1>5, FramesFacts, UpdatedFacts
<1> HIDE DEF q
<1>7. /\ frames' \in Seq(Frame) /\ Depth' = Depth + 1 /\ frames'[Depth + 1] = nf
      /\ \A i \in 1 .. Depth : frames'[i] = q[i]
  BY <1>2, <1>3, <1>4, <1>6 DEF Depth
<1>8. scopes' \in Seq(SUBSET Cells) /\ Len(scopes') = Top.size + 2
  BY <1>1, <1>2, FramesFacts
<1>9. TypeOK'
  <2>1. last_try_marker' \in 0 .. Depth' /\ Depth' <= MaxFrames
    BY <1>1, <1>2, <1>7, FramesFacts DEF TypeOK
  <2>2. {main_env, call_stack, env_capture_head, env_capture_tail}' \subseteq Refs
        /\ throws' \in 0 .. MaxThrows /\ unpaired' \in BOOLEAN
        /\ up' \in [Cells -> Refs] /\ alive' \subseteq Cells
    BY <1>1 DEF TypeOK, heap, Refs
  <2> QED
    BY <1>7, <1>8, <2>1, <2>2 DEF TypeOK
<1>10. Prefix(Depth)
  BY <1>2, <1>5, <1>6, <1>7 DEF Prefix
<1>11. Under(Depth, frames'[Depth], frames'[Depth + 1])
  BY <1>1, <1>2, <1>4, <1>5, <1>6, <1>7 DEF Under
<1> HIDE DEF IInv
<1>12. Balance'
  <2>1. /\ frames'[Depth + 1].f # "try"
        /\ frames[Depth].size <= frames'[Depth + 1].size
        /\ Len(scopes') = frames'[Depth + 1].size + 1
    BY <1>1, <1>2, <1>4, <1>7, <1>8
  <2>2. InnerTry(last_try_marker', Depth)
    BY <1>1, <1>2
  <2> QED
    BY <2>1, <2>2, <1>7, <1>9, <1>10, <1>11, CallStep
<1> QED
  BY <1>9, <1>12 DEF Balance, IInv

(* The evaluation of an argument.                                          *)
LEMMA EvalArgStep ==
    ASSUME IInv, EvalArg
    PROVE  IInv'
<1> USE DEF IInv
<1> DEFINE nf == NewFrame("eval", "args", Top.env, Len(scopes))
<1>1. /\ Depth > 0 /\ Top.f = "eval" /\ Depth < MaxFrames
      /\ frames' = Append(frames, nf) /\ scopes' = Append(scopes, {})
      /\ UNCHANGED <<heap, main_env, call_stack, captures, last_try_marker, throws, unpaired>>
  BY DEF EvalArg, At
<1>2. /\ Depth \in Nat /\ Depth \in 1 .. Depth
      /\ Top = frames[Depth] /\ Top \in Frame
      /\ Top.size \in Nat /\ Len(scopes) = Top.size + 1
      /\ InnerTry(last_try_marker, Depth)
  BY <1>1, TopFacts
<1>3. nf \in Frame /\ nf.f = "eval" /\ nf.size = Top.size + 1
  BY <1>2, FramesFacts, FrameFields, NewFrameFacts
<1> HIDE DEF nf
<1>4. /\ frames' \in Seq(Frame) /\ Depth' = Depth + 1 /\ frames'[Depth + 1] = nf
      /\ \A i \in 1 .. Depth : frames'[i] = frames[i]
  BY <1>1, <1>2, <1>3, FramesFacts DEF Depth
<1>5. scopes' \in Seq(SUBSET Cells) /\ Len(scopes') = Top.size + 2
  BY <1>1, <1>2, FramesFacts
<1>6. TypeOK'
  BY <1>1, <1>2, <1>4, <1>5, FramesFacts DEF TypeOK, heap, captures
<1>7. Prefix(Depth)
  BY <1>2, <1>4 DEF Prefix
<1>8. Under(Depth, frames'[Depth], frames'[Depth + 1])
  BY <1>1, <1>2, <1>3, <1>4 DEF Under
<1> HIDE DEF IInv
<1>9. Balance'
  <2>1. /\ frames'[Depth + 1].f # "try"
        /\ frames[Depth].size <= frames'[Depth + 1].size
        /\ Len(scopes') = frames'[Depth + 1].size + 1
    <3>1. nf.f # "try" /\ Top.size <= nf.size /\ Top.size + 2 = nf.size + 1
      BY <1>2, <1>3
    <3> QED
      BY <1>2, <1>4, <1>5, <3>1, Zenon
  <2>2. InnerTry(last_try_marker', Depth)
    BY <1>1, <1>2
  <2> QED
    BY <2>1, <2>2, <1>4, <1>6, <1>7, <1>8, CallStep
<1> QED
  BY <1>6, <1>9 DEF Balance, IInv

(* A call of a lambda or a def: an entry on the call stack, then a frame   *)
(* of the callee.                                                          *)
LEMMA CalleeStep ==
    ASSUME IInv, At("eval", "args"), Depth < MaxFrames,
           NEW c \in Cells, NEW at \in {"called", "def"},
           NEW nf \in Frame, nf.f \in {"eval", "list"}, nf.size = Len(scopes),
           NEW cells \in SUBSET Refs, NEW scope \in SUBSET Cells,
           frames' = Append(Calling(c, at), nf),
           scopes' = Append(Saved(scopes, cells), scope),
           up' \in [Cells -> Refs], alive' \in SUBSET Cells, call_stack' \in Refs,
           UNCHANGED <<main_env, captures, last_try_marker, throws, unpaired>>
    PROVE  IInv'
<1> USE DEF IInv
<1>1. /\ Depth > 0 /\ Top.f = "eval"
  BY DEF At
<1>2. /\ Depth \in Nat /\ Depth \in 1 .. Depth
      /\ Top = frames[Depth] /\ Top \in Frame
      /\ Top.size \in Nat /\ Len(scopes) = Top.size + 1
      /\ InnerTry(last_try_marker, Depth)
  BY <1>1, TopFacts
<1> DEFINE q == Calling(c, at)
<1>3. /\ q \in Seq(Frame) /\ Len(q) = Depth
      /\ \A i \in 1 .. Depth : /\ i # Depth => q[i] = frames[i]
                              /\ q[i].f = frames[i].f /\ q[i].size = frames[i].size
                              /\ q[i].marker = frames[i].marker
  BY <1>1, CallingFacts
<1> DEFINE s == Saved(scopes, cells)
<1>4. s \in Seq(SUBSET Cells) /\ Len(s) = Len(scopes)
  BY FramesFacts, SavedFacts
<1>5. frames' = Append(q, nf) /\ scopes' = Append(s, scope)
  OBVIOUS
<1> HIDE DEF q, s
<1>6. /\ frames' \in Seq(Frame) /\ Depth' = Depth + 1 /\ frames'[Depth + 1] = nf
      /\ \A i \in 1 .. Depth : frames'[i] = q[i]
  BY <1>2, <1>3, <1>5 DEF Depth
<1>7. scopes' \in Seq(SUBSET Cells) /\ Len(scopes') = Top.size + 2
  BY <1>2, <1>4, <1>5
<1>8. TypeOK'
  <2>1. last_try_marker \in 0 .. Depth /\ Depth' <= MaxFrames
    BY <1>2, <1>6, FramesFacts DEF TypeOK
  <2>2. last_try_marker' \in 0 .. Depth'
    BY <1>2, <1>6, <2>1
  <2>3. {main_env, call_stack, env_capture_head, env_capture_tail}' \subseteq Refs
        /\ throws' \in 0 .. MaxThrows /\ unpaired' \in BOOLEAN
    BY DEF TypeOK, captures
  <2> QED
    BY <1>6, <1>7, <2>1, <2>2, <2>3 DEF TypeOK
<1>9. Prefix(Depth)
  BY <1>2, <1>3, <1>6 DEF Prefix
<1>10. Under(Depth, frames'[Depth], frames'[Depth + 1])
  BY <1>1, <1>2, <1>3, <1>6 DEF Under
<1> HIDE DEF IInv
<1>11. Balance'
  <2>1. /\ frames'[Depth + 1].f # "try"
        /\ frames[Depth].size <= frames'[Depth + 1].size
        /\ Len(scopes') = frames'[Depth + 1].size + 1
    <3>1. nf.f # "try" /\ Top.size <= nf.size /\ Top.size + 2 = nf.size + 1
      BY <1>2
    <3> QED
      BY <1>2, <1>6, <1>7, <3>1, Zenon
  <2>2. InnerTry(last_try_marker', Depth)
    BY <1>1, <1>2
  <2> QED
    BY <2>1, <2>2, <1>6, <1>8, <1>9, <1>10, CallStep
<1> QED
  BY <1>8, <1>11 DEF Balance, IInv

LEMMA CallLambdaStep ==
    ASSUME IInv, NEW c \in Cells, NEW e \in Cells, NEW env \in Refs, CallLambda(c, e, env)
    PROVE  IInv'
<1> USE DEF IInv
<1> DEFINE nf == NewList(e, Len(scopes), env_capture_head, env_capture_tail)
<1>1. /\ At("eval", "args") /\ Depth < MaxFrames
      /\ alive' = alive \cup {c, e}
      /\ up' = [up EXCEPT ![c] = call_stack, ![e] = env]
      /\ call_stack' = c
      /\ frames' = Append(Calling(c, "called"), nf)
      /\ scopes' = Append(Saved(scopes, {c, e}), {env_capture_head} \ {NULL})
      /\ UNCHANGED <<main_env, captures, last_try_marker, throws, unpaired>>
  BY DEF CallLambda, NewList
<1>2. /\ env_capture_head \in Refs /\ env_capture_tail \in Refs /\ call_stack \in Refs
      /\ up \in [Cells -> Refs] /\ alive \in SUBSET Cells
      /\ c \in Refs /\ e \in Refs /\ Len(scopes) \in Nat
  BY FramesFacts DEF TypeOK, Refs
<1>3. nf \in Frame /\ nf.f = "list" /\ nf.size = Len(scopes)
  <2> DEFINE n == Len(scopes)
  <2>1. n \in Nat /\ nf = NewList(e, n, env_capture_head, env_capture_tail)
    BY <1>2
  <2> HIDE DEF n, nf
  <2>2. ASSUME NEW x \in Refs, NEW h \in Refs, NEW t \in Refs
        PROVE  /\ NewList(x, n, h, t) \in Frame
               /\ NewList(x, n, h, t).f = "list" /\ NewList(x, n, h, t).size = n
    BY <2>1, NewListFacts
  <2>3. nf \in Frame /\ nf.f = "list" /\ nf.size = n
    BY <1>2, <2>1, <2>2
  <2> QED
    BY <2>3 DEF n
<1>4. /\ up' \in [Cells -> Refs] /\ alive' \in SUBSET Cells /\ call_stack' \in Refs
      /\ {c, e} \in SUBSET Refs /\ {env_capture_head} \ {NULL} \in SUBSET Cells
  BY <1>1, <1>2 DEF Refs
<1> HIDE DEF nf
<1> QED
  BY <1>1, <1>3, <1>4, CalleeStep

LEMMA DefStep ==
    ASSUME IInv, NEW c \in Cells, Def(c)
    PROVE  IInv'
<1> USE DEF IInv
<1> DEFINE nf == NewFrame("eval", "args", Top.env, Len(scopes))
<1>1. /\ At("eval", "args") /\ Depth < MaxFrames
      /\ alive' = alive \cup {c}
      /\ up' = [up EXCEPT ![c] = call_stack]
      /\ call_stack' = c
      /\ frames' = Append(Calling(c, "def"), nf)
      /\ scopes' = Append(Saved(scopes, {c}), {})
      /\ UNCHANGED <<main_env, captures, last_try_marker, throws, unpaired>>
  BY DEF Def, PushCall
<1>2. /\ call_stack \in Refs
      /\ up \in [Cells -> Refs] /\ alive \in SUBSET Cells
      /\ c \in Refs /\ Len(scopes) \in Nat /\ Top \in Frame
  BY <1>1, FramesFacts DEF TypeOK, Refs, At
<1>3. nf \in Frame /\ nf.f \in {"eval", "list"} /\ nf.size = Len(scopes)
  BY <1>2, FrameFields, NewFrameFacts
<1>4. /\ up' \in [Cells -> Refs] /\ alive' \in SUBSET Cells /\ call_stack' \in Refs
      /\ {c} \in SUBSET Refs /\ {} \in SUBSET Cells /\ "def" \in {"called", "def"}
  BY <1>1, <1>2 DEF Refs
<1> HIDE DEF nf, IInv
<1> QED
  BY <1>1, <1>3, <1>4, CalleeStep

LEMMA PopCallFacts ==
    ASSUME TypeOK
    PROVE  PopCall \in Refs
  BY DEF TypeOK, PopCall, Refs

(* A new binding is noted with the list whose form makes it.               *)
LEMMA BindStep ==
    ASSUME IInv, NEW e \in Cells, Bind(e)
    PROVE  IInv'
<1> USE DEF IInv
<1> DEFINE k == ListOf(Depth)
           fr == [frames[k] EXCEPT !.defs = @ \cup {e}]
<1>1. /\ Depth > 0 /\ Top.f = "eval"
      /\ alive' = alive \cup {e} /\ up' = [up EXCEPT ![e] = env_capture_head]
      /\ env_capture_head' = e
      /\ env_capture_tail' = IF env_capture_tail = NULL THEN e ELSE env_capture_tail
      /\ scopes' = Saved(scopes, {e})
      /\ UNCHANGED <<main_env, call_stack, last_try_marker, throws, unpaired>>
  BY DEF Bind, At
<1>2. /\ Depth \in Nat /\ Depth \in 1 .. Depth /\ Depth > 1
      /\ Top = frames[Depth] /\ Top.f # "try" /\ Len(scopes) = Top.size + 1
      /\ InnerTry(last_try_marker, Depth)
  BY <1>1, TopFacts
<1>3. frames' = [frames EXCEPT ![k] = fr]
  BY DEF Bind
<1>4. k \in 1 .. Depth => /\ fr \in Frame /\ fr.f = frames[k].f /\ fr.size = frames[k].size
                          /\ fr.marker = frames[k].marker /\ fr.at = frames[k].at
  <2> HIDE DEF k
  <2> SUFFICES ASSUME k \in 1 .. Depth
               PROVE  /\ fr \in Frame /\ fr.f = frames[k].f /\ fr.size = frames[k].size
                      /\ fr.marker = frames[k].marker /\ fr.at = frames[k].at
    OBVIOUS
  <2>1. frames[k] \in Frame
    BY FramesFacts
  <2> QED
    BY <2>1 DEF Frame
<1> HIDE DEF fr, k
<1>5. /\ frames' \in Seq(Frame) /\ Depth' = Depth
      /\ \A i \in 1 .. Depth : frames'[i] = IF i = k THEN fr ELSE frames[i]
  <2>1. CASE k \in 1 .. Depth
    BY <1>3, <1>4, <2>1, FramesFacts, UpdatedFacts DEF Depth
  <2>2. CASE k \notin 1 .. Depth
    <3>1. frames' = frames
      BY <1>3, <2>2, FramesFacts
    <3> QED
      BY <2>2, <3>1, FramesFacts DEF Depth
  <2> QED
    BY <2>1, <2>2
<1>6. Prefix(Depth)
  BY <1>2, <1>4, <1>5 DEF Prefix
<1>7. scopes' \in Seq(SUBSET Cells) /\ Len(scopes') = Len(scopes)
  <2>1. {e} \in SUBSET Refs
    BY DEF Refs
  <2> QED
    BY <1>1, <2>1, FramesFacts, SavedFacts
<1>8. TypeOK'
  BY <1>1, <1>5, <1>7, FramesFacts DEF TypeOK, Refs
<1> HIDE DEF IInv
<1>9. Balance'
  BY <1>1, <1>2, <1>5, <1>6, <1>7, <1>8, BackStep
<1> QED
  BY <1>8, <1>9 DEF IInv, Balance

LEMMA DefDoneStep ==
    ASSUME IInv, DefDone
    PROVE  IInv'
<1> USE DEF IInv
<1>1. /\ Depth > 0
      /\ frames' = Returned(frames) /\ call_stack' = PopCall
      /\ UNCHANGED <<scopes, heap, main_env, captures, last_try_marker, throws, unpaired>>
  BY DEF DefDone, At
<1>2. /\ Depth \in Nat /\ Depth \in 1 .. Depth /\ Depth > 1
      /\ Top = frames[Depth] /\ Top.f # "try" /\ Len(scopes) = Top.size + 1
      /\ InnerTry(last_try_marker, Depth)
  BY <1>1, TopFacts
<1>3. /\ frames' \in Seq(Frame) /\ Depth' = Depth
      /\ \A i \in 1 .. Depth : /\ i # Depth => frames'[i] = frames[i]
                              /\ frames'[i].f = frames[i].f
                              /\ frames'[i].size = frames[i].size
                              /\ frames'[i].marker = frames[i].marker
  BY <1>1, FramesFacts, ReturnedFacts DEF Depth
<1>4. Prefix(Depth)
  BY <1>2, <1>3 DEF Prefix
<1>5. TypeOK'
  BY <1>1, <1>3, PopCallFacts DEF TypeOK, heap, captures
<1> HIDE DEF IInv
<1>6. Balance'
  BY <1>1, <1>2, <1>3, <1>4, <1>5, BackStep
<1> QED
  BY <1>5, <1>6 DEF IInv, Balance

LEMMA ConstructStep ==
    ASSUME IInv, Construct
    PROVE  IInv'
<1> USE DEF IInv
<1>1. /\ Depth > 0 /\ Top.f = "eval" /\ Top.at = "args"
      /\ frames' = Returned(frames) /\ call_stack' = PopCall /\ unpaired' = TRUE
      /\ UNCHANGED <<scopes, heap, main_env, captures, last_try_marker, throws>>
  BY DEF Construct, At
<1>2. /\ Depth \in Nat /\ Depth \in 1 .. Depth /\ Depth > 1
      /\ Top = frames[Depth] /\ Top.f # "try" /\ Len(scopes) = Top.size + 1
      /\ InnerTry(last_try_marker, Depth)
  BY <1>1, TopFacts
<1>3. /\ frames' \in Seq(Frame) /\ Depth' = Depth
      /\ \A i \in 1 .. Depth : /\ i # Depth => frames'[i] = frames[i]
                              /\ frames'[i].f = frames[i].f
                              /\ frames'[i].size = frames[i].size
                              /\ frames'[i].marker = frames[i].marker
  BY <1>1, FramesFacts, ReturnedFacts DEF Depth
<1>4. frames'[Depth].at = "done" /\ frames[Depth].at = "args"
  BY <1>1, <1>2, FramesFacts, ReturnedFields
<1>5. Prefix(Depth)
  BY <1>2, <1>3, <1>4 DEF Prefix
<1>6. TypeOK'
  BY <1>1, <1>3, PopCallFacts DEF TypeOK, heap, captures
<1> HIDE DEF IInv
<1>7. Balance'
  BY <1>1, <1>2, <1>3, <1>5, <1>6, BackStep
<1> QED
  BY <1>6, <1>7 DEF IInv, Balance

LEMMA CallTryStep ==
    ASSUME IInv, NEW c \in Cells, Try(c)
    PROVE  IInv'
<1> USE DEF IInv
<1> DEFINE n == Len(scopes)
           try == [NewFrame("try", "body", Top.env, n) EXCEPT !.marker = last_try_marker]
           nf == NewFrame("eval", "args", Top.env, n)
           q == Calling(c, "called")
           s == Saved(scopes, {c})
<1>1. /\ Depth > 0 /\ Top.f = "eval" /\ Depth + 1 < MaxFrames
      /\ alive' = alive \cup {c}
      /\ up' = [up EXCEPT ![c] = call_stack]
      /\ call_stack' = c
      /\ last_try_marker' = Depth + 1
      /\ UNCHANGED <<main_env, captures, throws, unpaired>>
  BY DEF Try, PushCall, At
<1>2. frames' = q \o <<try, nf>> /\ scopes' = Append(s, {})
  BY DEF Try
<1>3. /\ Depth \in Nat /\ Depth \in 1 .. Depth /\ Depth > 1
      /\ Top = frames[Depth] /\ Top \in Frame /\ Top.size \in Nat
      /\ n = Top.size + 1 /\ n \in Nat
      /\ InnerTry(last_try_marker, Depth)
  BY <1>1, TopFacts
<1>4. /\ try \in Frame /\ try.f = "try" /\ try.at = "body" /\ try.size = n
      /\ try.marker = last_try_marker
  <2>1. last_try_marker \in Nat /\ Top.env \in Refs
    BY <1>3, FramesFacts, FrameFields DEF TypeOK
  <2> HIDE DEF n
  <2> QED
    BY <1>3, <2>1, InterpAssumption DEF Frame, NewFrame, Refs
<1>5. nf \in Frame /\ nf.f = "eval" /\ nf.size = n
  BY <1>3, FrameFields, NewFrameFacts
<1>6. /\ q \in Seq(Frame) /\ Len(q) = Depth
      /\ \A i \in 1 .. Depth : /\ i # Depth => q[i] = frames[i]
                              /\ q[i].f = frames[i].f /\ q[i].size = frames[i].size
                              /\ q[i].marker = frames[i].marker
  BY <1>1, CallingFacts
<1>7. s \in Seq(SUBSET Cells) /\ Len(s) = n
  <2>1. {c} \in SUBSET Refs
    BY DEF Refs
  <2> QED
    BY <2>1, FramesFacts, SavedFacts
<1> HIDE DEF n, try, nf, q, s
<1>8. /\ frames' \in Seq(Frame) /\ Depth' = Depth + 2
      /\ frames'[Depth + 1] = try /\ frames'[Depth + 2] = nf
      /\ \A i \in 1 .. Depth : frames'[i] = q[i]
  <2>1. Depth' = Len(frames')
    BY DEF Depth
  <2> QED
    BY <1>2, <1>3, <1>4, <1>5, <1>6, <2>1, TwoMoreFacts
<1>9. scopes' \in Seq(SUBSET Cells) /\ Len(scopes') = n + 1
  BY <1>2, <1>3, <1>7
<1>10. TypeOK'
  <2>1. last_try_marker' \in 0 .. Depth' /\ Depth' <= MaxFrames
    BY <1>1, <1>3, <1>8, FramesFacts
  <2> QED
    BY <1>1, <1>8, <1>9, <2>1 DEF TypeOK, captures, Refs
<1>11. Prefix(Depth)
  BY <1>3, <1>6, <1>8 DEF Prefix
<1>12. n = frames[Depth].size + 1 /\ Len(scopes') = frames[Depth].size + 2
  BY <1>3, <1>9
<1> HIDE DEF IInv
<1>13. Balance'
  BY <1>1, <1>3, <1>4, <1>5, <1>8, <1>10, <1>11, <1>12, TryStep
<1> QED
  BY <1>10, <1>13 DEF IInv, Balance

(* A throw: back to the frame of the innermost try, whose handler is       *)
(* evaluated on top of all the scopes it jumped out of.                    *)
LEMMA ThrowStep ==
    ASSUME IInv, NEW c \in Cells, Throw(c)
    PROVE  IInv'
<1> USE DEF IInv
<1> DEFINE m == last_try_marker
           n == Len(scopes)
           p == SubSeq(frames, 1, m)
           fr == [frames[m] EXCEPT !.at = "catch"]
           q == [p EXCEPT ![m] = fr]
           nf == NewFrame("eval", "args", frames[m].env, n + 1)
           s == Saved(scopes, {c})
<1>1. /\ Depth > 0 /\ throws < MaxThrows /\ m > 1 /\ m < MaxFrames
      /\ alive' = alive \cup {c}
      /\ up' = [up EXCEPT ![c] = call_stack]
      /\ call_stack' = c
      /\ throws' = throws + 1
      /\ UNCHANGED <<main_env, captures, last_try_marker, unpaired>>
  BY DEF Throw, PushCall, At
<1>2. /\ Depth \in Nat /\ Depth \in 1 .. Depth
      /\ Top = frames[Depth] /\ Top.size \in Nat
      /\ n = Top.size + 1 /\ n \in Nat /\ n + 1 \in Nat
      /\ InnerTry(m, Depth)
  BY <1>1, TopFacts
<1>3. m \in 1 .. Depth /\ m \in Nat /\ m <= Depth /\ frames[m].f = "try"
      /\ frames[m] \in Frame /\ InnerTry(m, m)
  BY <1>2, FramesFacts DEF InnerTry
<1>4. p \in Seq(Frame) /\ Len(p) = m /\ \A i \in 1 .. m : p[i] = frames[i]
  BY <1>3, FramesFacts, PrefixFacts
<1>5. scopes' = s \o <<{}, {}>>
  BY DEF Throw
<1>6. frames' = Append([p EXCEPT ![m].at = "catch"], nf)
  BY DEF Throw
<1>7. m \in 1 .. Len(p) /\ p[m] = frames[m]
  BY <1>3, <1>4
<1>8. [p EXCEPT ![m].at = "catch"] = q
  BY <1>7
<1>9. /\ fr \in Frame /\ fr.f = frames[m].f /\ fr.size = frames[m].size
      /\ fr.marker = frames[m].marker /\ fr.at = "catch"
  BY <1>3 DEF Frame
<1>10. nf \in Frame /\ nf.f = "eval" /\ nf.size = n + 1
  BY <1>2, <1>3, FrameFields, NewFrameFacts
<1>11. s \in Seq(SUBSET Cells) /\ Len(s) = n
  <2>1. {c} \in SUBSET Refs
    BY DEF Refs
  <2> QED
    BY <2>1, FramesFacts, SavedFacts
<1> HIDE DEF n, p, fr, nf, s
<1>12. q \in Seq(Frame) /\ Len(q) = m /\ q[m] = fr
      /\ \A i \in 1 .. m : i # m => q[i] = frames[i]
  BY <1>4, <1>7, <1>9, UpdatedFacts
<1> HIDE DEF q
<1>13. /\ frames' \in Seq(Frame) /\ Depth' = m + 1 /\ frames'[m + 1] = nf
       /\ \A i \in 1 .. m : frames'[i] = q[i]
  <2>1. frames' = Append(q, nf)
    BY <1>6, <1>8
  <2> HIDE DEF m
  <2> QED
    BY <1>3, <1>10, <1>12, <2>1 DEF Depth
<1>14. scopes' \in Seq(SUBSET Cells) /\ Len(scopes') = n + 2
  <2>1. <<{}, {}>> \in Seq(SUBSET Cells) /\ Len(<<{}, {}>>) = 2
    OBVIOUS
  <2> QED
    BY <1>2, <1>5, <1>11, <2>1
<1>15. TypeOK'
  <2>1. last_try_marker' \in 0 .. Depth' /\ Depth' <= MaxFrames
    BY <1>1, <1>3, <1>13, FramesFacts
  <2> QED
    BY <1>1, <1>13, <1>14, <2>1, FramesFacts DEF TypeOK, captures, Refs
<1>16. Prefix(m)
  BY <1>3, <1>9, <1>12, <1>13 DEF Prefix
<1>17. frames[m].size <= n /\ frames[m].size \in Nat
  <2>1. frames[m].size <= Top.size
    BY <1>2, <1>3 DEF Stacked
  <2> QED
    BY <1>2, <1>3, <2>1, FrameFields
<1>18. Under(m, frames'[m], frames'[m + 1])
  <2>1. ~(m = 1) /\ fr.f = "try" /\ fr.at = "catch" /\ nf.f = "eval" /\ nf.size > fr.size
    BY <1>1, <1>2, <1>3, <1>9, <1>10, <1>17
  <2>2. frames'[m] = fr /\ frames'[m + 1] = nf
    BY <1>3, <1>12, <1>13
  <2> QED
    BY <2>1, <2>2 DEF Under
<1>19. /\ frames'[m + 1].f # "try"
       /\ frames[m].size <= frames'[m + 1].size
       /\ Len(scopes') = frames'[m + 1].size + 1
  <2>1. frames[m].size <= n + 1 /\ n + 2 = n + 1 + 1
    BY <1>2, <1>17
  <2> QED
    BY <1>10, <1>13, <1>14, <2>1
<1> HIDE DEF IInv
<1>20. Balance'
  BY <1>1, <1>3, <1>13, <1>15, <1>16, <1>18, <1>19, CallStep
<1> QED
  BY <1>15, <1>20 DEF IInv, Balance
-----------------------------------------------------------------------------
(* An evaluation returns its value to a list, which may extend its         *)
(* environment.                                                            *)
LEMMA RebasedFacts ==
    ASSUME TypeOK, NEW base \in Refs
    PROVE  Rebased(base) \in Refs /\ RebasedUp(base) \in [Cells -> Refs]
  BY DEF TypeOK, Rebased, RebasedUp

LEMMA ReturnToListStep ==
    ASSUME IInv, ReturnToList
    PROVE  IInv'
<1> USE DEF IInv
<1> DEFINE n == Depth - 1
           base == frames[n].env
           p == Popped(frames)
           fr == [frames[n] EXCEPT !.env = Rebased(base)]
           s == Popped(scopes)
<1>1. /\ Depth > 0 /\ Top.f = "eval" /\ frames[n].f = "list"
      /\ up' = RebasedUp(base)
      /\ scopes' = Saved(s, KeptByList(Rebased(base)))
      /\ UNCHANGED <<alive, main_env, call_stack, captures, last_try_marker, throws, unpaired>>
  BY DEF ReturnToList, EvalReturn, At
<1>2. /\ Depth \in Nat /\ Depth > 1 /\ n \in 1 .. Depth /\ n \in Nat
      /\ Top.size \in Nat /\ Len(scopes) = Top.size + 1
      /\ InnerTry(last_try_marker, n)
      /\ Under(n, frames[n], Top)
  BY <1>1, TopFacts
<1>3. frames[n] \in Frame /\ frames[n].size \in Nat /\ base \in Refs
  BY <1>2, FramesFacts, FrameFields
<1>4. n > 1 /\ Top.size = frames[n].size + 1
  <2>1. n # 1
    BY <1>1, <1>2 DEF Stacked
  <2> QED
    BY <1>1, <1>2, <2>1 DEF Under
<1>5. p \in Seq(Frame) /\ Len(p) = n /\ \A i \in 1 .. n : p[i] = frames[i]
  <2>1. frames \in Seq(Frame) /\ Len(frames) > 0 /\ n = Len(frames) - 1
    BY <1>2, FramesFacts
  <2> HIDE DEF n
  <2> QED
    BY <2>1, PoppedFacts
<1>6. frames' = [p EXCEPT ![n] = fr]
  <2>1. n \in 1 .. Len(p) /\ p[n] = frames[n]
    BY <1>2, <1>5
  <2> QED
    BY <2>1 DEF ReturnToList
<1>7. Rebased(base) \in Refs /\ RebasedUp(base) \in [Cells -> Refs]
  BY <1>3, RebasedFacts
<1>8. /\ fr \in Frame /\ fr.f = frames[n].f /\ fr.size = frames[n].size
      /\ fr.marker = frames[n].marker
  BY <1>3, <1>7 DEF Frame
<1>9. s \in Seq(SUBSET Cells) /\ Len(s) = Top.size
  BY <1>2, FramesFacts, PoppedFacts
<1>10. scopes' \in Seq(SUBSET Cells) /\ Len(scopes') = frames[n].size + 1
  <2>1. KeptByList(Rebased(base)) \in SUBSET Refs
    BY <1>7 DEF KeptByList
  <2> QED
    BY <1>1, <1>4, <1>9, <2>1, SavedFacts
<1> HIDE DEF fr, p, s, base
<1>11. /\ frames' \in Seq(Frame) /\ Depth' = n
       /\ \A i \in 1 .. n : frames'[i] = IF i = n THEN fr ELSE frames[i]
  BY <1>2, <1>5, <1>6, <1>8, UpdatedFacts DEF Depth
<1>12. TypeOK'
  <2>1. last_try_marker' \in 0 .. Depth' /\ Depth' <= MaxFrames
    BY <1>1, <1>2, <1>11, FramesFacts DEF InnerTry, TypeOK
  <2> QED
    BY <1>1, <1>7, <1>10, <1>11, <2>1 DEF TypeOK, captures
<1>13. Prefix(n)
  BY <1>2, <1>8, <1>11 DEF Prefix
<1> HIDE DEF IInv
<1>14. Balance'
  BY <1>1, <1>2, <1>4, <1>10, <1>11, <1>12, <1>13, BackStep
<1> QED
  BY <1>12, <1>14 DEF IInv, Balance

LEMMA ReturnToEvalStep ==
    ASSUME IInv, ReturnToEval
    PROVE  IInv'
<1> USE DEF IInv
<1> DEFINE n == Depth - 1
           p == Popped(frames)
           fr == [frames[n] EXCEPT !.at = "bind"]
<1>1. /\ Depth > 0 /\ Top.f = "eval" /\ frames[n].f = "eval"
      /\ scopes' = Popped(scopes)
      /\ UNCHANGED <<heap, main_env, call_stack, captures, last_try_marker, throws, unpaired>>
  BY DEF ReturnToEval, EvalReturn, At
<1>2. /\ Depth \in Nat /\ Depth > 1 /\ n \in 1 .. Depth /\ n \in Nat
      /\ Top.size \in Nat /\ Len(scopes) = Top.size + 1
      /\ InnerTry(last_try_marker, n)
      /\ Under(n, frames[n], Top)
  BY <1>1, TopFacts
<1>3. frames[n] \in Frame /\ frames[n].size \in Nat
  BY <1>2, FramesFacts, FrameFields
<1>4. n > 1 /\ Top.size = frames[n].size + 1
  <2>1. n # 1
    BY <1>1, <1>2 DEF Stacked
  <2> QED
    BY <1>1, <1>2, <2>1 DEF Under
<1>5. p \in Seq(Frame) /\ Len(p) = n /\ \A i \in 1 .. n : p[i] = frames[i]
  <2>1. frames \in Seq(Frame) /\ Len(frames) > 0 /\ n = Len(frames) - 1
    BY <1>2, FramesFacts
  <2> HIDE DEF n
  <2> QED
    BY <2>1, PoppedFacts
<1>6. frames' = [p EXCEPT ![n] = fr] \/ frames' = p
  <2>1. n \in 1 .. Len(p) /\ p[n] = frames[n]
    BY <1>2, <1>5
  <2> QED
    BY <2>1 DEF ReturnToEval
<1>7. /\ fr \in Frame /\ fr.f = frames[n].f /\ fr.size = frames[n].size
      /\ fr.marker = frames[n].marker
  BY <1>3 DEF Frame
<1>8. scopes' \in Seq(SUBSET Cells) /\ Len(scopes') = frames[n].size + 1
  BY <1>1, <1>2, <1>4, FramesFacts, PoppedFacts
<1> HIDE DEF fr, p
<1>9. /\ frames' \in Seq(Frame) /\ Depth' = n
      /\ \A i \in 1 .. n : frames'[i] = frames[i] \/ (i = n /\ frames'[i] = fr)
  <2>1. CASE frames' = p
    BY <1>5, <2>1 DEF Depth
  <2>2. CASE frames' = [p EXCEPT ![n] = fr]
    BY <1>2, <1>5, <1>7, <2>2, UpdatedFacts DEF Depth
  <2> QED
    BY <1>6, <2>1, <2>2
<1>10. TypeOK'
  <2>1. last_try_marker' \in 0 .. Depth' /\ Depth' <= MaxFrames
    BY <1>1, <1>2, <1>9, FramesFacts DEF InnerTry, TypeOK
  <2> QED
    BY <1>1, <1>8, <1>9, <2>1 DEF TypeOK, captures, heap
<1>11. Prefix(n)
  BY <1>2, <1>7, <1>9 DEF Prefix
<1> HIDE DEF IInv
<1>12. Balance'
  BY <1>1, <1>2, <1>4, <1>8, <1>9, <1>10, <1>11, BackStep
<1> QED
  BY <1>10, <1>12 DEF IInv, Balance

(* A try is over, its handler evaluated or not: two frames go, and with    *)
(* them every scope since the try was called.                              *)
LEMMA ReturnToTryStep ==
    ASSUME IInv, ReturnToTry
    PROVE  IInv'
<1> USE DEF IInv
<1> DEFINE k == Depth - 1
           n == Depth - 2
           try == frames[k]
           p == SubSeq(frames, 1, n)
           s == Popped(scopes)
<1>1. /\ Depth > 0 /\ Top.f = "eval" /\ try.f = "try"
      /\ scopes' = Unwound(try, s)
      /\ last_try_marker' = try.marker
      /\ frames' = Returned(p) /\ call_stack' = PopCall
      /\ UNCHANGED <<heap, main_env, captures, throws, unpaired>>
  BY DEF ReturnToTry, EvalReturn, At, MarkerAfter
<1>2. /\ Depth \in Nat /\ Depth > 1 /\ k \in 1 .. Depth
      /\ Top.size \in Nat /\ Len(scopes) = Top.size + 1
      /\ Under(k, try, Top)
  BY <1>1, TopFacts
<1>3. k > 1 /\ k \in Nat /\ n \in 1 .. Depth /\ n \in Nat /\ k = n + 1
  <2>1. k # 1
    BY <1>1, <1>2 DEF Under
  <2> QED
    BY <1>2, <2>1
<1>4. /\ Under(n, frames[n], try) /\ InnerTry(try.marker, n)
      /\ try.size \in Nat /\ frames[n].size \in Nat
      /\ try.marker \in Nat
  <2>1. Under(n, frames[n], try)
    BY <1>2, <1>3 DEF Stacked
  <2>2. InnerTry(try.marker, k - 1) /\ k - 1 = n
    BY <1>1, <1>2, <1>3 DEF MarkersChain
  <2>3. frames[k] \in Frame /\ frames[n] \in Frame
    BY <1>2, <1>3, FramesFacts
  <2> QED
    BY <2>1, <2>2, <2>3, FrameFields
<1>5. frames[n].f = "eval" /\ n > 1 /\ try.size = frames[n].size + 1
  <2>1. frames[n].f \in {"eval", "list", "try"}
    BY <1>3, FramesFacts, FrameFields
  <2>2. frames[n].f = "eval"
    BY <1>1, <1>4, <2>1 DEF Under
  <2>3. n # 1
    BY <1>2, <2>2 DEF Stacked
  <2>4. try.size = frames[n].size + 1
    BY <1>4, <2>2 DEF Under
  <2>5. n > 1
    <3>1. n \in Nat /\ n >= 1 /\ n # 1
      BY <1>2, <1>3, <2>3
    <3> HIDE DEF n
    <3> QED
      BY <3>1
  <2> QED
    BY <2>2, <2>4, <2>5
<1>6. s \in Seq(SUBSET Cells) /\ Len(s) = Top.size
  BY <1>2, FramesFacts, PoppedFacts
<1>7. scopes' \in Seq(SUBSET Cells) /\ Len(scopes') = frames[n].size + 1
  <2>1. CASE try.at # "catch"
    <3>1. Top.size = try.size
      BY <1>1, <1>2, <2>1 DEF Under
    <3> QED
      BY <1>1, <1>5, <1>6, <2>1, <3>1 DEF Unwound
  <2>2. CASE try.at = "catch"
    <3> DEFINE t == try.size
    <3>1. t < Top.size /\ t \in Nat /\ Top.size \in Nat
      BY <1>1, <1>2, <1>4, <2>2 DEF Under
    <3> HIDE DEF s, t
    <3>2. t <= Len(s)
      BY <1>6, <3>1
    <3>3. SubSeq(s, 1, t) \in Seq(SUBSET Cells) /\ Len(SubSeq(s, 1, t)) = t
      BY <1>6, <3>1, <3>2, PrefixFacts
    <3>4. scopes' = SubSeq(s, 1, t)
      BY <1>1, <2>2 DEF Unwound, t
    <3> QED
      BY <1>5, <3>3, <3>4 DEF t
  <2> QED
    BY <2>1, <2>2
<1>8. p \in Seq(Frame) /\ Len(p) = n /\ \A i \in 1 .. n : p[i] = frames[i]
  BY <1>3, FramesFacts, PrefixFacts
<1> HIDE DEF p, s
<1>9. /\ frames' \in Seq(Frame) /\ Depth' = n
      /\ \A i \in 1 .. n : /\ i # n => frames'[i] = frames[i]
                          /\ frames'[i].f = frames[i].f
                          /\ frames'[i].size = frames[i].size
                          /\ frames'[i].marker = frames[i].marker
  <2>1. frames' = Returned(p) /\ n > 0 /\ Depth' = Len(frames')
    BY <1>1, <1>3 DEF Depth
  <2> HIDE DEF n
  <2> QED
    BY <1>8, <2>1, ReturnedFacts
<1>10. TypeOK'
  <2>1. last_try_marker' \in 0 .. Depth'
    BY <1>1, <1>3, <1>4, <1>9 DEF InnerTry
  <2>2. Depth' <= MaxFrames
    BY <1>2, <1>3, <1>9, FramesFacts DEF TypeOK
  <2> QED
    BY <1>1, <1>7, <1>9, <2>1, <2>2, PopCallFacts DEF TypeOK, captures, heap
<1>11. Prefix(n)
  BY <1>3, <1>9 DEF Prefix
<1> HIDE DEF IInv
<1>12. Balance'
  <2>1. InnerTry(last_try_marker', n)
    BY <1>1, <1>4
  <2> QED
    BY <1>5, <1>7, <1>9, <1>10, <1>11, <2>1, BackStep
<1> QED
  BY <1>10, <1>12 DEF IInv, Balance

(* The body of a lambda is over.                                           *)
LEMMA ReturnToCallStep ==
    ASSUME IInv, ReturnToCall
    PROVE  IInv'
<1> USE DEF IInv
<1> DEFINE n == Depth - 1
           p == Popped(frames)
<1>1. /\ Depth > 2 /\ Top.f = "list"
      /\ env_capture_head' = Top.head /\ env_capture_tail' = Top.tail
      /\ frames' = Returned(p) /\ scopes' = Popped(scopes) /\ call_stack' = PopCall
      /\ UNCHANGED <<heap, throws, unpaired, main_env, last_try_marker>>
  BY DEF ReturnToCall, ListDone, CapturesBack, At
<1>2. /\ Depth \in Nat /\ Depth > 1 /\ n \in 1 .. Depth /\ n \in Nat
      /\ Top.size \in Nat /\ Len(scopes) = Top.size + 1 /\ Top \in Frame
      /\ InnerTry(last_try_marker, n)
      /\ Under(n, frames[n], Top)
  <2>1. Depth > 0
    BY <1>1, FramesFacts
  <2> QED
    BY <2>1, TopFacts
<1>3. /\ frames[n].f = "eval" /\ n > 1 /\ Top.size = frames[n].size + 1
      /\ frames[n].size \in Nat /\ Top.head \in Refs /\ Top.tail \in Refs
  <2>1. n > 1 /\ n # 1
    BY <1>1, <1>2
  <2>2. frames[n].f \in {"eval", "list", "try"} /\ frames[n].size \in Nat
    BY <1>2, FramesFacts, FrameFields
  <2>3. frames[n].f = "eval"
    BY <1>1, <1>2, <2>1, <2>2 DEF Under
  <2>4. Top.size = frames[n].size + 1
    BY <1>2, <2>3 DEF Under
  <2>5. Top.head \in Refs /\ Top.tail \in Refs
    BY <1>2, FrameFields
  <2> QED
    BY <2>1, <2>2, <2>3, <2>4, <2>5
<1>4. p \in Seq(Frame) /\ Len(p) = n /\ \A i \in 1 .. n : p[i] = frames[i]
  <2>1. frames \in Seq(Frame) /\ Len(frames) > 0 /\ n = Len(frames) - 1
    BY <1>2, FramesFacts
  <2> HIDE DEF n
  <2> QED
    BY <2>1, PoppedFacts
<1> HIDE DEF p
<1>5. /\ frames' \in Seq(Frame) /\ Depth' = n
      /\ \A i \in 1 .. n : /\ i # n => frames'[i] = frames[i]
                          /\ frames'[i].f = frames[i].f
                          /\ frames'[i].size = frames[i].size
                          /\ frames'[i].marker = frames[i].marker
  <2>1. frames' = Returned(p) /\ n > 0 /\ Depth' = Len(frames')
    BY <1>1, <1>3 DEF Depth
  <2> HIDE DEF n
  <2> QED
    BY <1>4, <2>1, ReturnedFacts
<1>6. scopes' \in Seq(SUBSET Cells) /\ Len(scopes') = frames[n].size + 1
  BY <1>1, <1>2, <1>3, FramesFacts, PoppedFacts
<1>7. TypeOK'
  <2>1. last_try_marker' \in 0 .. Depth' /\ Depth' <= MaxFrames
    BY <1>1, <1>2, <1>5, FramesFacts DEF InnerTry, TypeOK
  <2> QED
    BY <1>1, <1>3, <1>5, <1>6, <2>1, PopCallFacts DEF TypeOK, heap
<1>8. Prefix(n)
  BY <1>2, <1>5 DEF Prefix
<1> HIDE DEF IInv
<1>9. Balance'
  <2>1. InnerTry(last_try_marker', n) /\ frames[n].f # "try"
    BY <1>1, <1>2, <1>3
  <2> QED
    BY <1>3, <1>5, <1>6, <1>7, <1>8, <2>1, BackStep
<1> QED
  BY <1>7, <1>9 DEF IInv, Balance

(* With no frames left there is nothing to balance.                        *)
LEMMA IdleStep ==
    ASSUME IInv, frames' = <<>>, scopes' = <<>>, last_try_marker' = 0,
           up' \in [Cells -> Refs], alive' \subseteq Cells,
           {main_env, call_stack, env_capture_head, env_capture_tail}' \subseteq Refs,
           throws' \in 0 .. MaxThrows, unpaired' \in BOOLEAN
    PROVE  IInv'
<1>1. Depth' = 0
  BY DEF Depth
<1>2. TypeOK'
  BY <1>1, FramesFacts DEF TypeOK, IInv
<1>3. Stacked' /\ ScopesBalanced' /\ MarkersChain' /\ MarkerRunning'
  BY <1>1 DEF Stacked, ScopesBalanced, MarkersChain, MarkerRunning
<1> QED
  BY <1>2, <1>3 DEF IInv

LEMMA ReturnToHostStep ==
    ASSUME IInv, ReturnToHost
    PROVE  IInv'
<1>1. /\ Depth = 2 /\ frames' = <<>> /\ scopes' = <<>> /\ last_try_marker' = 0
      /\ main_env' = Top.env
      /\ env_capture_head' = Top.head /\ env_capture_tail' = Top.tail
      /\ UNCHANGED <<heap, throws, unpaired, call_stack>>
  BY DEF ReturnToHost, ListDone, CapturesBack
<1>2. Top.env \in Refs /\ Top.head \in Refs /\ Top.tail \in Refs
  <2>1. Top \in Frame
    BY <1>1, FramesFacts DEF IInv
  <2> QED
    BY <2>1, FrameFields
<1>3. /\ up' \in [Cells -> Refs] /\ alive' \subseteq Cells /\ throws' \in 0 .. MaxThrows
      /\ unpaired' \in BOOLEAN
      /\ {main_env, call_stack, env_capture_head, env_capture_tail}' \subseteq Refs
  BY <1>1, <1>2 DEF IInv, TypeOK, heap
<1> QED
  BY <1>1, <1>3, IdleStep

LEMMA ExitStep ==
    ASSUME IInv, Exit, throws' \in 0 .. MaxThrows
    PROVE  IInv'
<1>1. /\ up' \in [Cells -> Refs] /\ alive' \subseteq Cells /\ unpaired' \in BOOLEAN
      /\ {main_env, call_stack, env_capture_head, env_capture_tail}' \subseteq Refs
  BY DEF Exit, Refs
<1> QED
  BY <1>1, IdleStep DEF Exit

LEMMA CollectStep ==
    ASSUME IInv, Collect
    PROVE  IInv'
<1> USE DEF IInv
<1>1. /\ alive' = alive \cap Collected
      /\ up' = [c \in Cells |-> IF c \in alive' THEN up[c] ELSE NULL]
      /\ UNCHANGED <<frames, scopes, main_env, call_stack, captures, last_try_marker, throws, unpaired>>
  BY DEF Collect
<1>2. Depth' = Depth /\ (Depth > 0 => Top' = Top)
  BY <1>1 DEF Depth, Top
<1>3. TypeOK'
  BY <1>1, <1>2 DEF TypeOK, captures, Refs
<1>4. Stacked' /\ ScopesBalanced' /\ MarkersChain' /\ MarkerRunning'
  BY <1>1, <1>2 DEF Stacked, ScopesBalanced, MarkersChain, MarkerRunning, InnerTry
<1> QED
  BY <1>3, <1>4
-----------------------------------------------------------------------------
LEMMA InitIInv == Init => IInv
<1> SUFFICES ASSUME Init PROVE IInv
  OBVIOUS
<1>1. Depth = 0
  BY DEF Init, Depth
<1>2. TypeOK
  <2>1. unpaired \in BOOLEAN
    BY Zenon DEF Init
  <2> QED
    BY <1>1, <2>1, InterpAssumption DEF Init, TypeOK, Refs
<1>3. Stacked /\ ScopesBalanced /\ MarkersChain /\ MarkerRunning
  BY <1>1 DEF Init, Stacked, ScopesBalanced, MarkersChain, MarkerRunning
<1> QED
  BY <1>2, <1>3 DEF IInv

LEMMA NextIInv ==
    ASSUME IInv, [Next]_vars
    PROVE  IInv'
<1>1. CASE EvalForms
  BY <1>1, EvalFormsStep
<1>2. CASE Form
  BY <1>2, FormStep
<1>3. CASE EvalArg
  BY <1>3, EvalArgStep
<1>4. CASE Collect
  BY <1>4, CollectStep
<1>5. ASSUME NEW c \in Cells, NEW e \in Cells, NEW env \in Refs, CallLambda(c, e, env)
      PROVE  IInv'
  BY <1>5, CallLambdaStep
<1>6. ASSUME NEW c \in Cells, Def(c) PROVE IInv'
  BY <1>6, DefStep
<1>7. ASSUME NEW c \in Cells, Try(c) PROVE IInv'
  BY <1>7, CallTryStep
<1>8. ASSUME NEW c \in Cells, Throw(c) PROVE IInv'
  BY <1>8, ThrowStep
<1>9. ASSUME NEW e \in Cells, Bind(e) PROVE IInv'
  BY <1>9, BindStep
<1>10. CASE DefDone
  BY <1>10, DefDoneStep
<1>11. CASE Uncaught
  <2>1. throws' \in 0 .. MaxThrows
    BY <1>11, FramesFacts DEF Uncaught, IInv, TypeOK
  <2> QED
    BY <1>11, <2>1, ExitStep DEF Uncaught
<1>12. CASE OutOfMemory
  <2>1. throws' \in 0 .. MaxThrows
    BY <1>12 DEF OutOfMemory, IInv, TypeOK
  <2> QED
    BY <1>12, <2>1, ExitStep DEF OutOfMemory
<1>13. CASE ReturnToList
  BY <1>13, ReturnToListStep
<1>14. CASE ReturnToEval
  BY <1>14, ReturnToEvalStep
<1>15. CASE ReturnToTry
  BY <1>15, ReturnToTryStep
<1>16. CASE ReturnToCall
  BY <1>16, ReturnToCallStep
<1>17. CASE ReturnToHost
  BY <1>17, ReturnToHostStep
<1>19. CASE Construct
  BY <1>19, ConstructStep
<1>18. CASE UNCHANGED vars
  <2>1. /\ UNCHANGED <<frames, scopes, up, alive, main_env, call_stack, captures,
                       last_try_marker, throws, unpaired>>
        /\ Depth' = Depth /\ (Depth > 0 => Top' = Top)
    BY <1>18 DEF vars, heap, Depth, Top
  <2>2. TypeOK'
    BY <2>1 DEF IInv, TypeOK, captures
  <2>3. Stacked' /\ ScopesBalanced' /\ MarkersChain' /\ MarkerRunning'
    BY <2>1 DEF IInv, Stacked, ScopesBalanced, MarkersChain, MarkerRunning, InnerTry
  <2> QED
    BY <2>2, <2>3 DEF IInv
<1> QED
  BY <1>1, <1>2, <1>3, <1>4, <1>5, <1>6, <1>7, <1>8, <1>9, <1>10, <1>11, <1>12,
     <1>13, <1>14, <1>15, <1>16, <1>17, <1>18, <1>19 DEF Next

(* The inductive invariant of the evaluator's control.                     *)
THEOREM Invariance == Spec => []IInv
<1>1. IInv /\ [Next]_vars => IInv'
  BY NextIInv
<1> QED
  BY <1>1, InitIInv, PTL DEF Spec

(* Every frame, scope and register of the evaluator keeps its type.        *)
THEOREM TypeCorrect == Spec => []TypeOK
<1>1. IInv => TypeOK
  BY DEF IInv
<1> QED
  BY <1>1, Invariance, PTL

(* However deep evaluations and tries nest and whatever is thrown: back in *)
(* a form or a list, the scope stack is as high as when it was entered     *)
(* (try.c:50).                                                             *)
THEOREM ScopesComeBack == Spec => []ScopesBalanced
<1>1. IInv => ScopesBalanced
  BY DEF IInv
<1> QED
  BY <1>1, Invariance, PTL

(* A throw never jumps to the frame of a try that has returned.            *)
THEOREM JumpsToRunningTry == Spec => []MarkerRunning
<1>1. IInv => MarkerRunning
  BY DEF IInv
<1> QED
  BY <1>1, Invariance, PTL
-----------------------------------------------------------------------------
(***************************************************************************)
(* Memory.  A def is not the argument of another form (NestedDef is        *)
(* FALSE); for a def that is, see CapturesAlive in the README.             *)
(***************************************************************************)

\* The chain back from x where u is the pointer to the one before.
BackOf(u, x) == Reach([c \in Cells |-> {u[c]} \ {NULL}], {x} \ {NULL}, Cells)

\* The scopes below a frame's callees: what they hold outlives it.
Own(fr) == IF fr.f = "try" THEN fr.size ELSE fr.size + 1

\* x is a root of the collector, in the first n scopes if in any.
Kept(x, n) == x = NULL \/ x = main_env \/ \E k \in 1 .. n : x \in scopes[k]

Rooted ==
    /\ \A k \in 1 .. Len(scopes) : scopes[k] \subseteq alive
    /\ BackOf(up, main_env) \subseteq alive
    /\ \A i \in 1 .. Depth : /\ BackOf(up, frames[i].env) \subseteq alive
                             /\ Kept(frames[i].env, Own(frames[i]))

\* A form that has an entry on the call stack has saved it in its scope.
CallOf(i) ==
    /\ frames[i].call # NULL =>
           /\ frames[i].f = "eval" /\ frames[i].at \in {"called", "def", "bind"}
           /\ frames[i].call \in scopes[frames[i].size + 1]
    /\ frames[i].f = "eval" /\ frames[i].at \in {"def", "bind"} =>
           frames[i].call # NULL /\ frames[i - 1].f = "list"
    /\ frames[i].f = "eval" /\ i < Depth /\ frames[i + 1].f # "eval" =>
           frames[i].call # NULL

Calls == \A i \in 1 .. Depth : CallOf(i)

\* The form on top is one of a list, which its bindings will be handed to.
Building ==
    /\ Depth > 1 /\ Top.f = "eval" /\ Top.at \in {"bind", "done"}
    /\ frames[Depth - 1].f = "list"

\* The captures are the chain of the bindings in D, which the top scope saves.
Captures(D) ==
    /\ env_capture_head = NULL <=> D = {}
    /\ env_capture_tail = NULL <=> D = {}
    /\ {env_capture_head, env_capture_tail} \ {NULL} \subseteq D
    /\ BackOf(up, env_capture_head) = D
    /\ D \subseteq scopes[Len(scopes)]
    /\ \A i \in 1 .. Depth : frames[i].call \notin D

NoneCaptured == env_capture_head = NULL /\ env_capture_tail = NULL

\* No captures survive anywhere but on their way to the list.
Captured ==
    /\ \A i \in 1 .. Depth :
           frames[i].f = "list" => frames[i].head = NULL /\ frames[i].tail = NULL
    /\ \A i \in 1 .. Depth - 1 :
           frames[i].f = "list" => frames[i].defs = {} \/ (i = Depth - 1 /\ Building)
    /\ Building => Captures(frames[Depth - 1].defs)
    /\ Depth = 0 => NoneCaptured
    /\ Depth > 0 /\ Top.f = "eval" /\ ~Building => NoneCaptured

\* StackTraceOrdered and StackTraceExact, in whatever place control is.
InOrder ==
    /\ OuterCall(frames, call_stack, Depth)
    /\ \A i \in 1 .. Depth :
           frames[i].call # NULL => OuterCall(frames, up[frames[i].call], i - 1)

Exact ==
    /\ InnerCall(frames, call_stack, Depth)
    /\ \A i \in 1 .. Depth :
           frames[i].call # NULL => InnerCall(frames, up[frames[i].call], i - 1)

Trace == throws = 0 => InOrder /\ (~unpaired => Exact)

MInv == Rooted /\ Calls /\ Captured /\ Trace
-----------------------------------------------------------------------------
(* A chain leads from x over the pointers, and no further.                 *)
LEMMA BackOfFacts ==
    ASSUME NEW u \in [Cells -> Refs], NEW x \in Refs
    PROVE  /\ BackOf(u, x) \subseteq Cells
           /\ x # NULL => x \in BackOf(u, x)
           /\ \A y \in BackOf(u, x) : u[y] # NULL => u[y] \in BackOf(u, x)
           /\ BackOf(u, NULL) = {}
<1> DEFINE ch == [c \in Cells |-> {u[c]} \ {NULL}]
<1>1. /\ BackOf(u, x) \subseteq Cells /\ ({x} \ {NULL}) \cap Cells \subseteq BackOf(u, x)
      /\ Closed(ch, BackOf(u, x), Cells)
  BY ReachRoots, ReachClosed DEF BackOf
<1>2. x # NULL => x \in BackOf(u, x)
  BY <1>1 DEF Refs
<1>3. ASSUME NEW y \in BackOf(u, x), u[y] # NULL
      PROVE  u[y] \in BackOf(u, x)
  <2>1. y \in Cells /\ ch[y] = {u[y]} \ {NULL} /\ u[y] \in Cells
    BY <1>1, <1>3 DEF Refs
  <2> HIDE DEF ch
  <2> QED
    BY <1>1, <1>3, <2>1 DEF Closed
<1>4. BackOf(u, NULL) \subseteq {}
  <2>1. ({NULL} \ {NULL}) \cap Cells \subseteq {} /\ Closed(ch, {}, Cells)
    BY DEF Closed
  <2> QED
    BY <2>1, ReachLeast DEF BackOf
<1> QED
  BY <1>1, <1>2, <1>3, <1>4

(* No set that holds x and follows the pointers is smaller.                *)
LEMMA BackOfLeast ==
    ASSUME NEW u \in [Cells -> Refs], NEW x \in Refs, NEW S,
           x # NULL => x \in S, \A y \in S \cap Cells : u[y] # NULL => u[y] \in S
    PROVE  BackOf(u, x) \subseteq S
<1> DEFINE ch == [c \in Cells |-> {u[c]} \ {NULL}]
           T == S \cap Cells
<1>1. ({x} \ {NULL}) \cap Cells \subseteq T
  OBVIOUS
<1>2. Closed(ch, T, Cells)
  BY DEF Closed
<1>3. BackOf(u, x) \subseteq T
  BY <1>1, <1>2, ReachLeast DEF BackOf
<1> QED
  BY <1>3

(* Back is the chain along up.                                             *)
LEMMA BackIsBackOf ==
    ASSUME NEW x
    PROVE  Back(x) = BackOf(up, x)
  BY DEF Back, Up, BackOf

(* A chain is what it was if its pointers are.                             *)
LEMMA BackOfSame ==
    ASSUME NEW u \in [Cells -> Refs], NEW v \in [Cells -> Refs], NEW x \in Refs,
           \A y \in BackOf(u, x) : v[y] = u[y]
    PROVE  BackOf(v, x) = BackOf(u, x)
<1> DEFINE U == BackOf(u, x)
           V == BackOf(v, x)
<1>1. V \subseteq U
  <2>1. /\ x # NULL => x \in U
        /\ \A y \in U \cap Cells : v[y] # NULL => v[y] \in U
    BY BackOfFacts
  <2> HIDE DEF U
  <2> QED
    BY <2>1, BackOfLeast
<1>2. U \subseteq U \cap V
  <2>1. /\ x # NULL => x \in U \cap V
        /\ \A y \in (U \cap V) \cap Cells : u[y] # NULL => u[y] \in U \cap V
    BY BackOfFacts
  <2> DEFINE S == U \cap V
  <2>2. /\ x # NULL => x \in S
        /\ \A y \in S \cap Cells : u[y] # NULL => u[y] \in S
    BY <2>1
  <2> HIDE DEF S
  <2>3. BackOf(u, x) \subseteq S
    BY <2>2, BackOfLeast
  <2> QED
    BY <2>3 DEF S
<1> QED
  BY <1>1, <1>2

(* The chain from a cell in front of a chain.                              *)
LEMMA BackOfCons ==
    ASSUME NEW u \in [Cells -> Refs], NEW x \in Cells
    PROVE  BackOf(u, x) = {x} \cup BackOf(u, u[x])
<1> DEFINE S == {x} \cup BackOf(u, u[x])
<1>1. x \in Refs /\ x # NULL /\ u[x] \in Refs
  BY InterpAssumption DEF Refs
<1>2. BackOf(u, x) \subseteq S
  <2>1. /\ x # NULL => x \in S
        /\ \A y \in S \cap Cells : u[y] # NULL => u[y] \in S
    BY <1>1, BackOfFacts
  <2> HIDE DEF S
  <2> QED
    BY <1>1, <2>1, BackOfLeast
<1>3. BackOf(u, u[x]) \subseteq BackOf(u, x)
  <2> DEFINE T == BackOf(u, x)
  <2>1. /\ u[x] # NULL => u[x] \in T
        /\ \A y \in T \cap Cells : u[y] # NULL => u[y] \in T
    BY <1>1, BackOfFacts
  <2> HIDE DEF T
  <2>2. BackOf(u, u[x]) \subseteq T
    BY <1>1, <2>1, BackOfLeast
  <2> QED
    BY <2>2 DEF T
<1>4. x \in BackOf(u, x)
  BY <1>1, BackOfFacts
<1> QED
  BY <1>2, <1>3, <1>4

(* Env_capture_rebase makes no chain longer than by the chain it rebases   *)
(* on.                                                                     *)
LEMMA BackOfRebased ==
    ASSUME NEW u \in [Cells -> Refs], NEW x \in Refs, NEW t \in Cells, NEW b \in Refs
    PROVE  BackOf([u EXCEPT ![t] = b], x) \subseteq BackOf(u, x) \cup BackOf(u, b)
<1> DEFINE v == [u EXCEPT ![t] = b]
           S == BackOf(u, x) \cup BackOf(u, b)
<1>1. v \in [Cells -> Refs] /\ \A y \in Cells : v[y] = IF y = t THEN b ELSE u[y]
  OBVIOUS
<1>2. x # NULL => x \in S
  BY BackOfFacts
<1>3. ASSUME NEW y \in S \cap Cells, v[y] # NULL
      PROVE  v[y] \in S
  BY <1>1, <1>3, BackOfFacts
<1> HIDE DEF v, S
<1>4. BackOf(v, x) \subseteq S
  BY <1>1, <1>2, <1>3, BackOfLeast
<1> QED
  BY <1>4 DEF v, S

(* What the collector finds: the saved cells and the main environment, and *)
(* all that is behind them.                                                *)
LEMMA CollectedFacts ==
    ASSUME TypeOK
    PROVE  /\ Collected \subseteq Cells
           /\ \A i \in 1 .. Len(scopes) : scopes[i] \subseteq Collected
           /\ main_env # NULL => main_env \in Collected
           /\ \A x \in Refs : (x = NULL \/ x \in Collected) => BackOf(up, x) \subseteq Collected
<1> DEFINE saved == UNION {scopes[i] : i \in DOMAIN scopes}
           roots == (saved \cup {main_env}) \ {NULL}
           C == Collected
<1>1. /\ C \subseteq Cells /\ roots \cap Cells \subseteq C /\ Closed(Up, C, Cells)
  <2>1. C = Reach(Up, roots, Cells)
    BY DEF Collected
  <2> HIDE DEF C, roots
  <2> QED
    BY <2>1, ReachRoots, ReachClosed
<1>2. /\ scopes \in Seq(SUBSET Cells) /\ main_env \in Refs /\ up \in [Cells -> Refs]
  BY DEF TypeOK
<1>3. ASSUME NEW i \in 1 .. Len(scopes)
      PROVE  scopes[i] \subseteq C
  <2>1. scopes[i] \subseteq Cells /\ i \in DOMAIN scopes
    BY <1>2
  <2>2. scopes[i] \subseteq roots
    BY <2>1, InterpAssumption
  <2> QED
    BY <1>1, <2>1, <2>2
<1>4. ASSUME main_env # NULL
      PROVE  main_env \in C
  <2>1. main_env \in roots /\ main_env \in Cells
    <3> HIDE DEF saved
    <3> QED
      BY <1>2, <1>4 DEF Refs
  <2> QED
    BY <1>1, <2>1
<1>5. ASSUME NEW y \in C, up[y] # NULL
      PROVE  up[y] \in C
  <2>1. y \in Cells /\ up[y] \in Cells /\ up[y] \in Up[y]
    BY <1>1, <1>2, <1>5 DEF Up, Refs
  <2> HIDE DEF C
  <2> QED
    BY <1>1, <2>1, <1>5 DEF Closed
<1> HIDE DEF C
<1>6. ASSUME NEW x \in Refs, x = NULL \/ x \in C
      PROVE  BackOf(up, x) \subseteq C
  BY <1>2, <1>5, <1>6, BackOfLeast
<1> QED
  BY <1>1, <1>3, <1>4, <1>6 DEF C
OwnBounds ==
    /\ \A i \in 1 .. Depth :
           /\ frames[i].size \in Nat /\ Own(frames[i]) \in Nat
           /\ Own(frames[i]) <= frames[i].size + 1
           /\ frames[i].size + 1 <= Len(scopes)
           /\ Own(frames[i]) <= Len(scopes)
    /\ Len(scopes) \in Nat /\ Depth \in Nat

(* The scopes of a frame and of what it keeps are on the stack.            *)
LEMMA OwnFacts == IInv => OwnBounds
<1> SUFFICES ASSUME IInv
             PROVE  OwnBounds
  OBVIOUS
<1>1. Len(scopes) \in Nat /\ Depth \in Nat
  BY FramesFacts DEF IInv
<1>2. ASSUME NEW i \in 1 .. Depth
      PROVE  /\ frames[i].size \in Nat /\ Own(frames[i]) \in Nat
             /\ Own(frames[i]) <= frames[i].size + 1
             /\ frames[i].size + 1 <= Len(scopes)
             /\ Own(frames[i]) <= Len(scopes)
  <2>1. frames[i].size \in Nat
    BY FramesFacts, FrameFields DEF IInv
  <2>2. /\ Len(scopes) = Top.size + 1 /\ Top = frames[Depth] /\ Top.size \in Nat
        /\ Depth \in 1 .. Depth
    BY <1>1, TopFacts
  <2>3. frames[i].size <= Top.size
    BY <1>1, <2>2 DEF IInv, Stacked
  <2>4. frames[i].size + 1 <= Len(scopes)
    BY <2>1, <2>2, <2>3
  <2>5. Own(frames[i]) \in Nat /\ Own(frames[i]) <= frames[i].size + 1
    BY <2>1 DEF Own
  <2> QED
    BY <1>1, <2>1, <2>4, <2>5
<1> QED
  BY <1>1, <1>2 DEF OwnBounds

LEMMA OwnFactsNext == IInv' => OwnBounds'
BY OwnFacts, PTL
-----------------------------------------------------------------------------
\* The first n frames stay, frame n perhaps at another place.
Shape(n) ==
    /\ n \in 0 .. Depth /\ n <= Depth'
    /\ \A i \in 1 .. n :
           /\ frames'[i].f = frames[i].f /\ frames'[i].size = frames[i].size
           /\ frames'[i].head = frames[i].head /\ frames'[i].tail = frames[i].tail
           /\ i # n => /\ frames'[i].env = frames[i].env /\ frames'[i].at = frames[i].at
                       /\ frames'[i].call = frames[i].call
                       /\ frames'[i].defs = frames[i].defs

\* Scopes come and go at the top and keep what they hold.
ScopesKept ==
    \A k \in 1 .. Len(scopes') : k <= Len(scopes) => scopes[k] \subseteq scopes'[k]

\* No chain of allocated cells is broken.
ChainsKept ==
    \A x \in Refs : BackOf(up, x) \subseteq alive => BackOf(up', x) \subseteq alive'

(* An allocation breaks none.                                              *)
LEMMA FreshKeepsChains ==
    ASSUME TypeOK, TypeOK', alive \subseteq alive', \A y \in alive : up'[y] = up[y]
    PROVE  ChainsKept
<1> SUFFICES ASSUME NEW x \in Refs, BackOf(up, x) \subseteq alive
             PROVE  BackOf(up', x) \subseteq alive'
  BY DEF ChainsKept
<1>1. up \in [Cells -> Refs] /\ up' \in [Cells -> Refs]
  BY DEF TypeOK
<1>2. BackOf(up', x) = BackOf(up, x)
  BY <1>1, BackOfSame
<1> QED
  BY <1>2

(* The environments of a frame that stays, or of a callee that shares its  *)
(* caller's, stay roots and stay allocated.                                *)
LEMMA RootedStep ==
    ASSUME IInv, IInv', Rooted, main_env' = main_env, ScopesKept, ChainsKept,
           \A k \in 1 .. Len(scopes') : scopes'[k] \subseteq alive',
           \A i \in 1 .. Depth' :
               \/ \E j \in 1 .. Depth : /\ frames'[i].env = frames[j].env
                                        /\ Own(frames[j]) <= Own(frames'[i])
               \/ /\ BackOf(up', frames'[i].env) \subseteq alive'
                  /\ Kept(frames[i].env, Own(frames[i]))'
    PROVE  Rooted'
<1>1. BackOf(up', main_env') \subseteq alive'
  BY DEF Rooted, ChainsKept, IInv, TypeOK
<1>2. ASSUME NEW i \in 1 .. Depth'
      PROVE  /\ BackOf(up', frames'[i].env) \subseteq alive'
             /\ Kept(frames[i].env, Own(frames[i]))'
  <2>1. ASSUME NEW j \in 1 .. Depth, frames'[i].env = frames[j].env,
               Own(frames[j]) <= Own(frames'[i])
        PROVE  /\ BackOf(up', frames'[i].env) \subseteq alive'
               /\ Kept(frames[i].env, Own(frames[i]))'
    <3>1. BackOf(up, frames[j].env) \subseteq alive /\ frames[j].env \in Refs
          /\ Kept(frames[j].env, Own(frames[j]))
      BY FramesFacts, FrameFields DEF Rooted, IInv
    <3>2. BackOf(up', frames'[i].env) \subseteq alive'
      BY <2>1, <3>1 DEF ChainsKept
    <3>3. /\ Own(frames[j]) \in Nat /\ Own(frames[j]) <= Len(scopes) /\ Len(scopes) \in Nat
          /\ Own(frames'[i]) \in Nat /\ Own(frames'[i]) <= Len(scopes')
          /\ Len(scopes') \in Nat
      BY OwnFacts, OwnFactsNext DEF OwnBounds
    <3>4. ASSUME NEW k \in 1 .. Own(frames[j])
          PROVE  k \in 1 .. Own(frames'[i]) /\ scopes[k] \subseteq scopes'[k]
      <4>1. k \in 1 .. Len(scopes') /\ k <= Len(scopes) /\ k \in 1 .. Own(frames'[i])
        BY <2>1, <3>3
      <4> QED
        BY <4>1 DEF ScopesKept
    <3>5. Kept(frames[i].env, Own(frames[i]))'
      BY <2>1, <3>1, <3>4 DEF Kept
    <3> QED
      BY <3>2, <3>5
  <2> QED
    BY <2>1
<1> QED
  BY <1>1, <1>2 DEF Rooted

(* The entries of the frames below n stay in their scopes.                 *)
LEMMA CallsStep ==
    ASSUME IInv, IInv', Calls, ScopesKept, NEW n, Shape(n),
           \A i \in 1 .. Depth' : i >= n => CallOf(i)'
    PROVE  Calls'
<1> SUFFICES ASSUME NEW i \in 1 .. Depth'
             PROVE  CallOf(i)'
  BY DEF Calls
<1>1. n \in Nat /\ Depth \in Nat /\ Depth' \in Nat /\ n <= Depth /\ n <= Depth'
  BY OwnFacts, OwnFactsNext DEF OwnBounds, Shape
<1>2. CASE ~(i >= n)
  <2>1. i \in 1 .. n /\ i # n /\ i + 1 \in 1 .. n /\ i < Depth /\ i < Depth' /\ i \in 1 .. Depth
    BY <1>1, <1>2
  <2>2. /\ frames'[i].f = frames[i].f /\ frames'[i].at = frames[i].at
        /\ frames'[i].call = frames[i].call /\ frames'[i].size = frames[i].size
        /\ frames'[i + 1].f = frames[i + 1].f
    BY <2>1 DEF Shape
  <2>3. CallOf(i)
    BY <2>1 DEF Calls
  <2>4. frames[i].call # NULL => frames'[i].call \in scopes'[frames'[i].size + 1]
    <3>1. frames[i].size + 1 \in 1 .. Len(scopes') /\ frames[i].size + 1 <= Len(scopes)
      BY <2>1, <2>2, OwnFacts, OwnFactsNext DEF OwnBounds
    <3> QED
      BY <2>2, <2>3, <3>1 DEF CallOf, ScopesKept
  <2>5. frames[i].f = "eval" /\ frames[i].at \in {"def", "bind"} => frames'[i - 1].f = "list"
    <3>1. ASSUME frames[i].f = "eval"
          PROVE  i - 1 \in 1 .. n
      <4>1. i # 1
        BY <1>1, <2>1, <3>1 DEF IInv, Stacked
      <4> QED
        BY <2>1, <4>1, <1>1
    <3> QED
      BY <2>3, <3>1 DEF CallOf, Shape
  <2> QED
    BY <2>1, <2>2, <2>3, <2>4, <2>5 DEF CallOf
<1> QED
  BY <1>2

(* The frame below the top one is one.                                     *)
LEMMA BelowTop ==
    ASSUME NEW d \in Nat, d > 1
    PROVE  d - 1 \in 1 .. d - 1 /\ d - 1 \in 1 .. d /\ d \in 1 .. d
  OBVIOUS

(* So are all those below.                                                 *)
LEMMA AllBelow ==
    ASSUME NEW d \in Nat
    PROVE  \A i \in 1 .. d - 1 : i \in 1 .. d /\ i < d
  OBVIOUS

(* Nothing is captured, nothing is noted.                                  *)
LEMMA NothingCaptured ==
    ASSUME IInv', NoneCaptured',
           \A i \in 1 .. Depth' : frames'[i].f = "list" =>
               frames'[i].head = NULL /\ frames'[i].tail = NULL,
           \A i \in 1 .. Depth' : frames'[i].f = "list" /\ i < Depth' => frames'[i].defs = {}
    PROVE  Captured'
<1>1. Depth' \in Nat /\ up' \in [Cells -> Refs]
  BY OwnFactsNext DEF OwnBounds, IInv, TypeOK
<1>2. ASSUME NEW i \in 1 .. Depth' - 1, frames'[i].f = "list"
      PROVE  frames'[i].defs = {}
  <2>1. i \in 1 .. Depth' /\ i < Depth'
    BY <1>1, AllBelow
  <2> QED
    BY <1>2, <2>1
<1>3. ASSUME Building'
      PROVE  Captures(frames[Depth - 1].defs)'
  <2>1. Depth' - 1 \in 1 .. Depth' - 1
    <3>1. Depth' > 1
      BY <1>3 DEF Building
    <3> QED
      BY <1>1, <3>1, BelowTop
  <2>2. frames'[Depth' - 1].defs = {}
    BY <1>2, <1>3, <2>1 DEF Building
  <2>3. BackOf(up', env_capture_head') = {}
    BY <1>1, BackOfFacts DEF NoneCaptured, Refs
  <2> QED
    BY <2>2, <2>3 DEF Captures, NoneCaptured
<1> QED
  BY <1>2, <1>3 DEF Captured
-----------------------------------------------------------------------------
(* Frames without a call under way do not count.                           *)
LEMMA InnerSame ==
    ASSUME NEW fs, NEW gs, NEW c, NEW m \in Nat, NEW k \in Nat, NEW n \in Nat,
           n <= m, n <= k, InnerCall(fs, c, m),
           \A i \in 1 .. n : gs[i].call = fs[i].call,
           \A i \in 1 .. m : i > n => fs[i].call = NULL,
           \A i \in 1 .. k : i > n => gs[i].call = NULL
    PROVE  InnerCall(gs, c, k)
<1>1. CASE c = NULL /\ \A i \in 1 .. m : fs[i].call = NULL
  <2>1. ASSUME NEW i \in 1 .. k
        PROVE  gs[i].call = NULL
    <3>1. i \in 1 .. n \/ i > n
      OBVIOUS
    <3>2. i \in 1 .. n => i \in 1 .. m
      OBVIOUS
    <3> QED
      BY <1>1, <3>1, <3>2
  <2> QED
    BY <1>1, <2>1 DEF InnerCall
<1>2. ASSUME NEW j \in 1 .. m, c = fs[j].call, c # NULL,
             \A i \in j + 1 .. m : fs[i].call = NULL
      PROVE  InnerCall(gs, c, k)
  <2>1. j \in 1 .. n /\ j \in 1 .. k
    BY <1>2
  <2>2. ASSUME NEW i \in j + 1 .. k
        PROVE  gs[i].call = NULL
    <3>1. (i \in 1 .. n /\ i \in j + 1 .. m) \/ (i \in 1 .. k /\ i > n)
      BY <2>1
    <3> QED
      BY <1>2, <3>1
  <2>3. c = gs[j].call
    BY <1>2, <2>1
  <2> QED
    BY <1>2, <2>1, <2>2, <2>3 DEF InnerCall
<1> QED
  BY <1>1, <1>2 DEF InnerCall

(* The frames with a call under way are those of before.                   *)
LEMMA ExactSame ==
    ASSUME IInv, IInv', Exact, call_stack' = call_stack,
           NEW n \in 0 .. Depth, n <= Depth',
           \A i \in 1 .. n : frames'[i].call = frames[i].call,
           \A i \in 1 .. Depth : i > n => frames[i].call = NULL,
           \A i \in 1 .. Depth' : i > n => frames'[i].call = NULL,
           \A i \in 1 .. n : frames[i].call # NULL =>
               up'[frames[i].call] = up[frames[i].call]
    PROVE  Exact'
<1> SUFFICES /\ InnerCall(frames', call_stack, Depth')
             /\ \A i \in 1 .. Depth' : frames'[i].call # NULL =>
                    InnerCall(frames', up'[frames'[i].call], i - 1)
  BY DEF Exact
<1>1. n \in Nat /\ Depth \in Nat /\ Depth' \in Nat /\ n <= Depth
  BY OwnFacts, OwnFactsNext DEF OwnBounds
<1>2. InnerCall(frames', call_stack, Depth')
  <2>1. InnerCall(frames, call_stack, Depth)
    BY DEF Exact
  <2> QED
    BY <1>1, <2>1, InnerSame
<1>3. ASSUME NEW i \in 1 .. Depth', frames'[i].call # NULL
      PROVE  InnerCall(frames', up'[frames'[i].call], i - 1)
  <2>1. i \in 1 .. n /\ i \in 1 .. Depth
    BY <1>1, <1>3
  <2>2. frames'[i].call = frames[i].call /\ up'[frames'[i].call] = up[frames[i].call]
    BY <1>3, <2>1
  <2> DEFINE c == up[frames[i].call]
             m == i - 1
  <2>3. InnerCall(frames, c, m)
    BY <1>3, <2>1, <2>2 DEF Exact
  <2>4. /\ m \in Nat /\ m <= m /\ \A j \in 1 .. m : j \in 1 .. n
        /\ \A j \in 1 .. m : ~(j > m)
    BY <1>1, <2>1
  <2> HIDE DEF c, m
  <2>5. \A j \in 1 .. m : frames'[j].call = frames[j].call
    BY <2>4
  <2>6. InnerCall(frames', c, m)
    BY <2>3, <2>4, <2>5, InnerSame
  <2> QED
    BY <2>2, <2>6 DEF c, m
<1> QED
  BY <1>2, <1>3

(* Call_stack_push.                                                        *)
LEMMA ExactPush ==
    ASSUME IInv, IInv', Exact, NEW c \in Cells,
           Depth > 0, Depth <= Depth',
           frames[Depth].call = NULL, frames'[Depth].call = c,
           call_stack' = c, up'[c] = call_stack,
           \A i \in 1 .. Depth : i < Depth => frames'[i].call = frames[i].call,
           \A i \in 1 .. Depth' : i > Depth => frames'[i].call = NULL,
           \A i \in 1 .. Depth : frames[i].call # NULL =>
               up'[frames[i].call] = up[frames[i].call]
    PROVE  Exact'
<1> SUFFICES /\ InnerCall(frames', c, Depth')
             /\ \A i \in 1 .. Depth' : frames'[i].call # NULL =>
                    InnerCall(frames', up'[frames'[i].call], i - 1)
  BY DEF Exact
<1>1. Depth \in Nat /\ Depth' \in Nat /\ c # NULL
  BY InterpAssumption, OwnFacts, OwnFactsNext DEF OwnBounds
<1>2. InnerCall(frames', c, Depth')
  <2>1. Depth \in 1 .. Depth' /\ \A i \in Depth + 1 .. Depth' : i \in 1 .. Depth' /\ i > Depth
    BY <1>1
  <2>2. \A i \in Depth + 1 .. Depth' : frames'[i].call = NULL
    BY <2>1
  <2> QED
    BY <1>1, <2>1, <2>2 DEF InnerCall
<1>3. ASSUME NEW i \in 1 .. Depth', frames'[i].call # NULL
      PROVE  InnerCall(frames', up'[frames'[i].call], i - 1)
  <2> DEFINE m == i - 1
             x == IF i = Depth THEN call_stack ELSE up[frames[i].call]
             k == IF i = Depth THEN Depth ELSE m
  <2>1. i \in 1 .. Depth /\ (i # Depth => i < Depth)
    BY <1>1, <1>3
  <2>2. up'[frames'[i].call] = x
    BY <1>3, <2>1
  <2>3. InnerCall(frames, x, k)
    <3>1. i = Depth => InnerCall(frames, x, k)
      BY DEF Exact
    <3>2. i # Depth => InnerCall(frames, x, k)
      BY <1>3, <2>1 DEF Exact
    <3> QED
      BY <3>1, <3>2
  <2>4. /\ m \in Nat /\ m <= m /\ k \in Nat /\ m <= k
        /\ \A j \in 1 .. m : j \in 1 .. Depth /\ j < Depth /\ ~(j > m)
        /\ \A j \in 1 .. k : j > m => j = Depth
    BY <1>1, <2>1
  <2> HIDE DEF m, x, k
  <2>5. /\ \A j \in 1 .. m : frames'[j].call = frames[j].call
        /\ \A j \in 1 .. k : j > m => frames[j].call = NULL
    BY <2>4
  <2>6. InnerCall(frames', x, m)
    BY <2>3, <2>4, <2>5, InnerSame
  <2> QED
    BY <2>2, <2>6 DEF m
<1> QED
  BY <1>2, <1>3

(* Call_stack_pop: the entry popped is the one of the frame returned to.   *)
LEMMA ExactPop ==
    ASSUME IInv, IInv', Exact, call_stack' = PopCall, up' = up,
           Depth' \in 1 .. Depth,
           frames[Depth'].call # NULL, frames'[Depth'].call = NULL,
           \A i \in 1 .. Depth' : i < Depth' => frames'[i].call = frames[i].call,
           \A i \in 1 .. Depth : i > Depth' => frames[i].call = NULL
    PROVE  Exact'
<1> SUFFICES /\ InnerCall(frames', PopCall, Depth')
             /\ \A i \in 1 .. Depth' : frames'[i].call # NULL =>
                    InnerCall(frames', up[frames'[i].call], i - 1)
  BY DEF Exact
<1>1. PICK n \in 1 .. Depth : n = Depth'
  OBVIOUS
<1>2. Depth \in Nat /\ n \in Nat /\ n >= 1 /\ n <= Depth
  BY OwnFacts DEF OwnBounds
<1>3. call_stack = frames[n].call
  <2>1. InnerCall(frames, call_stack, Depth)
    BY DEF Exact
  <2>2. ~(\A i \in 1 .. Depth : frames[i].call = NULL)
    BY <1>1
  <2>3. PICK k \in 1 .. Depth : /\ call_stack = frames[k].call /\ call_stack # NULL
                                /\ \A i \in k + 1 .. Depth : frames[i].call = NULL
    BY <2>1, <2>2 DEF InnerCall
  <2>4. ~(k > n)
    BY <1>1, <2>3
  <2>5. ~(k < n)
    <3>1. k < n => n \in k + 1 .. Depth
      BY <1>2
    <3> QED
      BY <1>1, <2>3, <3>1
  <2>6. k = n
    BY <1>2, <2>4, <2>5
  <2> QED
    BY <2>3, <2>6
<1>4. PopCall = up[frames[n].call]
  BY <1>1, <1>3 DEF PopCall
<1>5. ASSUME NEW i \in 1 .. n, NEW k \in {i - 1, n}, frames[i].call # NULL,
             k = n => i = n
      PROVE  InnerCall(frames', up[frames[i].call], k)
  <2> DEFINE m == i - 1
             x == up[frames[i].call]
  <2>1. i \in 1 .. Depth
    BY <1>2
  <2>2. InnerCall(frames, x, m)
    BY <1>5, <2>1 DEF Exact
  <2>3. /\ m \in Nat /\ m <= m /\ k \in Nat /\ m <= k
        /\ \A j \in 1 .. m : j \in 1 .. n /\ j < n /\ ~(j > m)
        /\ \A j \in 1 .. k : j > m => j = n
    BY <1>2, <1>5
  <2> HIDE DEF m, x
  <2>4. /\ \A j \in 1 .. m : frames'[j].call = frames[j].call
        /\ \A j \in 1 .. k : j > m => frames'[j].call = NULL
    BY <1>1, <2>3
  <2>5. InnerCall(frames', x, k)
    BY <2>2, <2>3, <2>4, InnerSame
  <2> QED
    BY <2>5 DEF x
<1>6. InnerCall(frames', PopCall, n)
  BY <1>1, <1>2, <1>4, <1>5
<1>7. ASSUME NEW i \in 1 .. n, frames'[i].call # NULL
      PROVE  InnerCall(frames', up[frames'[i].call], i - 1)
  <2>1. i < n
    BY <1>1, <1>2, <1>7
  <2>2. frames'[i].call = frames[i].call /\ ~(i - 1 = n)
    BY <1>1, <1>2, <2>1
  <2> QED
    BY <1>5, <1>7, <2>2
<1> QED
  BY <1>1, <1>6, <1>7

(* A call of the first m frames is one of the first k.                     *)
LEMMA OuterSame ==
    ASSUME NEW fs, NEW gs, NEW c, NEW m \in Nat, NEW k \in Nat, NEW n \in Nat,
           n <= m, n <= k, OuterCall(fs, c, m),
           \A i \in 1 .. n : gs[i].call = fs[i].call,
           \A i \in 1 .. m : i > n => fs[i].call = NULL
    PROVE  OuterCall(gs, c, k)
<1>1. ASSUME NEW j \in 1 .. m, fs[j].call = c, c # NULL
      PROVE  OuterCall(gs, c, k)
  <2>1. j \in 1 .. n /\ j \in 1 .. k
    BY <1>1
  <2> QED
    BY <1>1, <2>1 DEF OuterCall
<1> QED
  BY <1>1 DEF OuterCall

(* The same two facts for a call stack that may have lost entries.         *)
LEMMA OrderedSame ==
    ASSUME IInv, IInv', InOrder, call_stack' = call_stack,
           NEW n \in 0 .. Depth, n <= Depth',
           \A i \in 1 .. n : frames'[i].call = frames[i].call,
           \A i \in 1 .. Depth : i > n => frames[i].call = NULL,
           \A i \in 1 .. Depth' : i > n => frames'[i].call = NULL,
           \A i \in 1 .. n : frames[i].call # NULL =>
               up'[frames[i].call] = up[frames[i].call]
    PROVE  InOrder'
<1>1. n \in Nat /\ Depth \in Nat /\ Depth' \in Nat /\ n <= Depth
  BY OwnFacts, OwnFactsNext DEF OwnBounds
<1>2. OuterCall(frames', call_stack, Depth')
  <2>1. OuterCall(frames, call_stack, Depth)
    BY DEF InOrder
  <2> QED
    BY <1>1, <2>1, OuterSame
<1>3. ASSUME NEW i \in 1 .. Depth', frames'[i].call # NULL
      PROVE  OuterCall(frames', up'[frames'[i].call], i - 1)
  <2>1. i \in 1 .. n /\ i \in 1 .. Depth
    BY <1>1, <1>3
  <2>2. frames'[i].call = frames[i].call /\ up'[frames'[i].call] = up[frames[i].call]
    BY <1>3, <2>1
  <2> DEFINE c == up[frames[i].call]
             m == i - 1
  <2>3. OuterCall(frames, c, m)
    BY <1>3, <2>1, <2>2 DEF InOrder
  <2>4. /\ m \in Nat /\ m <= m /\ \A j \in 1 .. m : j \in 1 .. n
        /\ \A j \in 1 .. m : ~(j > m)
    BY <1>1, <2>1
  <2> HIDE DEF c, m
  <2>5. \A j \in 1 .. m : frames'[j].call = frames[j].call
    BY <2>4
  <2>6. OuterCall(frames', c, m)
    BY <2>3, <2>4, <2>5, OuterSame
  <2> QED
    BY <2>2, <2>6 DEF c, m
<1> QED
  BY <1>2, <1>3 DEF InOrder

LEMMA OrderedPush ==
    ASSUME IInv, IInv', InOrder, NEW c \in Cells,
           Depth > 0, Depth <= Depth',
           frames[Depth].call = NULL, frames'[Depth].call = c,
           call_stack' = c, up'[c] = call_stack,
           \A i \in 1 .. Depth : i < Depth => frames'[i].call = frames[i].call,
           \A i \in 1 .. Depth' : i > Depth => frames'[i].call = NULL,
           \A i \in 1 .. Depth : frames[i].call # NULL =>
               up'[frames[i].call] = up[frames[i].call]
    PROVE  InOrder'
<1>1. Depth \in Nat /\ Depth' \in Nat /\ c # NULL
  BY InterpAssumption, OwnFacts, OwnFactsNext DEF OwnBounds
<1>2. OuterCall(frames', c, Depth')
  <2>1. Depth \in 1 .. Depth'
    BY <1>1
  <2> QED
    BY <2>1 DEF OuterCall
<1>3. ASSUME NEW i \in 1 .. Depth', frames'[i].call # NULL
      PROVE  OuterCall(frames', up'[frames'[i].call], i - 1)
  <2> DEFINE m == i - 1
             x == IF i = Depth THEN call_stack ELSE up[frames[i].call]
             k == IF i = Depth THEN Depth ELSE m
  <2>1. i \in 1 .. Depth /\ (i # Depth => i < Depth)
    BY <1>1, <1>3
  <2>2. up'[frames'[i].call] = x
    BY <1>3, <2>1
  <2>3. OuterCall(frames, x, k)
    <3>1. i = Depth => OuterCall(frames, x, k)
      BY DEF InOrder
    <3>2. i # Depth => OuterCall(frames, x, k)
      BY <1>3, <2>1 DEF InOrder
    <3> QED
      BY <3>1, <3>2
  <2>4. /\ m \in Nat /\ m <= m /\ k \in Nat /\ m <= k
        /\ \A j \in 1 .. m : j \in 1 .. Depth /\ j < Depth
        /\ \A j \in 1 .. k : j > m => j = Depth
    BY <1>1, <2>1
  <2> HIDE DEF m, x, k
  <2>5. /\ \A j \in 1 .. m : frames'[j].call = frames[j].call
        /\ \A j \in 1 .. k : j > m => frames[j].call = NULL
    BY <2>4
  <2>6. OuterCall(frames', x, m)
    BY <2>3, <2>4, <2>5, OuterSame
  <2> QED
    BY <2>2, <2>6 DEF m
<1> QED
  BY <1>2, <1>3 DEF InOrder

(* Whichever call the entry popped belongs to.                             *)
LEMMA OrderedPop ==
    ASSUME IInv, IInv', InOrder, call_stack' = PopCall, up' = up,
           Depth' \in 1 .. Depth, frames'[Depth'].call = NULL,
           \A i \in 1 .. Depth' : i < Depth' => frames'[i].call = frames[i].call,
           \A i \in 1 .. Depth : i > Depth' => frames[i].call = NULL
    PROVE  InOrder'
<1>1. PICK n \in 1 .. Depth : n = Depth'
  OBVIOUS
<1>2. Depth \in Nat /\ n \in Nat /\ n >= 1 /\ n <= Depth
  BY OwnFacts DEF OwnBounds
<1>3. ASSUME NEW k \in 1 .. n, frames[k].call # NULL, NEW l \in {k - 1, n},
             l = n \/ k < n
      PROVE  OuterCall(frames', up[frames[k].call], l)
  <2> DEFINE m == k - 1
             x == up[frames[k].call]
  <2>1. k \in 1 .. Depth
    BY <1>2
  <2>2. OuterCall(frames, x, m)
    BY <1>3, <2>1 DEF InOrder
  <2>3. /\ m \in Nat /\ m <= m /\ l \in Nat /\ m <= l
        /\ \A j \in 1 .. m : j \in 1 .. n /\ j < n /\ ~(j > m)
    BY <1>2, <1>3
  <2> HIDE DEF m, x
  <2>4. \A j \in 1 .. m : frames'[j].call = frames[j].call
    BY <1>1, <2>3
  <2>5. OuterCall(frames', x, l)
    BY <2>2, <2>3, <2>4, OuterSame
  <2> QED
    BY <2>5 DEF x
<1>4. OuterCall(frames', PopCall, n)
  <2>1. CASE call_stack = NULL
    BY <2>1 DEF PopCall, OuterCall
  <2>2. CASE call_stack # NULL
    <3>1. OuterCall(frames, call_stack, Depth)
      BY DEF InOrder
    <3>2. PICK k \in 1 .. Depth : frames[k].call = call_stack
      BY <2>2, <3>1 DEF OuterCall
    <3>3. k \in 1 .. n
      BY <1>1, <1>2, <2>2, <3>2
    <3>4. PopCall = up[frames[k].call]
      BY <2>2, <3>2 DEF PopCall
    <3> QED
      BY <1>3, <2>2, <3>2, <3>3, <3>4
  <2> QED
    BY <2>1, <2>2
<1>5. ASSUME NEW i \in 1 .. n, frames'[i].call # NULL
      PROVE  OuterCall(frames', up[frames'[i].call], i - 1)
  <2>1. i < n
    BY <1>1, <1>2, <1>5
  <2>2. frames'[i].call = frames[i].call
    BY <1>1, <1>2, <2>1
  <2> QED
    BY <1>3, <1>5, <2>1, <2>2
<1> QED
  BY <1>1, <1>4, <1>5 DEF InOrder

(* Both together.  An evaluation begins with no call under way.            *)
LEMMA TraceSame ==
    ASSUME IInv, IInv', Trace, throws' = throws, call_stack' = call_stack,
           NEW n \in 0 .. Depth, n <= Depth',
           unpaired' = unpaired \/ n = 0,
           \A i \in 1 .. n : frames'[i].call = frames[i].call,
           \A i \in 1 .. Depth : i > n => frames[i].call = NULL,
           \A i \in 1 .. Depth' : i > n => frames'[i].call = NULL,
           \A i \in 1 .. n : frames[i].call # NULL =>
               up'[frames[i].call] = up[frames[i].call]
    PROVE  Trace'
<1> SUFFICES ASSUME throws = 0
             PROVE  InOrder' /\ (~unpaired' => Exact')
  BY DEF Trace
<1>1. InOrder'
  BY OrderedSame DEF Trace
<1>2. ASSUME unpaired' = unpaired, ~unpaired'
      PROVE  Exact'
  <2>1. Exact
    BY <1>2 DEF Trace
  <2> QED
    BY <2>1, ExactSame
<1>3. CASE n = 0
  <2>1. \A i \in 1 .. Depth' : frames'[i].call = NULL
    <3>1. Depth' \in Nat /\ \A i \in 1 .. Depth' : i > 0
      BY OwnFactsNext DEF OwnBounds
    <3> QED
      BY <1>3, <3>1
  <2> QED
    BY <1>1, <2>1 DEF InOrder, Exact, OuterCall, InnerCall
<1> QED
  BY <1>1, <1>2, <1>3

LEMMA TracePush ==
    ASSUME IInv, IInv', Trace, throws' = throws, unpaired' = unpaired, NEW c \in Cells,
           Depth > 0, Depth <= Depth',
           frames[Depth].call = NULL, frames'[Depth].call = c,
           call_stack' = c, up'[c] = call_stack,
           \A i \in 1 .. Depth : i < Depth => frames'[i].call = frames[i].call,
           \A i \in 1 .. Depth' : i > Depth => frames'[i].call = NULL,
           \A i \in 1 .. Depth : frames[i].call # NULL =>
               up'[frames[i].call] = up[frames[i].call]
    PROVE  Trace'
<1>1. InOrder => InOrder'
  BY OrderedPush
<1>2. Exact => Exact'
  BY ExactPush
<1> QED
  BY <1>1, <1>2 DEF Trace

LEMMA TracePop ==
    ASSUME IInv, IInv', Trace, throws' = throws, call_stack' = PopCall, up' = up,
           Depth' \in 1 .. Depth,
           \/ unpaired' = TRUE
           \/ unpaired' = unpaired /\ frames[Depth'].call # NULL,
           frames'[Depth'].call = NULL,
           \A i \in 1 .. Depth' : i < Depth' => frames'[i].call = frames[i].call,
           \A i \in 1 .. Depth : i > Depth' => frames[i].call = NULL
    PROVE  Trace'
<1>1. InOrder => InOrder'
  BY OrderedPop
<1>2. frames[Depth'].call # NULL /\ Exact => Exact'
  BY ExactPop
<1> QED
  BY <1>1, <1>2 DEF Trace
-----------------------------------------------------------------------------
(* The other fields of the frames that come and change.                    *)
LEMMA NewFrameFields ==
    ASSUME NEW f, NEW at, NEW env, NEW size, NEW fr, fr = NewFrame(f, at, env, size)
    PROVE  /\ fr.f = f /\ fr.at = at /\ fr.env = env /\ fr.size = size
           /\ fr.call = NULL /\ fr.defs = {} /\ fr.head = NULL /\ fr.tail = NULL
  BY DEF NewFrame

(* A list enters with the captures of its caller.                          *)
LEMMA NewListFields ==
    ASSUME NEW env, NEW size, NEW h, NEW t, NEW fr, fr = NewList(env, size, h, t)
    PROVE  /\ fr.f = "list" /\ fr.at = "new" /\ fr.env = env /\ fr.size = size
           /\ fr.call = NULL /\ fr.defs = {} /\ fr.head = h /\ fr.tail = t
  BY DEF NewList, NewFrame

(* A list that takes a form keeps its own registers.                       *)
LEMMA NextFormFields ==
    ASSUME NEW fr \in Frame
    PROVE  /\ NextForm(fr).f = fr.f /\ NextForm(fr).at = "run" /\ NextForm(fr).env = fr.env
           /\ NextForm(fr).size = fr.size /\ NextForm(fr).call = fr.call
           /\ NextForm(fr).defs = {}
           /\ NextForm(fr).head = fr.head /\ NextForm(fr).tail = fr.tail
  BY DEF NextForm, Frame

(* A form that has pushed an entry.                                        *)
LEMMA CallingFields ==
    ASSUME TypeOK, Depth > 0, NEW c \in Cells, NEW at \in {"called", "def"}
    PROVE  /\ Calling(c, at)[Depth].at = at /\ Calling(c, at)[Depth].call = c
           /\ Calling(c, at)[Depth].env = frames[Depth].env
           /\ Calling(c, at)[Depth].head = frames[Depth].head
           /\ Calling(c, at)[Depth].tail = frames[Depth].tail
<1> DEFINE fr == [[frames[Depth] EXCEPT !.at = at] EXCEPT !.call = c]
<1>1. Depth \in 1 .. Depth /\ frames[Depth] \in Frame /\ frames \in Seq(Frame)
      /\ Depth = Len(frames)
  BY FramesFacts
<1>2. /\ fr.at = at /\ fr.call = c /\ fr.env = frames[Depth].env
      /\ fr.head = frames[Depth].head /\ fr.tail = frames[Depth].tail
  BY <1>1 DEF Frame, Refs
<1>3. Calling(c, at) = [frames EXCEPT ![Depth] = fr]
  BY <1>1 DEF Calling
<1> HIDE DEF fr
<1>4. Calling(c, at)[Depth] = fr
  BY <1>1, <1>3
<1> QED
  BY <1>2, <1>4

(* What Saved adds, and where.                                             *)
LEMMA SavedCells ==
    ASSUME NEW scs \in Seq(SUBSET Cells), NEW cells \in SUBSET Refs,
           NEW k \in 1 .. Len(scs)
    PROVE  Saved(scs, cells)[k] = IF k = Len(scs) THEN scs[k] \cup (cells \ {NULL})
                                                  ELSE scs[k]
<1> DEFINE n == Len(scs)
           top == scs[n] \cup (cells \ {NULL})
<1>1. Saved(scs, cells) = [scs EXCEPT ![n] = top]
  BY DEF Saved
<1>2. n \in Nat /\ DOMAIN scs = 1 .. n
  OBVIOUS
<1> HIDE DEF top
<1>3. [scs EXCEPT ![n] = top][k] = IF k = n THEN top ELSE scs[k]
  BY <1>2
<1> QED
  BY <1>1, <1>3 DEF top
-----------------------------------------------------------------------------
(* A list or a form evaluates a form: nothing but the new frame is there,  *)
(* in the environment of the one below.                                    *)
LEMMA EvalPushed ==
    ASSUME IInv, IInv', MInv, Depth > 0, Depth' = Depth + 1, Shape(Depth),
           frames'[Depth].env = frames[Depth].env, frames'[Depth].call = NULL,
           frames[Depth].call = NULL,
           frames'[Depth].f = "eval" => frames'[Depth].at = "args",
           frames'[Depth].f = "list" => frames'[Depth].defs = {},
           frames'[Depth + 1] = NewFrame("eval", "args", frames[Depth].env, Len(scopes)),
           scopes' = Append(scopes, {}), NoneCaptured',
           Top.f # "eval" \/ Top.at = "args",
           UNCHANGED <<heap, main_env, call_stack, throws, unpaired>>
    PROVE  MInv'
<1> DEFINE n == Depth
<1>1. /\ n \in Nat /\ n > 1 /\ n \in 1 .. n /\ Depth' = n + 1 /\ Len(scopes) \in Nat
      /\ Top = frames[n] /\ frames[n].f # "try" /\ Len(scopes) = frames[n].size + 1
      /\ frames[n].size \in Nat
  BY TopFacts
<1>2. /\ frames'[n + 1].f = "eval" /\ frames'[n + 1].at = "args"
      /\ frames'[n + 1].env = frames[n].env /\ frames'[n + 1].size = Len(scopes)
      /\ frames'[n + 1].call = NULL
  BY NewFrameFields
<1>3. /\ scopes \in Seq(SUBSET Cells) /\ Len(scopes') = Len(scopes) + 1
      /\ \A k \in 1 .. Len(scopes) : scopes'[k] = scopes[k]
      /\ scopes'[Len(scopes) + 1] = {}
  BY FramesFacts DEF IInv
<1>4. /\ up' = up /\ alive' = alive /\ main_env' = main_env /\ throws' = throws
      /\ unpaired' = unpaired /\ call_stack' = call_stack
  BY DEF heap
<1> HIDE DEF n
<1>5. ScopesKept
  BY <1>1, <1>3 DEF ScopesKept
<1>6. ChainsKept
  BY <1>4 DEF ChainsKept
<1>7. Rooted'
  <2>1. ASSUME NEW k \in 1 .. Len(scopes')
        PROVE  scopes'[k] \subseteq alive'
    <3>1. k \in 1 .. Len(scopes) \/ k = Len(scopes) + 1
      BY <1>1, <1>3
    <3> QED
      BY <1>3, <1>4, <3>1 DEF MInv, Rooted
  <2>2. ASSUME NEW i \in 1 .. Depth'
        PROVE  \E j \in 1 .. Depth : /\ frames'[i].env = frames[j].env
                                     /\ Own(frames[j]) <= Own(frames'[i])
    <3>1. CASE i = n + 1
      <4>1. Own(frames[n]) <= Own(frames'[i])
        BY <1>1, <1>2, <3>1 DEF Own
      <4> QED
        BY <1>1, <1>2, <3>1, <4>1 DEF n
    <3>2. CASE i # n + 1
      <4>1. i \in 1 .. n
        BY <1>1, <3>2
      <4>2. frames'[i].env = frames[i].env /\ Own(frames[i]) = Own(frames'[i])
        BY <4>1 DEF Shape, Own, n
      <4>3. Own(frames[i]) <= Own(frames'[i])
        BY <4>1, <4>2, OwnFacts DEF OwnBounds, n
      <4> QED
        BY <4>1, <4>2, <4>3 DEF n
    <3> QED
      BY <3>1, <3>2
  <2> QED
    BY <1>4, <1>5, <1>6, <2>1, <2>2, RootedStep DEF MInv
<1>8. Calls'
  <2>1. ASSUME NEW i \in 1 .. Depth', i >= n
        PROVE  CallOf(i)'
    <3>1. i = n \/ i = n + 1
      BY <1>1, <2>1
    <3>2. CASE i = n
      BY <1>1, <1>2, <3>2 DEF CallOf, n
    <3>3. CASE i = n + 1
      <4>1. ~(i < Depth')
        BY <1>1, <3>3
      <4> QED
        BY <1>2, <3>3, <4>1 DEF CallOf
    <3> QED
      BY <3>1, <3>2, <3>3
  <2> QED
    BY <1>5, <2>1, CallsStep DEF MInv, n
<1>9. Captured'
  <2>1. ASSUME NEW i \in 1 .. Depth', frames'[i].f = "list"
        PROVE  /\ frames'[i].head = NULL /\ frames'[i].tail = NULL
               /\ frames'[i].defs = {}
    <3>1. i \in 1 .. n
      BY <1>1, <1>2, <2>1
    <3>2. frames[i].f = "list" /\ frames'[i].head = NULL /\ frames'[i].tail = NULL
      BY <2>1, <3>1 DEF Shape, MInv, Captured, n
    <3>3. frames'[i].defs = {}
      <4>1. CASE i = n
        BY <2>1, <4>1 DEF n
      <4>2. CASE i # n
        <5>1. i \in 1 .. n - 1
          BY <1>1, <3>1, <4>2
        <5>2. ~Building
          BY <1>1 DEF Building
        <5>3. frames[i].defs = {}
          BY <3>2, <5>1, <5>2 DEF MInv, Captured, n
        <5> QED
          BY <3>1, <4>2, <5>3 DEF Shape, n
      <4> QED
        BY <4>1, <4>2
    <3> QED
      BY <3>2, <3>3
  <2> QED
    BY <2>1, NothingCaptured
<1>10. Trace'
  <2>1. \A i \in 1 .. n : frames'[i].call = frames[i].call
    BY <1>1 DEF Shape, n
  <2>2. \A i \in 1 .. n : ~(i > n)
    BY <1>1
  <2>3. \A i \in 1 .. Depth' : i > n => frames'[i].call = NULL
    <3>1. \A i \in 1 .. Depth' : i > n => i = n + 1
      BY <1>1
    <3> QED
      BY <1>2, <3>1
  <2>4. n \in 0 .. Depth /\ n <= Depth'
    BY DEF Shape, n
  <2> QED
    BY <1>4, <2>1, <2>2, <2>3, <2>4, TraceSame DEF MInv, n
<1> QED
  BY <1>7, <1>8, <1>9, <1>10 DEF MInv

(* A list takes a form.                                                    *)
LEMMA FormMem ==
    ASSUME IInv, IInv', MInv, Form
    PROVE  MInv'
<1> DEFINE fr == NextForm(frames[Depth])
           nf == NewFrame("eval", "args", frames[Depth].env, Len(scopes))
           q == [frames EXCEPT ![Depth] = fr]
<1>1. /\ Depth > 0 /\ Top.f = "list" /\ Top.forms > 0
      /\ scopes' = Append(scopes, {}) /\ NoneCaptured'
      /\ UNCHANGED <<heap, main_env, call_stack, throws, unpaired>>
  BY DEF Form, At, NoCaptures, NoneCaptured
<1>2. /\ Depth \in Nat /\ Depth \in 1 .. Depth /\ Top = frames[Depth] /\ Top \in Frame
      /\ frames \in Seq(Frame) /\ Depth = Len(frames)
  BY <1>1, TopFacts, FramesFacts DEF IInv
<1>3. frames' = Append(q, nf)
  BY <1>2 DEF Form, NextForm
<1>4. /\ fr \in Frame /\ fr.f = "list" /\ fr.size = frames[Depth].size
      /\ fr.env = frames[Depth].env /\ fr.call = frames[Depth].call /\ fr.defs = {}
      /\ fr.head = frames[Depth].head /\ fr.tail = frames[Depth].tail
  BY <1>1, <1>2, NextFormFacts, NextFormFields
<1> HIDE DEF fr, nf
<1>5. /\ q \in Seq(Frame) /\ Len(q) = Depth /\ q[Depth] = fr
      /\ \A i \in 1 .. Depth : i # Depth => q[i] = frames[i]
  BY <1>2, <1>4, UpdatedFacts
<1> HIDE DEF q
<1>6. /\ Len(frames') = Depth + 1 /\ frames'[Depth + 1] = nf
      /\ \A i \in 1 .. Depth : frames'[i] = q[i]
  BY <1>2, <1>3, <1>5
<1>7. Depth' = Depth + 1
  BY <1>6 DEF Depth
<1>8. Shape(Depth)
  BY <1>1, <1>2, <1>4, <1>5, <1>6, <1>7 DEF Shape
<1>9. frames[Depth].call = NULL
  BY <1>1, <1>2 DEF MInv, Calls, CallOf
<1>10. /\ frames'[Depth].env = frames[Depth].env /\ frames'[Depth].call = NULL
       /\ frames'[Depth].f = "list" /\ frames'[Depth].defs = {}
  BY <1>2, <1>4, <1>5, <1>6, <1>9
<1>11. frames'[Depth + 1] = NewFrame("eval", "args", frames[Depth].env, Len(scopes))
  BY <1>6 DEF nf
<1> QED
  BY <1>1, <1>7, <1>8, <1>9, <1>10, <1>11, EvalPushed

(* A form evaluates an argument.                                           *)
LEMMA EvalArgMem ==
    ASSUME IInv, IInv', MInv, EvalArg
    PROVE  MInv'
<1> DEFINE nf == NewFrame("eval", "args", frames[Depth].env, Len(scopes))
<1>1. /\ Depth > 0 /\ Top.f = "eval" /\ Top.at = "args"
      /\ frames' = Append(frames, nf) /\ scopes' = Append(scopes, {})
      /\ UNCHANGED <<heap, main_env, call_stack, captures, throws, unpaired>>
  BY DEF EvalArg, At, Top
<1>2. /\ Depth \in Nat /\ Depth \in 1 .. Depth /\ Top = frames[Depth] /\ Top \in Frame
      /\ frames \in Seq(Frame) /\ Depth = Len(frames)
  BY <1>1, TopFacts, FramesFacts DEF IInv
<1> HIDE DEF nf
<1>3. /\ Len(frames') = Depth + 1 /\ frames'[Depth + 1] = nf
      /\ \A i \in 1 .. Depth : frames'[i] = frames[i]
  BY <1>1, <1>2
<1>4. Depth' = Depth + 1
  BY <1>3 DEF Depth
<1>5. Shape(Depth)
  BY <1>1, <1>2, <1>3, <1>4 DEF Shape
<1>6. frames[Depth].call = NULL
  BY <1>1, <1>2 DEF MInv, Calls, CallOf
<1>7. NoneCaptured'
  BY <1>1 DEF MInv, Captured, Building, NoneCaptured, captures
<1>8. frames'[Depth] = frames[Depth] /\ frames[Depth].f = "eval" /\ frames[Depth].at = "args"
  BY <1>1, <1>2, <1>3
<1>9. frames'[Depth + 1] = NewFrame("eval", "args", frames[Depth].env, Len(scopes))
  BY <1>3 DEF nf
<1> QED
  BY <1>1, <1>4, <1>5, <1>6, <1>7, <1>8, <1>9, EvalPushed
-----------------------------------------------------------------------------
(* The calls under way are allocated.                                      *)
LEMMA CallsAlive ==
    ASSUME IInv, MInv, NEW i \in 1 .. Depth, frames[i].call # NULL
    PROVE  /\ frames[i].call \in alive
           /\ frames[i].size + 1 \in 1 .. Len(scopes)
           /\ frames[i].call \in scopes[frames[i].size + 1]
<1>1. frames[i].size + 1 \in 1 .. Len(scopes)
  BY OwnFacts DEF OwnBounds
<1>2. frames[i].call \in scopes[frames[i].size + 1]
  BY DEF MInv, Calls, CallOf
<1> QED
  BY <1>1, <1>2 DEF MInv, Rooted

(* A save and a new scope.                                                 *)
LEMMA PushedScopes ==
    ASSUME NEW scs \in Seq(SUBSET Cells), NEW new \in SUBSET Cells
    PROVE  /\ Len(Append(Saved(scs, new), {})) = Len(scs) + 1
           /\ Append(Saved(scs, new), {})[Len(scs) + 1] = {}
           /\ \A k \in 1 .. Len(scs) : Append(Saved(scs, new), {})[k] =
                  IF k = Len(scs) THEN scs[k] \cup new ELSE scs[k]
<1> DEFINE s == Saved(scs, new)
<1>1. new \in SUBSET Refs /\ new \ {NULL} = new
  BY InterpAssumption DEF Refs
<1>2. s \in Seq(SUBSET Cells) /\ Len(s) = Len(scs) /\ Len(scs) \in Nat
  BY <1>1, SavedFacts
<1>3. \A k \in 1 .. Len(scs) :
          s[k] = IF k = Len(scs) THEN scs[k] \cup new ELSE scs[k]
  BY <1>1, SavedCells
<1> HIDE DEF s
<1>4. /\ Len(Append(s, {})) = Len(s) + 1 /\ Append(s, {})[Len(s) + 1] = {}
      /\ \A k \in 1 .. Len(s) : Append(s, {})[k] = s[k]
  BY <1>2
<1> QED
  BY <1>2, <1>3, <1>4 DEF s

\* What the frame i of a callee has to bring: new are the cells allocated for it.
Callee(i, new) ==
    /\ frames'[i].call = NULL /\ frames'[i].at \notin {"def", "bind"}
    /\ frames'[i].size = Len(scopes)
    /\ frames'[i].f = "eval" => i = Depth'
    /\ frames'[i].f = "list" =>
           frames'[i].head = NULL /\ frames'[i].tail = NULL /\ frames'[i].defs = {}
    /\ \/ frames'[i].env = frames[Depth].env
       \/ frames'[i].env \in new /\ BackOf(up', frames'[i].env) \subseteq alive'

(* A form goes on with an entry on the call stack: a lambda, a def, a try. *)
LEMMA CallPushed ==
    ASSUME IInv, IInv', MInv, At("eval", "args"),
           NEW new \in SUBSET Cells, NEW c \in new, new \cap alive = {},
           Shape(Depth), Depth < Depth',
           frames'[Depth].env = frames[Depth].env, frames'[Depth].call = c,
           frames'[Depth].at \in {"called", "def"},
           frames'[Depth].at = "def" => frames[Depth - 1].f = "list",
           \A i \in 1 .. Depth' : i > Depth => Callee(i, new),
           scopes' = Append(Saved(scopes, new), {}),
           alive' = alive \cup new, up'[c] = call_stack,
           \A y \in alive : up'[y] = up[y],
           call_stack' = c, UNCHANGED <<main_env, captures, throws, unpaired>>
    PROVE  MInv'
<1> DEFINE n == Depth
<1>1. /\ n \in Nat /\ n > 1 /\ n \in 1 .. n /\ n - 1 \in 1 .. n /\ n - 1 # n
      /\ Depth' \in Nat /\ Len(scopes) \in Nat
      /\ Top = frames[n] /\ frames[n].f = "eval" /\ frames[n].at = "args"
      /\ Len(scopes) = frames[n].size + 1 /\ frames[n].size \in Nat
  <2>1. /\ n \in Nat /\ n > 1 /\ n \in 1 .. n /\ n - 1 \in 1 .. n
        /\ Top = frames[n] /\ Top.f = "eval" /\ Top.at = "args"
        /\ Len(scopes) = Top.size + 1 /\ Top.size \in Nat
    BY TopFacts DEF At
  <2> QED
    BY <2>1, OwnFacts, OwnFactsNext DEF OwnBounds
<1>2. scopes \in Seq(SUBSET Cells)
  BY FramesFacts DEF IInv
<1>3. /\ Len(scopes') = Len(scopes) + 1
      /\ \A k \in 1 .. Len(scopes) :
             scopes'[k] = IF k = Len(scopes) THEN scopes[k] \cup new ELSE scopes[k]
      /\ scopes'[Len(scopes) + 1] = {}
  <2> DEFINE r == Append(Saved(scopes, new), {})
  <2>1. /\ Len(r) = Len(scopes) + 1
        /\ \A k \in 1 .. Len(scopes) :
               r[k] = IF k = Len(scopes) THEN scopes[k] \cup new ELSE scopes[k]
        /\ r[Len(scopes) + 1] = {}
    BY <1>2, PushedScopes
  <2>2. scopes' = r
    OBVIOUS
  <2> HIDE DEF r
  <2> QED
    BY <2>1, <2>2
<1>4. /\ unpaired' = unpaired
      /\ main_env' = main_env /\ throws' = throws /\ call_stack' = c /\ c \in Cells
      /\ env_capture_head' = env_capture_head /\ env_capture_tail' = env_capture_tail
  BY DEF captures
<1>5. ScopesKept
  <2> SUFFICES ASSUME NEW k \in 1 .. Len(scopes'), k <= Len(scopes)
               PROVE  scopes[k] \subseteq scopes'[k]
    BY DEF ScopesKept
  <2>1. k \in 1 .. Len(scopes)
    BY <1>1
  <2> QED
    BY <1>3, <2>1
<1>6. ChainsKept
  BY FreshKeepsChains DEF IInv
<1>7. ~Building
  BY <1>1 DEF Building
<1>8. frames[n].call = NULL
  BY <1>1 DEF MInv, Calls, CallOf
<1>9. \A i \in 1 .. n : frames[i].call # NULL => frames[i].call \in alive
  BY CallsAlive DEF n
<1> HIDE DEF n
<1>10. Rooted'
  <2>1. ASSUME NEW k \in 1 .. Len(scopes')
        PROVE  scopes'[k] \subseteq alive'
    <3>1. k \in 1 .. Len(scopes) \/ k = Len(scopes) + 1
      BY <1>1, <1>3
    <3>2. ASSUME k \in 1 .. Len(scopes)
          PROVE  scopes[k] \subseteq alive
      BY <3>2 DEF MInv, Rooted
    <3> QED
      BY <1>3, <3>1, <3>2
  <2>2. ASSUME NEW i \in 1 .. Depth'
        PROVE  \/ \E j \in 1 .. Depth : /\ frames'[i].env = frames[j].env
                                        /\ Own(frames[j]) <= Own(frames'[i])
               \/ /\ BackOf(up', frames'[i].env) \subseteq alive'
                  /\ Kept(frames[i].env, Own(frames[i]))'
    <3>1. CASE i > n
      <4>1. Callee(i, new)
        BY <3>1 DEF n
      <4>2. Own(frames'[i]) \in {Len(scopes), Len(scopes) + 1} /\ Own(frames[n]) = Len(scopes)
        BY <1>1, <4>1 DEF Callee, Own
      <4>3. CASE frames'[i].env = frames[n].env
        <5>1. Own(frames[n]) <= Own(frames'[i])
          BY <1>1, <4>2
        <5> QED
          BY <1>1, <4>3, <5>1 DEF n
      <4>4. CASE frames'[i].env \in new /\ BackOf(up', frames'[i].env) \subseteq alive'
        <5>1. Len(scopes) \in 1 .. Own(frames'[i]) /\ Len(scopes) \in 1 .. Len(scopes)
          BY <1>1, <4>2
        <5>2. frames'[i].env \in scopes'[Len(scopes)]
          BY <1>3, <4>4, <5>1
        <5>3. Kept(frames[i].env, Own(frames[i]))'
          BY <5>1, <5>2 DEF Kept
        <5> QED
          BY <4>4, <5>3
      <4> QED
        BY <4>1, <4>3, <4>4 DEF Callee, n
    <3>2. CASE ~(i > n)
      <4>1. i \in 1 .. n
        BY <1>1, <3>2
      <4>2. frames'[i].env = frames[i].env /\ Own(frames[i]) = Own(frames'[i])
        BY <4>1 DEF Shape, Own, n
      <4>3. Own(frames[i]) <= Own(frames'[i])
        BY <4>1, <4>2, OwnFacts DEF OwnBounds, n
      <4> QED
        BY <4>1, <4>2, <4>3 DEF n
    <3> QED
      BY <3>1, <3>2
  <2> QED
    BY <1>4, <1>5, <1>6, <2>1, <2>2, RootedStep DEF MInv
<1>11. Calls'
  <2>1. ASSUME NEW i \in 1 .. Depth', i >= n
        PROVE  CallOf(i)'
    <3>1. CASE i > n
      <4>1. Callee(i, new)
        BY <3>1 DEF n
      <4>2. frames'[i].f = "eval" => ~(i < Depth')
        BY <1>1, <4>1 DEF Callee
      <4> QED
        BY <4>1, <4>2 DEF Callee, CallOf
    <3>2. CASE i = n
      <4>1. /\ frames'[i].f = "eval" /\ frames'[i].size = frames[n].size
            /\ frames'[i - 1].f = frames[n - 1].f /\ frames'[i].call = c
            /\ frames'[i].at \in {"called", "def"}
        BY <1>1, <3>2 DEF Shape, n
      <4>2. c \in scopes'[frames'[i].size + 1]
        <5>1. Len(scopes) \in 1 .. Len(scopes) /\ frames'[i].size + 1 = Len(scopes)
          BY <1>1, <4>1
        <5> QED
          BY <1>3, <5>1
      <4>3. frames'[i].at = "def" => frames[n - 1].f = "list"
        BY <3>2 DEF n
      <4> QED
        BY <1>4, <4>1, <4>2, <4>3, InterpAssumption DEF CallOf
    <3> QED
      BY <1>1, <2>1, <3>1, <3>2
  <2> QED
    BY <1>5, <2>1, CallsStep DEF MInv, n
<1>12. Captured'
  <2>1. NoneCaptured'
    BY <1>1, <1>4, <1>7 DEF MInv, Captured, NoneCaptured, n
  <2>2. ASSUME NEW i \in 1 .. Depth', frames'[i].f = "list"
        PROVE  /\ frames'[i].head = NULL /\ frames'[i].tail = NULL
               /\ frames'[i].defs = {}
    <3>1. CASE i > n
      BY <2>2, <3>1 DEF Callee, n
    <3>2. CASE ~(i > n)
      <4>1. i \in 1 .. n
        BY <1>1, <3>2
      <4>2. frames[i].f = "list" /\ frames'[i].head = NULL /\ frames'[i].tail = NULL
        BY <2>2, <4>1 DEF Shape, MInv, Captured, n
      <4>3. i \in 1 .. n - 1 /\ i # n
        BY <1>1, <4>1, <4>2
      <4>4. frames[i].defs = {} /\ frames'[i].defs = frames[i].defs
        BY <1>7, <4>1, <4>2, <4>3 DEF MInv, Captured, Shape, n
      <4> QED
        BY <4>2, <4>4
    <3> QED
      BY <3>1, <3>2
  <2> QED
    BY <2>1, <2>2, NothingCaptured
<1>13. Trace'
  <2>1. /\ \A i \in 1 .. n : i < n => frames'[i].call = frames[i].call
        /\ n \in 1 .. n /\ n > 0 /\ n <= Depth'
    BY <1>1 DEF Shape, n
  <2>2. \A i \in 1 .. Depth' : i > n => frames'[i].call = NULL
    BY DEF Callee, n
  <2>3. \A i \in 1 .. n : frames[i].call # NULL =>
            up'[frames[i].call] = up[frames[i].call]
    BY <1>9
  <2> QED
    BY <1>4, <1>8, <2>1, <2>2, <2>3, TracePush DEF MInv, n
<1> QED
  BY <1>10, <1>11, <1>12, <1>13 DEF MInv

(* A frame changed in place, with others on top.                           *)
LEMMA CallingShape ==
    ASSUME IInv, Depth > 0, NEW c \in Cells, NEW at \in {"called", "def"},
           Depth' \in Nat, Depth < Depth',
           \A i \in 1 .. Depth : frames'[i] = Calling(c, at)[i]
    PROVE  /\ Shape(Depth) /\ frames'[Depth].env = frames[Depth].env
           /\ frames'[Depth].call = c /\ frames'[Depth].at = at
<1>1. TypeOK /\ Depth \in Nat /\ Depth \in 1 .. Depth
  BY TopFacts DEF IInv
<1>2. /\ frames'[Depth].env = frames[Depth].env
      /\ frames'[Depth].call = c /\ frames'[Depth].at = at
      /\ frames'[Depth].head = frames[Depth].head /\ frames'[Depth].tail = frames[Depth].tail
  BY <1>1, CallingFields
<1>3. \A i \in 1 .. Depth :
          /\ i # Depth => frames'[i] = frames[i]
          /\ frames'[i].f = frames[i].f /\ frames'[i].size = frames[i].size
  BY <1>1, CallingFacts
<1>4. Depth \in 0 .. Depth /\ Depth <= Depth'
  BY <1>1
<1>5. ASSUME NEW i \in 1 .. Depth
      PROVE  /\ frames'[i].head = frames[i].head /\ frames'[i].tail = frames[i].tail
             /\ i # Depth => /\ frames'[i].env = frames[i].env /\ frames'[i].at = frames[i].at
                             /\ frames'[i].call = frames[i].call
                             /\ frames'[i].defs = frames[i].defs
  BY <1>2, <1>3
<1> QED
  BY <1>2, <1>3, <1>4, <1>5 DEF Shape

(* In a form that evaluates its arguments nothing is captured.             *)
LEMMA NoneAtArgs ==
    ASSUME IInv, MInv, At("eval", "args")
    PROVE  NoneCaptured
  BY DEF At, MInv, Captured, Building

(* The call of a lambda: its entry and its environment are saved.          *)
LEMMA CallLambdaMem ==
    ASSUME IInv, IInv', MInv, NEW c \in Cells, NEW e \in Cells, NEW env \in Refs,
           CallLambda(c, e, env)
    PROVE  MInv'
<1> DEFINE nf == NewList(e, Len(scopes), env_capture_head, env_capture_tail)
           q  == Calling(c, "called")
<1>1. /\ At("eval", "args") /\ env \in {Top.env, main_env}
      /\ c \notin alive /\ e \notin alive /\ e # c
      /\ alive' = alive \cup {c, e}
      /\ up' = [up EXCEPT ![c] = call_stack, ![e] = env]
      /\ call_stack' = c
      /\ frames' = Append(q, nf)
      /\ scopes' = Append(Saved(scopes, {c, e}), {env_capture_head} \ {NULL})
      /\ UNCHANGED <<main_env, captures, throws, unpaired>>
  BY DEF CallLambda, NewList
<1>2. NoneCaptured
  BY <1>1, NoneAtArgs
<1>3. /\ Depth > 0 /\ Depth \in Nat /\ Depth \in 1 .. Depth /\ Top = frames[Depth]
      /\ up \in [Cells -> Refs] /\ up' \in [Cells -> Refs] /\ alive \subseteq Cells
      /\ TypeOK
  BY <1>1, TopFacts DEF At, IInv, TypeOK
<1>4. scopes' = Append(Saved(scopes, {c, e}), {})
  BY <1>1, <1>2 DEF NoneCaptured
<1>5. /\ nf.f = "list" /\ nf.at = "new" /\ nf.env = e /\ nf.size = Len(scopes)
      /\ nf.call = NULL /\ nf.defs = {} /\ nf.head = NULL /\ nf.tail = NULL
  BY <1>2, NewListFields DEF NoneCaptured
<1>6. q \in Seq(Frame) /\ Len(q) = Depth
  BY <1>3, CallingFacts
<1> HIDE DEF nf, q
<1>7. /\ Len(frames') = Depth + 1 /\ frames'[Depth + 1] = nf
      /\ \A i \in 1 .. Depth : frames'[i] = q[i]
  BY <1>1, <1>3, <1>6
<1>8. Depth' = Depth + 1
  BY <1>7 DEF Depth
<1>9. /\ Shape(Depth) /\ frames'[Depth].env = frames[Depth].env
      /\ frames'[Depth].call = c /\ frames'[Depth].at = "called"
  BY <1>3, <1>7, <1>8, CallingShape DEF q
<1>10. up'[e] = env /\ up'[c] = call_stack /\ \A y \in alive : up'[y] = up[y]
  BY <1>1, <1>3
<1>11. BackOf(up', e) \subseteq alive'
  <2>1. BackOf(up, env) \subseteq alive
    BY <1>1, <1>3 DEF MInv, Rooted
  <2>2. BackOf(up', env) = BackOf(up, env)
    BY <1>3, <1>10, <2>1, BackOfSame
  <2>3. BackOf(up', e) = {e} \cup BackOf(up', env)
    BY <1>3, <1>10, BackOfCons
  <2> QED
    BY <1>1, <2>1, <2>2, <2>3
<1>12. ASSUME NEW i \in 1 .. Depth', i > Depth
       PROVE  Callee(i, {c, e})
  <2>1. i = Depth + 1 /\ i = Depth'
    BY <1>3, <1>8, <1>12
  <2>2. frames'[i] = nf
    BY <1>7, <2>1
  <2> QED
    BY <1>5, <1>11, <2>1, <2>2 DEF Callee
<1>13. {c, e} \in SUBSET Cells /\ c \in {c, e} /\ {c, e} \cap alive = {} /\ Depth < Depth'
  BY <1>1, <1>3, <1>8
<1> DEFINE new == {c, e}
<1>14. /\ new \in SUBSET Cells /\ c \in new /\ new \cap alive = {}
       /\ \A i \in 1 .. Depth' : i > Depth => Callee(i, new)
       /\ scopes' = Append(Saved(scopes, new), {}) /\ alive' = alive \cup new
  BY <1>1, <1>4, <1>12, <1>13
<1> HIDE DEF new
<1> QED
  BY <1>1, <1>9, <1>10, <1>13, <1>14, CallPushed

(* A def starts to evaluate its value.                                     *)
LEMMA DefMem ==
    ASSUME IInv, IInv', MInv, ~NestedDef, NEW c \in Cells, Def(c)
    PROVE  MInv'
<1> DEFINE nf == NewFrame("eval", "args", frames[Depth].env, Len(scopes))
           q  == Calling(c, "def")
<1>1. /\ At("eval", "args") /\ frames[Depth - 1].f = "list"
      /\ c \notin alive
      /\ alive' = alive \cup {c}
      /\ up' = [up EXCEPT ![c] = call_stack]
      /\ call_stack' = c
      /\ frames' = Append(q, nf)
      /\ scopes' = Append(Saved(scopes, {c}), {})
      /\ UNCHANGED <<main_env, captures, throws, unpaired>>
  BY DEF Def, PushCall, Top
<1>2. /\ Depth > 0 /\ Depth \in Nat /\ Depth \in 1 .. Depth
      /\ up \in [Cells -> Refs] /\ alive \subseteq Cells /\ TypeOK
  BY <1>1, TopFacts DEF At, IInv, TypeOK
<1>3. /\ nf.f = "eval" /\ nf.at = "args" /\ nf.env = frames[Depth].env
      /\ nf.size = Len(scopes) /\ nf.call = NULL
  BY NewFrameFields
<1>4. q \in Seq(Frame) /\ Len(q) = Depth
  BY <1>2, CallingFacts
<1> HIDE DEF nf, q
<1>5. /\ Len(frames') = Depth + 1 /\ frames'[Depth + 1] = nf
      /\ \A i \in 1 .. Depth : frames'[i] = q[i]
  BY <1>1, <1>2, <1>4
<1>6. Depth' = Depth + 1
  BY <1>5 DEF Depth
<1>7. /\ Shape(Depth) /\ frames'[Depth].env = frames[Depth].env
      /\ frames'[Depth].call = c /\ frames'[Depth].at = "def"
  BY <1>2, <1>5, <1>6, CallingShape DEF q
<1>8. up'[c] = call_stack /\ \A y \in alive : up'[y] = up[y]
  BY <1>1, <1>2
<1>9. ASSUME NEW i \in 1 .. Depth', i > Depth
      PROVE  Callee(i, {c})
  <2>1. i = Depth + 1 /\ i = Depth'
    BY <1>2, <1>6, <1>9
  <2>2. frames'[i] = nf
    BY <1>5, <2>1
  <2> QED
    BY <1>3, <2>1, <2>2 DEF Callee
<1>10. Depth < Depth'
  BY <1>2, <1>6
<1> DEFINE new == {c}
<1>11. /\ new \in SUBSET Cells /\ c \in new /\ new \cap alive = {}
       /\ \A i \in 1 .. Depth' : i > Depth => Callee(i, new)
       /\ scopes' = Append(Saved(scopes, new), {}) /\ alive' = alive \cup new
  BY <1>1, <1>9
<1> HIDE DEF new
<1> QED
  BY <1>1, <1>7, <1>8, <1>10, <1>11, CallPushed

(* A try starts to evaluate its first argument.                            *)
LEMMA TryMem ==
    ASSUME IInv, IInv', MInv, NEW c \in Cells, Try(c)
    PROVE  MInv'
<1> DEFINE n == Len(scopes)
           nt == NewFrame("try", "body", frames[Depth].env, n)
           try == [nt EXCEPT !.marker = last_try_marker]
           nf == NewFrame("eval", "args", frames[Depth].env, n)
           q  == Calling(c, "called")
<1>1. /\ At("eval", "args")
      /\ c \notin alive
      /\ alive' = alive \cup {c}
      /\ up' = [up EXCEPT ![c] = call_stack]
      /\ call_stack' = c
      /\ frames' = q \o <<try, nf>>
      /\ scopes' = Append(Saved(scopes, {c}), {})
      /\ UNCHANGED <<main_env, captures, throws, unpaired>>
  BY DEF Try, PushCall, Top
<1>2. /\ Depth > 0 /\ Depth \in Nat /\ Depth \in 1 .. Depth /\ n \in Nat
      /\ up \in [Cells -> Refs] /\ alive \subseteq Cells /\ TypeOK
      /\ last_try_marker \in Nat /\ frames[Depth].env \in Refs
  <2>1. frames[Depth].env \in Refs
    BY <1>1, TopFacts, FrameFields DEF At
  <2>2. Depth > 0 /\ Depth \in Nat /\ Depth \in 1 .. Depth /\ n \in Nat
    BY <1>1, TopFacts, FramesFacts DEF At, IInv
  <2> QED
    BY <2>1, <2>2, FramesFacts DEF IInv, TypeOK
<1> HIDE DEF n
<1>3. /\ nf \in Frame /\ nf.f = "eval" /\ nf.at = "args" /\ nf.env = frames[Depth].env
      /\ nf.size = n /\ nf.call = NULL
  BY <1>2, NewFrameFields, NewFrameFacts
<1>4. /\ nt \in Frame /\ nt.f = "try" /\ nt.at = "body" /\ nt.env = frames[Depth].env
      /\ nt.size = n /\ nt.call = NULL
  BY <1>2, NewFrameFields, NewFrameFacts
<1> HIDE DEF nt
<1>5. /\ try \in Frame /\ try.f = "try" /\ try.at = "body" /\ try.env = frames[Depth].env
      /\ try.size = n /\ try.call = NULL
  BY <1>2, <1>4 DEF Frame
<1>6. q \in Seq(Frame) /\ Len(q) = Depth
  BY <1>2, CallingFacts
<1> HIDE DEF nf, q, try
<1>7. /\ Len(frames') = Depth + 2 /\ frames'[Depth + 1] = try /\ frames'[Depth + 2] = nf
      /\ \A i \in 1 .. Depth : frames'[i] = q[i]
  BY <1>1, <1>2, <1>3, <1>5, <1>6, TwoMoreFacts
<1>8. Depth' = Depth + 2
  BY <1>7 DEF Depth
<1>9. /\ Shape(Depth) /\ frames'[Depth].env = frames[Depth].env
      /\ frames'[Depth].call = c /\ frames'[Depth].at = "called"
  <2>1. Depth' \in Nat /\ Depth < Depth'
    BY <1>2, <1>8
  <2> QED
    BY <1>2, <1>7, <2>1, CallingShape DEF q
<1>10. up'[c] = call_stack /\ \A y \in alive : up'[y] = up[y]
  BY <1>1, <1>2
<1>11. ASSUME NEW i \in 1 .. Depth', i > Depth
       PROVE  Callee(i, {c})
  <2>1. i = Depth + 1 \/ (i = Depth + 2 /\ i = Depth')
    BY <1>2, <1>8, <1>11
  <2>2. frames'[i] = try \/ (frames'[i] = nf /\ i = Depth')
    BY <1>7, <2>1
  <2> QED
    BY <1>3, <1>5, <2>2 DEF Callee, n
<1>12. Depth < Depth'
  BY <1>2, <1>8
<1> DEFINE new == {c}
<1>13. /\ new \in SUBSET Cells /\ c \in new /\ new \cap alive = {}
       /\ \A i \in 1 .. Depth' : i > Depth => Callee(i, new)
       /\ scopes' = Append(Saved(scopes, new), {}) /\ alive' = alive \cup new
  BY <1>1, <1>11
<1> HIDE DEF new
<1> QED
  BY <1>1, <1>9, <1>10, <1>12, <1>13, CallPushed
-----------------------------------------------------------------------------
(* The host evaluates: nothing is captured yet.                            *)
LEMMA EvalFormsMem ==
    ASSUME IInv, IInv', MInv, EvalForms
    PROVE  MInv'
<1> DEFINE try == NewFrame("try", "body", main_env, 1)
           list == NewList(main_env, 1, env_capture_head, env_capture_tail)
<1>1. /\ frames' = <<try, list>> /\ frames = <<>>
      /\ scopes' = <<{}, {env_capture_head} \ {NULL}>>
      /\ UNCHANGED <<up, alive, main_env, call_stack, env_capture_head, env_capture_tail,
                     throws>>
  BY DEF EvalForms, NewList, heap, captures
<1>2. Depth = 0 /\ NoneCaptured
  <2>1. Depth = 0
    BY <1>1 DEF Depth
  <2> QED
    BY <2>1 DEF MInv, Captured
<1>3. /\ try.f = "try" /\ try.at = "body" /\ try.env = main_env /\ try.call = NULL
      /\ list.f = "list" /\ list.at = "new" /\ list.env = main_env /\ list.call = NULL
      /\ list.head = NULL /\ list.tail = NULL /\ list.defs = {}
  BY <1>2, NewFrameFields, NewListFields DEF NoneCaptured
<1> HIDE DEF try, list
<1>4. Len(frames') = 2 /\ frames'[1] = try /\ frames'[2] = list
  BY <1>1
<1>5. Depth' = 2 /\ NoneCaptured'
  BY <1>1, <1>2, <1>4 DEF Depth, NoneCaptured
<1>6. Len(scopes') = 2 /\ scopes'[1] = {} /\ scopes'[2] = {}
  BY <1>1, <1>2 DEF NoneCaptured
<1>7. \A i \in 1 .. Depth' : i = 1 \/ i = 2
  BY <1>5
<1>8. Rooted'
  <2>1. \A k \in 1 .. Len(scopes') : scopes'[k] \subseteq alive'
    BY <1>6
  <2>2. BackOf(up', main_env') \subseteq alive'
    BY <1>1 DEF MInv, Rooted
  <2>3. \A i \in 1 .. Depth' : frames'[i].env = main_env'
    BY <1>1, <1>3, <1>4, <1>7
  <2> QED
    BY <2>1, <2>2, <2>3 DEF Rooted, Kept
<1>9. Calls'
  BY <1>3, <1>4, <1>7 DEF Calls, CallOf
<1>10. Captured'
  BY <1>3, <1>4, <1>5, <1>7, NothingCaptured
<1>11. Trace'
  <2>1. \A i \in 1 .. Depth' : frames'[i].call = NULL
    BY <1>3, <1>4, <1>7
  <2>2. 0 \in 0 .. Depth /\ 0 <= Depth'
    BY <1>2, <1>5
  <2>3. /\ \A i \in 1 .. 0 : FALSE
        /\ \A i \in 1 .. Depth : i > 0 => frames[i].call = NULL
    BY <1>2
  <2> QED
    BY <1>1, <2>1, <2>2, <2>3, TraceSame DEF MInv
<1> QED
  BY <1>8, <1>9, <1>10, <1>11 DEF MInv

(* No frames, no scopes: the host has the main environment.                *)
LEMMA IdleMem ==
    ASSUME IInv', frames' = <<>>, scopes' = <<>>, NoneCaptured',
           BackOf(up', main_env') \subseteq alive',
           throws' = 0 => call_stack' = NULL
    PROVE  MInv'
<1>1. Depth' = 0 /\ Len(scopes') = 0
  BY DEF Depth
<1>2. Rooted' /\ Calls' /\ Captured'
  BY <1>1 DEF Rooted, Calls, Captured, Building
<1>3. Trace'
  BY <1>1 DEF Trace, InOrder, Exact, OuterCall, InnerCall
<1> QED
  BY <1>2, <1>3 DEF MInv

(* The process ends.                                                       *)
LEMMA ExitMem ==
    ASSUME IInv', Exit
    PROVE  MInv'
<1>1. BackOf(up', main_env') = {}
  BY BackOfFacts DEF Exit, IInv, TypeOK, Refs
<1> QED
  BY <1>1, IdleMem DEF Exit, NoneCaptured

(* The host gets the environment and makes it the main one.                *)
LEMMA ReturnToHostMem ==
    ASSUME IInv, IInv', MInv, ReturnToHost
    PROVE  MInv'
<1>1. /\ Depth = 2 /\ frames' = <<>> /\ scopes' = <<>> /\ Top.f = "list"
      /\ main_env' = Top.env
      /\ env_capture_head' = Top.head /\ env_capture_tail' = Top.tail
      /\ up' = up /\ alive' = alive /\ throws' = throws /\ call_stack' = call_stack
  BY DEF ReturnToHost, ListDone, CapturesBack, heap, At
<1>2. /\ Top = frames[2] /\ 1 \in 1 .. Depth /\ 2 \in 1 .. Depth
      /\ frames[1].f = "try"
  BY <1>1 DEF Top, IInv, Stacked
<1>3. NoneCaptured'
  BY <1>1, <1>2 DEF MInv, Captured, NoneCaptured
<1>4. BackOf(up', main_env') \subseteq alive'
  BY <1>1, <1>2 DEF MInv, Rooted
<1>5. throws' = 0 => call_stack' = NULL
  <2>1. frames[1].call = NULL /\ frames[2].call = NULL
    BY <1>1, <1>2 DEF MInv, Calls, CallOf
  <2>2. \A i \in 1 .. Depth : i = 1 \/ i = 2
    BY <1>1
  <2>3. throws = 0 => OuterCall(frames, call_stack, Depth)
    BY DEF MInv, Trace, InOrder
  <2> QED
    BY <1>1, <2>1, <2>2, <2>3 DEF OuterCall
<1> QED
  BY <1>1, <1>3, <1>4, <1>5, IdleMem

(* A save and the scopes of the exception and of the handler.              *)
LEMMA ThrownScopes ==
    ASSUME NEW scs \in Seq(SUBSET Cells), NEW c \in Cells
    PROVE  /\ Len(Saved(scs, {c}) \o <<{}, {}>>) = Len(scs) + 2
           /\ (Saved(scs, {c}) \o <<{}, {}>>)[Len(scs) + 1] = {}
           /\ (Saved(scs, {c}) \o <<{}, {}>>)[Len(scs) + 2] = {}
           /\ \A k \in 1 .. Len(scs) : (Saved(scs, {c}) \o <<{}, {}>>)[k] =
                  IF k = Len(scs) THEN scs[k] \cup {c} ELSE scs[k]
<1> DEFINE s == Saved(scs, {c})
           t == <<{}, {}>>
           n == Len(scs)
<1>1. {c} \in SUBSET Refs /\ {c} \ {NULL} = {c}
  BY InterpAssumption DEF Refs
<1>2. s \in Seq(SUBSET Cells) /\ Len(s) = n /\ n \in Nat
  BY <1>1, SavedFacts
<1>3. \A k \in 1 .. n : s[k] = IF k = n THEN scs[k] \cup {c} ELSE scs[k]
  BY <1>1, SavedCells
<1>4. t \in Seq(SUBSET Cells) /\ Len(t) = 2 /\ t[1] = {} /\ t[2] = {}
  OBVIOUS
<1> HIDE DEF s, t, n
<1>5. /\ Len(s \o t) = Len(s) + Len(t)
      /\ \A k \in 1 .. Len(s) + Len(t) :
             (s \o t)[k] = IF k <= Len(s) THEN s[k] ELSE t[k - Len(s)]
  BY <1>2, <1>4, ConcatProperties
<1>6. /\ n + 1 \in 1 .. n + 2 /\ n + 2 \in 1 .. n + 2 /\ ~(n + 1 <= n) /\ ~(n + 2 <= n)
      /\ n + 1 - n = 1 /\ n + 2 - n = 2 /\ \A k \in 1 .. n : k \in 1 .. n + 2 /\ k <= n
  BY <1>2
<1>7. /\ Len(s \o t) = n + 2 /\ (s \o t)[n + 1] = {} /\ (s \o t)[n + 2] = {}
      /\ \A k \in 1 .. n : (s \o t)[k] = s[k]
  BY <1>2, <1>4, <1>5, <1>6
<1> QED
  BY <1>3, <1>7 DEF s, t, n

(* A throw leaves the frames below the try as they are; the handler is     *)
(* evaluated where the try was.                                            *)
LEMMA ThrowMem ==
    ASSUME IInv, IInv', MInv, NEW c \in Cells, Throw(c)
    PROVE  MInv'
<1> DEFINE m == last_try_marker
           n == Len(scopes)
           p == SubSeq(frames, 1, m)
           fr == [frames[m] EXCEPT !.at = "catch"]
           q == [p EXCEPT ![m] = fr]
           nf == NewFrame("eval", "args", frames[m].env, n + 1)
           s == Saved(scopes, {c})
<1>1. /\ At("eval", "args") /\ c \notin alive /\ m > 1
      /\ alive' = alive \cup {c} /\ up' = [up EXCEPT ![c] = call_stack]
      /\ throws' = throws + 1
      /\ main_env' = main_env /\ UNCHANGED captures
      /\ frames' = Append([p EXCEPT ![m].at = "catch"], nf)
      /\ scopes' = s \o <<{}, {}>>
  BY DEF Throw, PushCall
<1>2. /\ Depth > 0 /\ Depth \in Nat /\ Depth \in 1 .. Depth /\ n \in Nat
      /\ InnerTry(m, Depth) /\ TypeOK
  BY <1>1, TopFacts, FramesFacts DEF IInv, At
<1>3. m \in 1 .. Depth /\ m \in Nat /\ m <= Depth /\ frames[m].f = "try"
      /\ frames[m] \in Frame
  BY <1>2, FramesFacts DEF InnerTry
<1>4. p \in Seq(Frame) /\ Len(p) = m /\ \A i \in 1 .. m : p[i] = frames[i]
  BY <1>2, <1>3, FramesFacts, PrefixFacts
<1>5. m \in 1 .. Len(p) /\ p[m] = frames[m]
  BY <1>3, <1>4
<1>6. [p EXCEPT ![m].at = "catch"] = q
  BY <1>5
<1>7. /\ fr \in Frame /\ fr.f = frames[m].f /\ fr.size = frames[m].size
      /\ fr.env = frames[m].env /\ fr.call = frames[m].call /\ fr.at = "catch"
      /\ fr.head = frames[m].head /\ fr.tail = frames[m].tail
  BY <1>3 DEF Frame
<1>8. /\ nf.f = "eval" /\ nf.at = "args" /\ nf.env = frames[m].env
      /\ nf.size = n + 1 /\ nf.call = NULL
  BY NewFrameFields
<1>9. scopes \in Seq(SUBSET Cells)
  BY DEF IInv, TypeOK
<1>10. /\ Len(scopes') = n + 2 /\ scopes'[n + 1] = {} /\ scopes'[n + 2] = {}
       /\ \A k \in 1 .. n :
              scopes'[k] = IF k = n THEN scopes[k] \cup {c} ELSE scopes[k]
  <2> DEFINE r == s \o <<{}, {}>>
  <2>1. /\ Len(r) = n + 2 /\ r[n + 1] = {} /\ r[n + 2] = {}
        /\ \A k \in 1 .. n : r[k] = IF k = n THEN scopes[k] \cup {c} ELSE scopes[k]
    BY <1>9, ThrownScopes
  <2>2. scopes' = r
    BY <1>1
  <2> HIDE DEF r
  <2> QED
    BY <2>1, <2>2
<1> HIDE DEF n, p, fr, nf
<1>11. q \in Seq(Frame) /\ Len(q) = m /\ q[m] = fr
       /\ \A i \in 1 .. m : i # m => q[i] = frames[i]
  BY <1>4, <1>5, <1>7, UpdatedFacts
<1> HIDE DEF q
<1>12. /\ Depth' = m + 1 /\ frames'[m + 1] = nf
       /\ \A i \in 1 .. m : frames'[i] = q[i]
  <2>1. frames' = Append(q, nf)
    BY <1>1, <1>6
  <2> HIDE DEF m
  <2> QED
    BY <1>3, <1>11, <2>1 DEF Depth
<1>14. Shape(m)
  <2>1. m \in 0 .. Depth /\ m <= Depth'
    BY <1>3, <1>12
  <2>2. ASSUME NEW i \in 1 .. m
        PROVE  frames'[i] = IF i = m THEN fr ELSE frames[i]
    BY <1>11, <1>12, <2>2
  <2> HIDE DEF m
  <2> QED
    BY <1>7, <2>1, <2>2 DEF Shape
<1>15. ScopesKept
  <2> SUFFICES ASSUME NEW k \in 1 .. Len(scopes'), k <= n
               PROVE  scopes[k] \subseteq scopes'[k]
    BY DEF ScopesKept, n
  <2>1. k \in 1 .. n
    BY <1>2
  <2> QED
    BY <1>10, <2>1
<1>16. ChainsKept
  <2>1. \A y \in alive : up'[y] = up[y]
    BY <1>1, <1>2 DEF TypeOK
  <2> QED
    BY <1>1, <2>1, FreshKeepsChains DEF IInv
<1>17. frames'[m] = fr /\ \A i \in 1 .. Depth' : i > m => i = m + 1
  BY <1>3, <1>11, <1>12
<1>18. Rooted'
  <2>1. ASSUME NEW k \in 1 .. Len(scopes')
        PROVE  scopes'[k] \subseteq alive'
    <3>1. k \in 1 .. n \/ k = n + 1 \/ k = n + 2
      BY <1>2, <1>10
    <3>2. k \in 1 .. n => scopes[k] \subseteq alive
      BY DEF MInv, Rooted, n
    <3> QED
      BY <1>1, <1>10, <3>1, <3>2
  <2>2. ASSUME NEW i \in 1 .. Depth'
        PROVE  \E j \in 1 .. Depth : /\ frames'[i].env = frames[j].env
                                     /\ Own(frames[j]) <= Own(frames'[i])
    <3>1. CASE i = m + 1
      <4>1. Own(frames[m]) <= n /\ Own(frames'[i]) = n + 2 /\ Own(frames[m]) \in Nat
        BY <1>2, <1>3, <1>8, <1>12, <3>1, OwnFacts DEF OwnBounds, Own, n
      <4>2. Own(frames[m]) <= Own(frames'[i])
        BY <1>2, <4>1
      <4> QED
        BY <1>3, <1>8, <1>12, <3>1, <4>2
    <3>2. CASE i # m + 1
      <4>1. i \in 1 .. m /\ i \in 1 .. Depth
        <5>1. ~(i > m) /\ i \in Nat /\ i >= 1
          BY <1>17, <3>2, OwnFactsNext DEF OwnBounds
        <5> HIDE DEF m
        <5> QED
          BY <1>2, <1>3, <5>1
      <4>2. frames'[i] = IF i = m THEN fr ELSE frames[i]
        BY <1>11, <1>12, <4>1
      <4>3. frames'[i].env = frames[i].env /\ Own(frames[i]) = Own(frames'[i])
        BY <1>7, <4>2 DEF Own
      <4>4. Own(frames[i]) <= Own(frames'[i])
        BY <4>1, <4>3, OwnFacts DEF OwnBounds
      <4> QED
        BY <4>1, <4>3, <4>4
    <3> QED
      BY <3>1, <3>2
  <2> QED
    BY <1>1, <1>15, <1>16, <2>1, <2>2, RootedStep DEF MInv
<1>19. Calls'
  <2>1. frames[m].call = NULL
    BY <1>3 DEF MInv, Calls, CallOf
  <2>2. ASSUME NEW i \in 1 .. Depth', i >= m
        PROVE  CallOf(i)'
    <3>1. i = m \/ (i = m + 1 /\ ~(i < Depth'))
      BY <1>3, <1>12, <2>2
    <3>2. CASE i = m
      BY <1>3, <1>7, <1>17, <2>1, <3>2 DEF CallOf
    <3>3. CASE i = m + 1 /\ ~(i < Depth')
      BY <1>8, <1>12, <3>3 DEF CallOf
    <3> QED
      BY <3>1, <3>2, <3>3
  <2> QED
    BY <1>14, <1>15, <2>2, CallsStep DEF MInv
<1>20. Captured'
  <2>1. NoneCaptured'
    BY <1>1, NoneAtArgs DEF NoneCaptured, captures
  <2>2. ASSUME NEW i \in 1 .. Depth', frames'[i].f = "list"
        PROVE  /\ frames'[i].head = NULL /\ frames'[i].tail = NULL
               /\ frames'[i].defs = {}
    <3>1. i # m + 1 /\ i # m
      BY <1>3, <1>7, <1>8, <1>12, <1>17, <2>2
    <3>2. i \in 1 .. m /\ i \in 1 .. Depth /\ i \in 1 .. Depth - 1
      BY <1>2, <1>3, <1>12, <3>1
    <3>3. frames'[i] = frames[i]
      BY <1>11, <1>12, <3>1, <3>2
    <3>4. ~Building
      BY <1>1 DEF Building, At
    <3> QED
      BY <2>2, <3>2, <3>3, <3>4 DEF MInv, Captured
  <2> QED
    BY <2>1, <2>2, NothingCaptured
<1>21. Trace'
  <2>1. throws \in Nat
    BY <1>2, FramesFacts DEF TypeOK
  <2>2. ~(throws' = 0)
    BY <1>1, <2>1
  <2> QED
    BY <2>2 DEF Trace
<1> QED
  BY <1>18, <1>19, <1>20, <1>21 DEF MInv
-----------------------------------------------------------------------------
(* A form is over and with it its entry on the call stack.                 *)
LEMMA CallPopped ==
    ASSUME IInv, IInv', MInv, Depth' \in 1 .. Depth, Shape(Depth'),
           frames'[Depth'].env = frames[Depth'].env,
           frames'[Depth'].at = "done", frames'[Depth'].call = NULL,
           frames[Depth'].f = "eval",
           \/ unpaired' = TRUE
           \/ unpaired' = unpaired /\ frames[Depth'].call # NULL,
           \A i \in 1 .. Depth : i > Depth' => frames[i].call = NULL,
           Len(scopes') <= Len(scopes),
           \A k \in 1 .. Len(scopes') : scopes'[k] = scopes[k],
           call_stack' = PopCall, UNCHANGED <<heap, main_env, throws>>
    PROVE  Rooted' /\ Calls' /\ Trace'
<1>1. PICK n \in 1 .. Depth : n = Depth'
  OBVIOUS
<1>2. /\ n \in Nat /\ Depth \in Nat /\ n <= Depth /\ n \in 1 .. n
      /\ Len(scopes) \in Nat /\ Len(scopes') \in Nat
      /\ up' = up /\ alive' = alive /\ main_env' = main_env /\ throws' = throws
  BY OwnFacts, OwnFactsNext DEF OwnBounds, heap
<1>3. ScopesKept /\ ChainsKept
  BY <1>2 DEF ScopesKept, ChainsKept
<1>4. Rooted'
  <2>1. ASSUME NEW k \in 1 .. Len(scopes')
        PROVE  scopes'[k] \subseteq alive'
    <3>1. k \in 1 .. Len(scopes)
      BY <1>2
    <3> QED
      BY <1>2, <3>1 DEF MInv, Rooted
  <2>2. ASSUME NEW i \in 1 .. Depth'
        PROVE  \E j \in 1 .. Depth : /\ frames'[i].env = frames[j].env
                                     /\ Own(frames[j]) <= Own(frames'[i])
    <3>1. i \in 1 .. Depth
      BY <1>1, <1>2
    <3>2. frames'[i].env = frames[i].env /\ Own(frames'[i]) = Own(frames[i])
      BY DEF Shape, Own
    <3>3. Own(frames[i]) <= Own(frames'[i])
      BY <3>1, <3>2, OwnFacts DEF OwnBounds
    <3> QED
      BY <3>1, <3>2, <3>3
  <2> QED
    BY <1>2, <1>3, <2>1, <2>2, RootedStep DEF MInv
<1>5. Calls'
  <2>1. ASSUME NEW i \in 1 .. Depth', i >= Depth'
        PROVE  CallOf(i)'
    <3>1. i = Depth' /\ ~(i < Depth')
      BY <1>1, <1>2, <2>1
    <3> QED
      BY <3>1 DEF CallOf
  <2> QED
    BY <1>3, <2>1, CallsStep DEF MInv
<1>6. Trace'
  <2>1. \A i \in 1 .. Depth' : i < Depth' => frames'[i].call = frames[i].call
    BY <1>1, <1>2 DEF Shape
  <2> QED
    BY <1>2, <2>1, TracePop DEF MInv
<1> QED
  BY <1>4, <1>5, <1>6

(* What a list of forms finds captured when one of them is over.           *)
LEMMA CapturedFacts ==
    ASSUME IInv, MInv, Depth > 0, Top.f = "eval", frames[Depth - 1].f = "list"
    PROVE  /\ BackOf(up, env_capture_head) \subseteq alive
           /\ {env_capture_head, env_capture_tail} \subseteq alive \cup {NULL}
           /\ env_capture_head = NULL <=> env_capture_tail = NULL
           /\ env_capture_tail # NULL =>
                  \A i \in 1 .. Depth : frames[i].call # env_capture_tail
<1>1. Depth > 1 /\ Len(scopes) \in 1 .. Len(scopes)
  <2>1. Depth > 1 /\ Len(scopes) = Top.size + 1 /\ Top.size \in Nat
    BY TopFacts
  <2> QED
    BY <2>1
<1>2. CASE Building
  <2>1. Captures(frames[Depth - 1].defs)
    BY <1>2 DEF MInv, Captured
  <2>2. scopes[Len(scopes)] \subseteq alive
    BY <1>1 DEF MInv, Rooted
  <2> QED
    BY <2>1, <2>2 DEF Captures
<1>3. CASE ~Building
  <2>1. NoneCaptured
    BY <1>3 DEF MInv, Captured
  <2>2. BackOf(up, env_capture_head) = {}
    BY <2>1, BackOfFacts DEF NoneCaptured, IInv, TypeOK, Refs
  <2> QED
    BY <2>1, <2>2 DEF NoneCaptured
<1> QED
  BY <1>2, <1>3

(* A def has bound its names and its entry is popped.                      *)
LEMMA DefDoneMem ==
    ASSUME IInv, IInv', MInv, DefDone
    PROVE  MInv'
<1>1. /\ Depth > 0 /\ Top.f = "eval" /\ Top.at = "bind"
      /\ frames' = Returned(frames) /\ call_stack' = PopCall
      /\ UNCHANGED <<scopes, heap, main_env, captures, throws, unpaired>>
  BY DEF DefDone, At
<1>2. /\ Depth \in Nat /\ Depth \in 1 .. Depth /\ Depth > 1
      /\ Depth - 1 \in 1 .. Depth /\ Depth - 1 # Depth
      /\ Top = frames[Depth] /\ frames \in Seq(Frame) /\ Len(frames) = Depth
      /\ Len(scopes) \in Nat
  BY <1>1, TopFacts, FramesFacts DEF IInv
<1>3. /\ Len(frames') = Depth
      /\ \A i \in 1 .. Depth : /\ i # Depth => frames'[i] = frames[i]
                              /\ frames'[i].f = frames[i].f
                              /\ frames'[i].size = frames[i].size
  BY <1>1, <1>2, ReturnedFacts
<1>4. /\ frames'[Depth].at = "done" /\ frames'[Depth].call = NULL
      /\ frames'[Depth].env = frames[Depth].env
      /\ frames'[Depth].head = frames[Depth].head /\ frames'[Depth].tail = frames[Depth].tail
  BY <1>1, <1>2, ReturnedFields
<1>5. Depth' = Depth
  BY <1>3 DEF Depth
<1>6. Shape(Depth)
  <2>1. Depth \in 0 .. Depth /\ Depth <= Depth'
    BY <1>2, <1>5
  <2> QED
    BY <1>3, <1>4, <2>1 DEF Shape
<1>7. frames[Depth].call # NULL /\ frames[Depth - 1].f = "list"
  BY <1>1, <1>2 DEF MInv, Calls, CallOf
<1>8. Rooted' /\ Calls' /\ Trace'
  <2>1. \A i \in 1 .. Depth : ~(i > Depth')
    BY <1>2, <1>5
  <2>2. Len(scopes') <= Len(scopes) /\ \A k \in 1 .. Len(scopes') : scopes'[k] = scopes[k]
    BY <1>1, <1>2
  <2>3. UNCHANGED <<heap, main_env, throws, unpaired>> /\ Depth' \in 1 .. Depth
    BY <1>1, <1>2, <1>5
  <2>4. /\ Shape(Depth') /\ frames'[Depth'].env = frames[Depth'].env
        /\ frames'[Depth'].at = "done" /\ frames'[Depth'].call = NULL
        /\ frames[Depth'].f = "eval" /\ frames[Depth'].call # NULL
    BY <1>1, <1>2, <1>4, <1>5, <1>6, <1>7
  <2> QED
    BY <1>1, <2>1, <2>2, <2>3, <2>4, CallPopped
<1>9. Captured'
  <2>1. Building /\ Building'
    BY <1>1, <1>2, <1>3, <1>4, <1>5, <1>7 DEF Building, Top
  <2> DEFINE D == frames[Depth - 1].defs
  <2>2. Captures(D) /\ D \subseteq Cells
    <3>1. Captures(D)
      BY <2>1 DEF MInv, Captured
    <3>2. frames[Depth - 1] \in Frame
      BY <1>2
    <3> QED
      BY <3>1, <3>2 DEF Frame
  <2>3. frames'[Depth' - 1].defs = D
    BY <1>2, <1>3, <1>5
  <2> HIDE DEF D
  <2>4. \A i \in 1 .. Depth' : frames'[i].call \notin D
    BY <1>3, <1>4, <1>5, <2>2, InterpAssumption DEF Captures
  <2>5. Captures(frames[Depth - 1].defs)'
    BY <1>1, <2>2, <2>3, <2>4 DEF Captures, heap, captures
  <2>6. /\ \A i \in 1 .. Depth' : frames'[i].f = "list" =>
              frames'[i].head = NULL /\ frames'[i].tail = NULL
        /\ \A i \in 1 .. Depth' - 1 :
              frames'[i].f = "list" => frames'[i].defs = {} \/ i = Depth' - 1
    <3>1. \A i \in 1 .. Depth - 1 : i \in 1 .. Depth /\ i # Depth
      BY <1>2
    <3> QED
      BY <1>3, <1>4, <1>5, <3>1 DEF MInv, Captured
  <2> QED
    BY <1>2, <1>5, <2>1, <2>5, <2>6 DEF Captured
<1> QED
  BY <1>8, <1>9 DEF MInv

(* A constructor without a name pops an entry that is not its own.         *)
LEMMA ConstructMem ==
    ASSUME IInv, IInv', MInv, Construct
    PROVE  MInv'
<1>1. /\ Depth > 0 /\ Top.f = "eval" /\ Top.at = "args"
      /\ frames' = Returned(frames) /\ call_stack' = PopCall /\ unpaired' = TRUE
      /\ UNCHANGED <<scopes, heap, main_env, captures, throws>>
  BY DEF Construct, At
<1>2. /\ Depth \in Nat /\ Depth \in 1 .. Depth /\ Depth > 1
      /\ Top = frames[Depth] /\ frames \in Seq(Frame) /\ Len(frames) = Depth
      /\ Len(scopes) \in Nat
  BY <1>1, TopFacts, FramesFacts DEF IInv
<1>3. /\ Len(frames') = Depth
      /\ \A i \in 1 .. Depth : /\ i # Depth => frames'[i] = frames[i]
                              /\ frames'[i].f = frames[i].f
                              /\ frames'[i].size = frames[i].size
  BY <1>1, <1>2, ReturnedFacts
<1>4. /\ frames'[Depth].at = "done" /\ frames'[Depth].call = NULL
      /\ frames'[Depth].env = frames[Depth].env
      /\ frames'[Depth].head = frames[Depth].head /\ frames'[Depth].tail = frames[Depth].tail
  BY <1>1, <1>2, ReturnedFields
<1>5. Depth' = Depth
  BY <1>3 DEF Depth
<1>6. Rooted' /\ Calls' /\ Trace'
  <2>1. Shape(Depth')
    <3>1. Depth \in 0 .. Depth /\ Depth <= Depth'
      BY <1>2, <1>5
    <3> QED
      BY <1>3, <1>4, <1>5, <3>1 DEF Shape
  <2>2. \A i \in 1 .. Depth : ~(i > Depth')
    BY <1>2, <1>5
  <2>3. Len(scopes') <= Len(scopes) /\ \A k \in 1 .. Len(scopes') : scopes'[k] = scopes[k]
    BY <1>1, <1>2
  <2>4. /\ frames'[Depth'].env = frames[Depth'].env
        /\ frames'[Depth'].at = "done" /\ frames'[Depth'].call = NULL
        /\ frames[Depth'].f = "eval" /\ Depth' \in 1 .. Depth
    BY <1>1, <1>2, <1>4, <1>5
  <2> QED
    BY <1>1, <2>1, <2>2, <2>3, <2>4, CallPopped
<1>7. Captured'
  <2>1. ~Building /\ NoneCaptured'
    BY <1>1 DEF Building, MInv, Captured, NoneCaptured, captures
  <2>2. ASSUME NEW i \in 1 .. Depth', frames'[i].f = "list"
        PROVE  /\ frames'[i].head = NULL /\ frames'[i].tail = NULL
               /\ i < Depth' => frames'[i].defs = {}
    <3>1. i \in 1 .. Depth /\ i # Depth /\ i \in 1 .. Depth - 1
      BY <1>1, <1>2, <1>3, <1>5, <2>2
    <3> QED
      BY <1>3, <2>1, <2>2, <3>1 DEF MInv, Captured
  <2> QED
    BY <2>1, <2>2, NothingCaptured
<1> QED
  BY <1>6, <1>7 DEF MInv

(* A collection frees nothing of all this.                                 *)
LEMMA CollectMem ==
    ASSUME IInv, IInv', MInv, Collect
    PROVE  MInv'
<1>1. /\ alive' = alive \cap Collected /\ Depth > 0
      /\ up' = [c \in Cells |-> IF c \in alive' THEN up[c] ELSE NULL]
      /\ frames' = frames /\ scopes' = scopes /\ main_env' = main_env
      /\ call_stack' = call_stack /\ throws' = throws /\ unpaired' = unpaired
      /\ env_capture_head' = env_capture_head /\ env_capture_tail' = env_capture_tail
  BY DEF Collect, captures, At
<1>2. /\ Depth' = Depth /\ Top' = Top /\ Depth \in Nat /\ Depth > 1
      /\ Len(scopes) \in 1 .. Len(scopes)
      /\ TypeOK /\ up \in [Cells -> Refs] /\ up' \in [Cells -> Refs] /\ main_env \in Refs
  <2>1. Depth' = Depth /\ Top' = Top
    BY <1>1 DEF Depth, Top
  <2>2. Len(scopes) = Top.size + 1 /\ Top.size \in Nat /\ Depth \in Nat /\ Depth > 1
    BY <1>1, TopFacts
  <2>3. Len(scopes) \in 1 .. Len(scopes)
    BY <2>2
  <2> QED
    BY <2>1, <2>2, <2>3 DEF IInv, TypeOK
<1>3. ASSUME NEW k \in 1 .. Len(scopes)
      PROVE  scopes[k] \subseteq alive'
  BY <1>1, <1>2, CollectedFacts DEF MInv, Rooted
<1>4. ASSUME NEW x \in Refs, BackOf(up, x) \subseteq alive,
             x = NULL \/ x \in Collected
      PROVE  BackOf(up', x) = BackOf(up, x) /\ BackOf(up', x) \subseteq alive'
  <2>1. BackOf(up, x) \subseteq alive' /\ alive' \subseteq Cells
    BY <1>1, <1>2, <1>4, CollectedFacts DEF TypeOK
  <2>2. \A y \in BackOf(up, x) : up'[y] = up[y]
    BY <1>1, <2>1
  <2> QED
    BY <1>2, <2>1, <2>2, BackOfSame
<1>5. Rooted'
  <2>1. BackOf(up', main_env') \subseteq alive'
    BY <1>1, <1>2, <1>4, CollectedFacts DEF MInv, Rooted
  <2>2. ASSUME NEW i \in 1 .. Depth
        PROVE  /\ BackOf(up', frames[i].env) \subseteq alive'
               /\ Kept(frames[i].env, Own(frames[i]))
    <3>1. /\ BackOf(up, frames[i].env) \subseteq alive
          /\ Kept(frames[i].env, Own(frames[i])) /\ frames[i].env \in Refs
      BY FramesFacts, FrameFields DEF IInv, MInv, Rooted
    <3>2. frames[i].env = NULL \/ frames[i].env \in Collected
      <4>1. \A k \in 1 .. Own(frames[i]) : k \in 1 .. Len(scopes)
        BY OwnFacts DEF OwnBounds
      <4> QED
        BY <1>2, <3>1, <4>1, CollectedFacts DEF Kept
    <3> QED
      BY <1>4, <3>1, <3>2
  <2> QED
    BY <1>1, <1>2, <1>3, <2>1, <2>2 DEF Rooted, Kept
<1>6. Calls'
  BY <1>1, <1>2 DEF MInv, Calls, CallOf
<1>7. Captured'
  <2>1. Building' <=> Building
    BY <1>1, <1>2 DEF Building
  <2>2. ASSUME Building
        PROVE  Captures(frames[Depth - 1].defs)'
    <3>1. Captures(frames[Depth - 1].defs)
      BY <2>2 DEF MInv, Captured
    <3>2. env_capture_head \in Refs
      BY <1>2 DEF TypeOK
    <3>3. scopes[Len(scopes)] \subseteq alive'
      BY <1>2, <1>3
    <3>4. \A y \in BackOf(up, env_capture_head) : up'[y] = up[y] /\ y \in alive'
      <4>1. alive' \subseteq Cells
        BY <1>1, <1>2, CollectedFacts
      <4> QED
        BY <1>1, <3>1, <3>3, <4>1 DEF Captures
    <3>5. BackOf(up', env_capture_head) = BackOf(up, env_capture_head)
      BY <1>2, <3>2, <3>4, BackOfSame
    <3> QED
      BY <1>1, <1>2, <3>1, <3>5 DEF Captures
  <2> QED
    BY <1>1, <1>2, <2>1, <2>2 DEF MInv, Captured, NoneCaptured
<1>8. Trace'
  <2>1. \A i \in 1 .. Depth : frames[i].call # NULL => up'[frames[i].call] = up[frames[i].call]
    <3> SUFFICES ASSUME NEW i \in 1 .. Depth, frames[i].call # NULL
                 PROVE  up'[frames[i].call] = up[frames[i].call]
      OBVIOUS
    <3>1. frames[i].call \in alive' /\ frames[i].call \in Cells
      BY <1>2, <1>3, CallsAlive DEF TypeOK
    <3> QED
      BY <1>1, <3>1
  <2>2. Depth \in 0 .. Depth /\ Depth <= Depth' /\ \A i \in 1 .. Depth : ~(i > Depth)
    BY <1>2
  <2> QED
    BY <1>1, <1>2, <2>1, <2>2, TraceSame DEF MInv
<1> QED
  BY <1>5, <1>6, <1>7, <1>8 DEF MInv
-----------------------------------------------------------------------------
(* The list a def belongs to is the one it is a form of.                   *)
LEMMA ListBelow ==
    ASSUME IInv, Depth > 0, Top.f # "list", frames[Depth - 1].f = "list"
    PROVE  ListOf(Depth) = Depth - 1
<1>1. /\ Depth \in Nat /\ Depth > 1 /\ Depth - 1 \in 1 .. Depth /\ Top = frames[Depth]
  BY TopFacts
<1>2. \A k \in Depth - 1 + 1 .. Depth : frames[k].f # "list"
  BY <1>1
<1>3. ASSUME NEW l \in 1 .. Depth, frames[l].f = "list",
             \A k \in l + 1 .. Depth : frames[k].f # "list"
      PROVE  l = Depth - 1
  <2>1. l # Depth
    BY <1>1, <1>3
  <2>2. ~(l < Depth - 1)
    <3>1. l < Depth - 1 => Depth - 1 \in l + 1 .. Depth
      BY <1>1
    <3> QED
      BY <1>3, <3>1
  <2> QED
    BY <1>1, <2>1, <2>2
<1> QED
  BY <1>1, <1>2, <1>3 DEF ListOf

(* What a save leaves in each scope.                                       *)
LEMMA SavedScopes ==
    ASSUME NEW scs \in Seq(SUBSET Cells), NEW cells \in SUBSET Refs
    PROVE  /\ Len(Saved(scs, cells)) = Len(scs)
           /\ \A k \in 1 .. Len(scs) : Saved(scs, cells)[k] =
                  IF k = Len(scs) THEN scs[k] \cup (cells \ {NULL}) ELSE scs[k]
BY SavedFacts, SavedCells

(* A new binding is captured in front of the others.                       *)
LEMMA BindMem ==
    ASSUME IInv, IInv', MInv, NEW e \in Cells, Bind(e)
    PROVE  MInv'
<1> DEFINE n == Depth
           k == Depth - 1
           fr == [frames[k] EXCEPT !.defs = @ \cup {e}]
           D == frames[k].defs
<1>1. /\ n > 0 /\ Top.f = "eval" /\ Top.at = "bind" /\ e \notin alive
      /\ alive' = alive \cup {e} /\ up' = [up EXCEPT ![e] = env_capture_head]
      /\ env_capture_head' = e
      /\ env_capture_tail' = IF env_capture_tail = NULL THEN e ELSE env_capture_tail
      /\ scopes' = Saved(scopes, {e})
      /\ frames' = [frames EXCEPT ![ListOf(n)].defs = @ \cup {e}]
      /\ main_env' = main_env /\ call_stack' = call_stack /\ throws' = throws /\ unpaired' = unpaired
  BY DEF Bind, At
<1>2. /\ n \in Nat /\ n \in 1 .. n /\ n > 1 /\ k \in 1 .. n /\ k # n
      /\ Top = frames[n] /\ frames \in Seq(Frame) /\ Len(frames) = n
      /\ Len(scopes) \in Nat /\ Len(scopes) \in 1 .. Len(scopes)
      /\ Len(scopes) = frames[n].size + 1 /\ k \in 1 .. n - 1
      /\ up \in [Cells -> Refs] /\ up' \in [Cells -> Refs] /\ env_capture_head \in Refs
      /\ alive \subseteq Cells /\ scopes \in Seq(SUBSET Cells)
  <2>1. /\ n \in Nat /\ n \in 1 .. n /\ n > 1 /\ k \in 1 .. n
        /\ Top = frames[n] /\ Len(scopes) = Top.size + 1 /\ Top.size \in Nat
        /\ frames \in Seq(Frame) /\ Len(frames) = n
    BY <1>1, TopFacts, FramesFacts DEF IInv
  <2>2. k # n /\ k \in 1 .. n - 1 /\ Len(scopes) \in 1 .. Len(scopes)
    BY <2>1
  <2> QED
    BY <2>1, <2>2 DEF IInv, TypeOK
<1>3. frames[n].call # NULL /\ frames[k].f = "list"
  BY <1>1, <1>2 DEF MInv, Calls, CallOf
<1>4. ListOf(n) = k
  BY <1>1, <1>3, ListBelow
<1>5. frames[k] \in Frame
  BY <1>2
<1>6. /\ fr \in Frame /\ fr.f = "list" /\ fr.size = frames[k].size /\ fr.env = frames[k].env
      /\ fr.at = frames[k].at /\ fr.call = frames[k].call
      /\ fr.head = frames[k].head /\ fr.tail = frames[k].tail /\ fr.defs = D \cup {e}
  BY <1>3, <1>5 DEF Frame
<1>7. frames' = [frames EXCEPT ![k] = fr]
  BY <1>1, <1>2, <1>4
<1> HIDE DEF fr, D
<1>8. /\ Len(frames') = n
      /\ \A i \in 1 .. n : frames'[i] = IF i = k THEN fr ELSE frames[i]
  BY <1>2, <1>6, <1>7, UpdatedFacts
<1>9. Depth' = n
  BY <1>8 DEF Depth
<1>10. Shape(k)
  <2>1. k \in 0 .. Depth /\ k <= Depth' /\ \A i \in 1 .. k : i \in 1 .. n
    BY <1>2, <1>9
  <2> HIDE DEF n, k
  <2> QED
    BY <1>3, <1>6, <1>8, <2>1 DEF Shape
<1>11. /\ Len(scopes') = Len(scopes)
       /\ \A j \in 1 .. Len(scopes) :
              scopes'[j] = IF j = Len(scopes) THEN scopes[j] \cup {e} ELSE scopes[j]
  <2>1. {e} \in SUBSET Refs /\ {e} \ {NULL} = {e}
    BY InterpAssumption DEF Refs
  <2> DEFINE cells == {e}
             r == Saved(scopes, cells)
  <2>2. cells \in SUBSET Refs /\ cells \ {NULL} = {e} /\ scopes' = r
    BY <1>1, <2>1
  <2> HIDE DEF cells
  <2>3. /\ Len(r) = Len(scopes)
        /\ \A j \in 1 .. Len(scopes) : r[j] =
               IF j = Len(scopes) THEN scopes[j] \cup (cells \ {NULL}) ELSE scopes[j]
    BY <1>2, <2>2, SavedScopes
  <2> HIDE DEF r
  <2> QED
    BY <2>2, <2>3
<1>12. ScopesKept
  BY <1>11 DEF ScopesKept
<1>13. ChainsKept /\ \A y \in alive : up'[y] = up[y]
  <2>1. \A y \in alive : up'[y] = up[y]
    BY <1>1, <1>2
  <2> QED
    BY <1>1, <2>1, FreshKeepsChains DEF IInv
<1>14. frames'[n] = frames[n] /\ frames'[k] = fr
  BY <1>2, <1>8
<1>15. Rooted'
  <2>1. ASSUME NEW j \in 1 .. Len(scopes')
        PROVE  scopes'[j] \subseteq alive'
    <3>1. j \in 1 .. Len(scopes) /\ scopes[j] \subseteq alive
      BY <1>11 DEF MInv, Rooted
    <3> QED
      BY <1>1, <1>11, <3>1
  <2>2. ASSUME NEW i \in 1 .. Depth'
        PROVE  \E j \in 1 .. Depth : /\ frames'[i].env = frames[j].env
                                     /\ Own(frames[j]) <= Own(frames'[i])
    <3>1. i \in 1 .. Depth
      BY <1>9
    <3>2. frames'[i].env = frames[i].env /\ Own(frames'[i]) = Own(frames[i])
      BY <1>3, <1>6, <1>8, <3>1 DEF Own
    <3>3. Own(frames[i]) <= Own(frames'[i])
      BY <3>1, <3>2, OwnFacts DEF OwnBounds
    <3> QED
      BY <3>1, <3>2, <3>3
  <2> QED
    BY <1>1, <1>12, <1>13, <2>1, <2>2, RootedStep DEF MInv
<1>16. Calls'
  <2>1. ASSUME NEW i \in 1 .. Depth', i >= k
        PROVE  CallOf(i)'
    <3>1. i = k \/ (i = n /\ ~(i < Depth') /\ i - 1 = k)
      BY <1>2, <1>9, <2>1
    <3>2. CASE i = k
      <4>1. frames[k].call = NULL
        BY <1>2, <1>3 DEF MInv, Calls, CallOf
      <4> QED
        BY <1>6, <1>14, <3>2, <4>1 DEF CallOf
    <3>3. CASE i = n /\ ~(i < Depth') /\ i - 1 = k
      <4>1. frames[n].call \in scopes'[frames[n].size + 1]
        BY <1>2, <1>3, <1>11 DEF MInv, Calls, CallOf
      <4> QED
        BY <1>1, <1>2, <1>3, <1>6, <1>14, <3>3, <4>1 DEF CallOf
    <3> QED
      BY <3>1, <3>2, <3>3
  <2> QED
    BY <1>10, <1>12, <2>1, CallsStep DEF MInv
<1>17. Captured'
  <2>1. Building /\ Building'
    BY <1>1, <1>2, <1>3, <1>6, <1>9, <1>14 DEF Building, Top
  <2>2. Captures(D)
    BY <2>1 DEF MInv, Captured, D
  <2>3. D \subseteq alive
    BY <1>2, <2>2 DEF MInv, Rooted, Captures
  <2>4. BackOf(up', e) = {e} \cup D
    <3>1. BackOf(up', env_capture_head) = BackOf(up, env_capture_head)
      BY <1>2, <1>13, <2>2, <2>3, BackOfSame DEF Captures
    <3>2. up'[e] = env_capture_head
      BY <1>1, <1>2
    <3> QED
      BY <1>2, <2>2, <3>1, <3>2, BackOfCons DEF Captures
  <2>5. e # NULL
    BY InterpAssumption
  <2>6. \A i \in 1 .. n : frames'[i].call \notin D \cup {e}
    <3>1. \A i \in 1 .. n : frames'[i].call = frames[i].call
      BY <1>6, <1>8
    <3>2. \A i \in 1 .. n : frames[i].call # e
      BY <1>1, <2>5, CallsAlive DEF n
    <3> QED
      BY <2>2, <3>1, <3>2 DEF Captures, n
  <2>7. Captures(frames[Depth - 1].defs)'
    <3>1. frames'[Depth' - 1].defs = D \cup {e}
      BY <1>6, <1>9, <1>14
    <3>2. D \cup {e} \subseteq scopes'[Len(scopes')]
      BY <1>2, <1>11, <2>2 DEF Captures
    <3>3. /\ env_capture_head' # NULL /\ env_capture_tail' # NULL
          /\ {env_capture_head', env_capture_tail'} \subseteq D \cup {e}
      BY <1>1, <2>2, <2>5 DEF Captures
    <3> DEFINE E == D \cup {e}
    <3>4. /\ E # {} /\ env_capture_head' # NULL /\ env_capture_tail' # NULL
          /\ {env_capture_head', env_capture_tail'} \subseteq E
          /\ E \subseteq scopes'[Len(scopes')]
          /\ BackOf(up', env_capture_head') = E
          /\ frames'[Depth' - 1].defs = E
          /\ \A i \in 1 .. Depth' : frames'[i].call \notin E
      BY <1>1, <1>9, <2>4, <2>6, <3>1, <3>2, <3>3
    <3> HIDE DEF E
    <3> QED
      BY <3>4 DEF Captures
  <2>8. /\ \A i \in 1 .. Depth' : frames'[i].f = "list" =>
              frames'[i].head = NULL /\ frames'[i].tail = NULL
        /\ \A i \in 1 .. Depth' - 1 :
              frames'[i].f = "list" => frames'[i].defs = {} \/ i = Depth' - 1
    <3>1. \A i \in 1 .. n - 1 : i \in 1 .. n
      BY <1>2
    <3> QED
      BY <1>3, <1>6, <1>8, <1>9, <3>1 DEF MInv, Captured
  <2> QED
    BY <1>2, <1>9, <2>1, <2>7, <2>8 DEF Captured
<1>18. Trace'
  <2>1. \A i \in 1 .. n : frames'[i].call = frames[i].call
    BY <1>6, <1>8
  <2>2. \A i \in 1 .. n : frames[i].call # NULL => up'[frames[i].call] = up[frames[i].call]
    BY <1>13, CallsAlive DEF n
  <2>3. n \in 0 .. Depth /\ n <= Depth' /\ \A i \in 1 .. n : ~(i > n)
    BY <1>2, <1>9
  <2> QED
    BY <1>1, <1>9, <2>1, <2>2, <2>3, TraceSame DEF MInv
<1> QED
  BY <1>15, <1>16, <1>17, <1>18 DEF MInv
-----------------------------------------------------------------------------
(* The environment of a list grows by what its form has captured, which is *)
(* saved in the scope of the list; no call is among it.                    *)
LEMMA ReturnToListMem ==
    ASSUME IInv, IInv', MInv, ReturnToList
    PROVE  MInv'
<1> DEFINE n == Depth - 1
           base == frames[n].env
           r == Rebased(base)
           p == Popped(frames)
           fr == [frames[n] EXCEPT !.env = r]
           s == Popped(scopes)
<1>1. /\ Depth > 0 /\ Top.f = "eval" /\ Top.at \in {"args", "done"} /\ frames[n].f = "list"
      /\ frames' = [p EXCEPT ![n].env = r]
      /\ up' = RebasedUp(base)
      /\ scopes' = Saved(s, {r})
      /\ alive' = alive /\ main_env' = main_env /\ call_stack' = call_stack
      /\ throws' = throws /\ unpaired' = unpaired
  BY DEF ReturnToList, EvalReturn, At, KeptByList
<1>2. /\ Depth \in Nat /\ Depth > 1 /\ n \in 1 .. Depth /\ n \in Nat /\ n # Depth
      /\ Top = frames[Depth] /\ Depth \in 1 .. Depth
      /\ Top.size \in Nat /\ Len(scopes) = Top.size + 1
      /\ Under(n, frames[n], Top) /\ TypeOK
  <2>1. n # Depth
    BY <1>1, TopFacts
  <2> QED
    BY <1>1, <2>1, TopFacts DEF IInv
<1>3. /\ frames[n] \in Frame /\ frames[n].size \in Nat /\ base \in Refs
      /\ up \in [Cells -> Refs] /\ up' \in [Cells -> Refs] /\ alive \subseteq Cells
      /\ {env_capture_head, env_capture_tail} \subseteq Refs
  BY <1>2, FramesFacts, FrameFields DEF IInv, TypeOK
<1>4. Len(scopes) = frames[n].size + 2 /\ Top.size = frames[n].size + 1
  BY <1>1, <1>2, <1>3 DEF Under
<1>5. p \in Seq(Frame) /\ Len(p) = n /\ \A i \in 1 .. n : p[i] = frames[i]
  <2>1. frames \in Seq(Frame) /\ Len(frames) > 0 /\ n = Len(frames) - 1
    BY <1>2, FramesFacts
  <2> HIDE DEF n
  <2> QED
    BY <2>1, PoppedFacts
<1>6. frames' = [p EXCEPT ![n] = fr]
  <2>1. n \in 1 .. Len(p) /\ p[n] = frames[n]
    BY <1>2, <1>5
  <2> QED
    BY <1>1, <2>1
<1>7. r \in Refs
  BY <1>2, <1>3, RebasedFacts
<1>8. /\ fr \in Frame /\ fr.f = frames[n].f /\ fr.size = frames[n].size /\ fr.env = r
      /\ fr.call = frames[n].call /\ fr.at = frames[n].at
      /\ fr.head = frames[n].head /\ fr.tail = frames[n].tail
  BY <1>3, <1>7 DEF Frame
<1>9. /\ s \in Seq(SUBSET Cells) /\ Len(s) = Top.size
      /\ \A k \in 1 .. Top.size : s[k] = scopes[k]
  <2>1. scopes \in Seq(SUBSET Cells) /\ Len(scopes) > 0 /\ Len(scopes) - 1 = Top.size
    BY <1>2 DEF TypeOK
  <2> QED
    BY <2>1, PoppedFacts
<1>10. {r} \in SUBSET Refs
  BY <1>7
<1> HIDE DEF fr, p, s, base, r
<1>11. /\ Len(scopes') = Top.size
       /\ \A k \in 1 .. Top.size : scopes'[k] = IF k = Top.size THEN scopes[k] \cup ({r} \ {NULL})
                                                              ELSE scopes[k]
  <2> DEFINE cells == {r}
             q == Saved(s, cells)
  <2>1. scopes' = q /\ cells \in SUBSET Refs
    BY <1>1, <1>10
  <2> HIDE DEF cells
  <2>2. /\ Len(q) = Len(s)
        /\ \A k \in 1 .. Len(s) : q[k] =
               IF k = Len(s) THEN s[k] \cup (cells \ {NULL}) ELSE s[k]
    BY <1>9, <2>1, SavedScopes
  <2> HIDE DEF q
  <2>3. /\ Len(scopes') = Top.size
        /\ \A k \in 1 .. Top.size : scopes'[k] =
               IF k = Top.size THEN s[k] \cup (cells \ {NULL}) ELSE s[k]
    BY <1>9, <2>1, <2>2
  <2> QED
    BY <1>9, <2>3 DEF cells
<1>12. /\ Depth' = n
       /\ \A i \in 1 .. n : frames'[i] = IF i = n THEN fr ELSE frames[i]
  BY <1>2, <1>5, <1>6, <1>8, UpdatedFacts DEF Depth
<1>13. frames'[n] = fr /\ n \in 1 .. n /\ \A i \in 1 .. Depth' : i >= n => i = n
  <2>1. n \in 1 .. n /\ \A i \in 1 .. n : i >= n => i = n
    BY <1>2
  <2> QED
    BY <1>12, <2>1
<1>14. Shape(n)
  <2>1. n \in 0 .. Depth /\ n <= Depth'
    BY <1>2, <1>12
  <2> HIDE DEF n
  <2> QED
    BY <1>8, <1>12, <2>1 DEF Shape
<1>15. /\ BackOf(up, env_capture_head) \subseteq alive
       /\ {env_capture_head, env_capture_tail} \subseteq alive \cup {NULL}
       /\ env_capture_head = NULL <=> env_capture_tail = NULL
       /\ env_capture_tail # NULL =>
              \A i \in 1 .. Depth : frames[i].call # env_capture_tail
  BY <1>1, CapturedFacts
<1>16. BackOf(up, base) \subseteq alive
  BY <1>2 DEF MInv, Rooted, base
<1>17. ChainsKept
  <2> SUFFICES ASSUME NEW x \in Refs, BackOf(up, x) \subseteq alive
               PROVE  BackOf(up', x) \subseteq alive
    BY <1>1 DEF ChainsKept
  <2>1. CASE env_capture_tail = NULL
    BY <1>1, <2>1 DEF RebasedUp
  <2>2. CASE env_capture_tail # NULL
    <3>1. env_capture_tail \in Cells
      BY <1>3, <2>2 DEF Refs
    <3>2. up' = [up EXCEPT ![env_capture_tail] = base]
      BY <1>1, <2>2 DEF RebasedUp
    <3>3. BackOf(up', x) \subseteq BackOf(up, x) \cup BackOf(up, base)
      BY <1>3, <3>1, <3>2, BackOfRebased
    <3> QED
      BY <1>16, <3>3
  <2> QED
    BY <2>1, <2>2
<1>18. BackOf(up, r) \subseteq alive /\ (r # NULL => r \in alive)
  <2>1. BackOf(up, r) \subseteq alive
    BY <1>15, <1>16 DEF Rebased, r
  <2> QED
    BY <1>3, <1>7, <2>1, BackOfFacts
<1>19. ScopesKept
  BY <1>11 DEF ScopesKept
<1>20. Rooted'
  <2>1. ASSUME NEW k \in 1 .. Len(scopes')
        PROVE  scopes'[k] \subseteq alive'
    <3>1. k \in 1 .. Top.size /\ k \in 1 .. Len(scopes)
      BY <1>2, <1>11
    <3>2. scopes[k] \subseteq alive
      BY <3>1 DEF MInv, Rooted
    <3>3. scopes'[k] \subseteq scopes[k] \cup ({r} \ {NULL})
      BY <1>11, <3>1
    <3>4. {r} \ {NULL} \subseteq alive
      BY <1>18
    <3> QED
      BY <1>1, <3>2, <3>3, <3>4
  <2>2. ASSUME NEW i \in 1 .. Depth'
        PROVE  \/ \E j \in 1 .. Depth : /\ frames'[i].env = frames[j].env
                                        /\ Own(frames[j]) <= Own(frames'[i])
               \/ /\ BackOf(up', frames'[i].env) \subseteq alive'
                  /\ Kept(frames[i].env, Own(frames[i]))'
    <3>1. CASE i = n
      <4>1. frames'[i].env = r
        BY <1>8, <1>13, <3>1
      <4>2. BackOf(up', r) \subseteq alive'
        BY <1>7, <1>17, <1>18 DEF ChainsKept
      <4>3. Own(frames'[i]) = Top.size /\ Top.size \in 1 .. Top.size
        <5>1. frames'[i].f = "list" /\ frames'[i].size = frames[n].size
          BY <1>1, <1>8, <1>13, <3>1
        <5>2. Own(frames'[i]) = frames[n].size + 1
          BY <5>1 DEF Own
        <5>3. Top.size \in 1 .. Top.size
          BY <1>3, <1>4
        <5> QED
          BY <1>4, <5>2, <5>3
      <4>4. r = NULL \/ r \in scopes'[Top.size]
        BY <1>11, <4>3
      <4> QED
        BY <4>1, <4>2, <4>3, <4>4 DEF Kept
    <3>2. CASE i # n
      <4>1. i \in 1 .. n /\ i \in 1 .. Depth
        BY <1>2, <1>12
      <4>2. frames'[i] = frames[i]
        BY <1>12, <3>2, <4>1
      <4>3. Own(frames[i]) <= Own(frames'[i])
        BY <4>1, <4>2, OwnFacts DEF OwnBounds
      <4> QED
        BY <4>1, <4>2, <4>3
    <3> QED
      BY <3>1, <3>2
  <2> QED
    BY <1>1, <1>17, <1>19, <2>1, <2>2, RootedStep DEF MInv
<1>21. frames[n].call = NULL /\ frames[Depth].call = NULL
  BY <1>1, <1>2 DEF MInv, Calls, CallOf
<1>22. Calls'
  <2>1. ASSUME NEW i \in 1 .. Depth', i >= n
        PROVE  CallOf(i)'
    BY <1>1, <1>8, <1>13, <1>21, <2>1 DEF CallOf
  <2> QED
    BY <1>14, <1>19, <2>1, CallsStep DEF MInv
<1>23. Captured'
  <2>1. Top' = fr /\ fr.f = "list" /\ ~(Depth' = 0)
    BY <1>1, <1>2, <1>8, <1>12, <1>13 DEF Top
  <2>2. ASSUME NEW i \in 1 .. Depth', frames'[i].f = "list"
        PROVE  frames'[i].head = NULL /\ frames'[i].tail = NULL
    <3>1. i \in 1 .. n /\ i \in 1 .. Depth
      BY <1>2, <1>12
    <3>2. /\ frames'[i].f = frames[i].f
          /\ frames'[i].head = frames[i].head /\ frames'[i].tail = frames[i].tail
      <4>1. CASE i = n
        BY <1>8, <1>13, <4>1
      <4>2. CASE i # n
        BY <1>12, <3>1, <4>2
      <4> QED
        BY <4>1, <4>2
    <3> QED
      BY <2>2, <3>1, <3>2 DEF MInv, Captured
  <2>3. ASSUME NEW i \in 1 .. Depth' - 1, frames'[i].f = "list"
        PROVE  frames'[i].defs = {}
    <3>1. i \in 1 .. n /\ i # n /\ i \in 1 .. Depth - 1
      BY <1>2, <1>12
    <3> QED
      BY <1>12, <2>3, <3>1 DEF MInv, Captured
  <2> QED
    BY <2>1, <2>2, <2>3 DEF Captured, Building
<1>24. Trace'
  <2>1. \A i \in 1 .. n : frames'[i].call = frames[i].call
    BY <1>8, <1>12
  <2>2. /\ \A i \in 1 .. Depth : i > n => frames[i].call = NULL
        /\ \A i \in 1 .. n : i \in 1 .. Depth
    <3>1. \A i \in 1 .. Depth : i > n => i = Depth
      BY <1>2
    <3>2. \A i \in 1 .. n : i \in 1 .. Depth
      BY <1>2
    <3> QED
      BY <1>21, <3>1, <3>2
  <2>3. \A i \in 1 .. Depth' : ~(i > n)
    BY <1>2, <1>12
  <2>4. n \in 0 .. Depth /\ n <= Depth'
    BY <1>14 DEF Shape
  <2>5. \A i \in 1 .. n : frames[i].call # NULL => up'[frames[i].call] = up[frames[i].call]
    <3> SUFFICES ASSUME NEW i \in 1 .. n, frames[i].call # NULL
                 PROVE  up'[frames[i].call] = up[frames[i].call]
      OBVIOUS
    <3>1. i \in 1 .. Depth /\ frames[i].call \in Cells
      BY <1>3, <2>2, CallsAlive
    <3> QED
      BY <1>1, <1>3, <1>15, <3>1 DEF RebasedUp
  <2> HIDE DEF n
  <2> QED
    BY <1>1, <2>1, <2>2, <2>3, <2>4, <2>5, TraceSame DEF MInv
<1> QED
  BY <1>20, <1>22, <1>23, <1>24 DEF MInv

(* The environments of an argument go with its frame.                      *)
LEMMA ReturnToEvalMem ==
    ASSUME IInv, IInv', MInv, ReturnToEval
    PROVE  MInv'
<1> DEFINE n == Depth - 1
           p == Popped(frames)
           fr == [frames[n] EXCEPT !.at = "bind"]
<1>1. /\ Depth > 0 /\ Top.f = "eval" /\ Top.at \in {"args", "done"} /\ frames[n].f = "eval"
      /\ frames' = IF frames[n].at = "def" THEN [p EXCEPT ![n].at = "bind"] ELSE p
      /\ scopes' = Popped(scopes)
      /\ up' = up /\ alive' = alive /\ main_env' = main_env /\ call_stack' = call_stack
      /\ throws' = throws /\ unpaired' = unpaired /\ UNCHANGED captures
  BY DEF ReturnToEval, EvalReturn, At, heap
<1>2. /\ Depth \in Nat /\ Depth > 1 /\ n \in 1 .. Depth /\ n \in Nat /\ n # Depth
      /\ Top = frames[Depth] /\ Depth \in 1 .. Depth
      /\ Len(scopes) = Top.size + 1 /\ Top.size \in Nat
  <2>1. n # Depth
    BY <1>1, TopFacts
  <2> QED
    BY <1>1, <2>1, TopFacts
<1>3. frames[n] \in Frame
  BY <1>2, FramesFacts DEF IInv
<1>4. p \in Seq(Frame) /\ Len(p) = n /\ \A i \in 1 .. n : p[i] = frames[i]
  <2>1. frames \in Seq(Frame) /\ Len(frames) > 0 /\ n = Len(frames) - 1
    BY <1>2, FramesFacts DEF IInv
  <2> HIDE DEF n
  <2> QED
    BY <2>1, PoppedFacts
<1>5. frames' = IF frames[n].at = "def" THEN [p EXCEPT ![n] = fr] ELSE p
  <2>1. n \in 1 .. Len(p) /\ p[n] = frames[n]
    BY <1>2, <1>4
  <2> QED
    BY <1>1, <2>1
<1>6. /\ fr \in Frame /\ fr.f = frames[n].f /\ fr.size = frames[n].size
      /\ fr.env = frames[n].env /\ fr.call = frames[n].call /\ fr.at = "bind"
      /\ fr.head = frames[n].head /\ fr.tail = frames[n].tail
  BY <1>3 DEF Frame
<1> HIDE DEF fr, p
<1>7. /\ Depth' = n
      /\ \A i \in 1 .. n : frames'[i] = IF i = n /\ frames[n].at = "def" THEN fr ELSE frames[i]
  <2>1. CASE frames[n].at = "def"
    BY <1>2, <1>4, <1>5, <1>6, <2>1, UpdatedFacts DEF Depth
  <2>2. CASE frames[n].at # "def"
    BY <1>4, <1>5, <2>2 DEF Depth
  <2> QED
    BY <2>1, <2>2
<1>8. /\ n \in 1 .. n /\ \A i \in 1 .. Depth' : i >= n => i = n
      /\ frames'[n] = IF frames[n].at = "def" THEN fr ELSE frames[n]
  <2>1. n \in 1 .. n /\ \A i \in 1 .. n : i >= n => i = n
    BY <1>2
  <2> QED
    BY <1>7, <2>1
<1>9. Shape(n)
  <2>1. n \in 0 .. Depth /\ n <= Depth'
    BY <1>2, <1>7
  <2> HIDE DEF n
  <2> QED
    BY <1>6, <1>7, <2>1 DEF Shape
<1>10. /\ Len(scopes') = Top.size
       /\ \A k \in 1 .. Top.size : scopes'[k] = scopes[k] /\ k \in 1 .. Len(scopes)
  <2>1. scopes \in Seq(SUBSET Cells) /\ Len(scopes) > 0 /\ Len(scopes) - 1 = Top.size
    <3>1. scopes \in Seq(SUBSET Cells)
      BY DEF IInv, TypeOK
    <3> QED
      BY <1>2, <3>1
  <2>2. \A k \in 1 .. Top.size : k \in 1 .. Len(scopes)
    BY <1>2
  <2> QED
    BY <1>1, <2>1, <2>2, PoppedFacts
<1>11. ScopesKept /\ ChainsKept
  BY <1>1, <1>10 DEF ScopesKept, ChainsKept
<1>12. \A i \in 1 .. n : i \in 1 .. Depth /\ (i # n => i \in 1 .. Depth - 1)
  BY <1>2
<1>13. Rooted'
  <2>1. ASSUME NEW k \in 1 .. Len(scopes')
        PROVE  scopes'[k] \subseteq alive'
    BY <1>1, <1>10 DEF MInv, Rooted
  <2>2. ASSUME NEW i \in 1 .. Depth'
        PROVE  \E j \in 1 .. Depth : /\ frames'[i].env = frames[j].env
                                     /\ Own(frames[j]) <= Own(frames'[i])
    <3>1. i \in 1 .. n /\ i \in 1 .. Depth
      BY <1>7, <1>12
    <3>2. frames'[i].env = frames[i].env /\ Own(frames'[i]) = Own(frames[i])
      BY <1>6, <1>7, <3>1 DEF Own
    <3>3. Own(frames[i]) <= Own(frames'[i])
      BY <3>1, <3>2, OwnFacts DEF OwnBounds
    <3> QED
      BY <3>1, <3>2, <3>3
  <2> QED
    BY <1>1, <1>11, <2>1, <2>2, RootedStep DEF MInv
<1>14. Calls'
  <2>1. ASSUME NEW i \in 1 .. Depth', i >= n
        PROVE  CallOf(i)'
    <3>1. i = n /\ ~(i < Depth')
      BY <1>2, <1>7, <1>8, <2>1
    <3>2. CallOf(n)
      BY <1>2 DEF MInv, Calls
    <3>3. frames[n].call # NULL => frames[n].call \in scopes'[frames[n].size + 1]
      <4>1. ASSUME frames[n].call # NULL
            PROVE  frames[n].call \in scopes'[frames[n].size + 1]
        <5>1. frames[n].size + 1 \in 1 .. Len(scopes')
          BY <1>6, <1>7, <1>8, OwnFactsNext DEF OwnBounds
        <5>2. frames[n].call \in scopes[frames[n].size + 1]
          BY <3>2, <4>1 DEF CallOf
        <5> QED
          BY <1>10, <5>1, <5>2
      <4> QED
        BY <4>1
    <3>4. /\ frames'[n].f = "eval" /\ frames'[n].call = frames[n].call
          /\ frames'[n].size = frames[n].size
          /\ frames'[n].at = IF frames[n].at = "def" THEN "bind" ELSE frames[n].at
      BY <1>1, <1>6, <1>8
    <3>5. frames'[n - 1].f = frames[n - 1].f
      <4>1. n # 1
        BY <1>1, <1>2 DEF IInv, Stacked
      <4>2. n - 1 \in 1 .. n
        BY <1>2, <4>1
      <4> QED
        BY <4>2, <1>9 DEF Shape
    <3>6. /\ frames'[n].call # NULL =>
                 /\ frames'[n].f = "eval" /\ frames'[n].at \in {"called", "def", "bind"}
                 /\ frames'[n].call \in scopes'[frames'[n].size + 1]
      <4> SUFFICES ASSUME frames[n].call # NULL
                   PROVE  /\ frames'[n].at \in {"called", "def", "bind"}
                          /\ frames[n].call \in scopes'[frames[n].size + 1]
        BY <3>4
      <4>1. frames[n].at \in {"called", "def", "bind"}
        BY <3>2 DEF CallOf
      <4> QED
        BY <3>3, <3>4, <4>1
    <3>7. frames'[n].f = "eval" /\ frames'[n].at \in {"def", "bind"} =>
              frames'[n].call # NULL /\ frames'[n - 1].f = "list"
      <4>1. frames'[n].at \in {"def", "bind"} => frames[n].at \in {"def", "bind"}
        BY <3>4
      <4> QED
        BY <1>1, <3>2, <3>4, <3>5, <4>1 DEF CallOf
    <3> HIDE DEF n
    <3> QED
      BY <3>1, <3>6, <3>7 DEF CallOf
  <2> QED
    BY <1>9, <1>11, <2>1, CallsStep DEF MInv
<1>15. Captured'
  <2>1. ~Building
    BY <1>1 DEF Building
  <2>2. NoneCaptured'
    BY <1>1, <2>1 DEF MInv, Captured, NoneCaptured, captures
  <2>3. ASSUME NEW i \in 1 .. Depth', frames'[i].f = "list"
        PROVE  /\ frames'[i].head = NULL /\ frames'[i].tail = NULL
               /\ frames'[i].defs = {}
    <3>1. i \in 1 .. n /\ i # n
      BY <1>1, <1>6, <1>7, <1>8, <2>3
    <3>2. frames'[i] = frames[i]
      BY <1>7, <3>1
    <3> QED
      BY <1>12, <2>1, <2>3, <3>1, <3>2 DEF MInv, Captured
  <2> QED
    BY <2>2, <2>3, NothingCaptured
<1>16. Trace'
  <2>1. \A i \in 1 .. n : frames'[i].call = frames[i].call
    BY <1>6, <1>7
  <2>2. \A i \in 1 .. Depth : i > n => frames[i].call = NULL
    <3>1. \A i \in 1 .. Depth : i > n => i = Depth
      BY <1>2
    <3>2. frames[Depth].call = NULL
      BY <1>1, <1>2 DEF MInv, Calls, CallOf
    <3> QED
      BY <3>1, <3>2
  <2>3. \A i \in 1 .. Depth' : ~(i > n)
    BY <1>2, <1>7
  <2>4. n \in 0 .. Depth /\ n <= Depth'
    BY <1>9 DEF Shape
  <2> HIDE DEF n
  <2> QED
    BY <1>1, <2>1, <2>2, <2>3, <2>4, TraceSame DEF MInv
<1> QED
  BY <1>13, <1>14, <1>15, <1>16 DEF MInv
-----------------------------------------------------------------------------
\* Form n is over, and with it all that it called.
FormOver(n) ==
    /\ Depth' = n
    /\ \A i \in 1 .. n : /\ i # n => frames'[i] = frames[i]
                        /\ frames'[i].f = frames[i].f /\ frames'[i].size = frames[i].size
    /\ frames'[n].at = "done" /\ frames'[n].call = NULL
    /\ frames'[n].env = frames[n].env
    /\ frames'[n].head = frames[n].head /\ frames'[n].tail = frames[n].tail
    /\ Len(scopes') <= Len(scopes)
    /\ \A k \in 1 .. Len(scopes') : scopes'[k] = scopes[k]
    /\ call_stack' = PopCall
    /\ UNCHANGED <<heap, main_env, throws, unpaired>>

(* A form that ends where nothing is captured leaves nothing behind.       *)
LEMMA FormOverMem ==
    ASSUME IInv, IInv', MInv, NEW n \in 1 .. Depth, n < Depth, FormOver(n),
           frames[n].f = "eval", frames[n + 1].f # "eval",
           \A i \in 1 .. Depth : i > n => frames[i].call = NULL,
           ~Building, NoneCaptured'
    PROVE  MInv'
<1>1. /\ n \in Nat /\ n \in 0 .. Depth /\ Depth \in Nat /\ n \in 1 .. n
      /\ \A i \in 1 .. n : i \in 1 .. Depth /\ i \in 1 .. Depth - 1
  BY FramesFacts DEF IInv
<1>2. Shape(n)
  <2>1. n \in 0 .. Depth /\ n <= Depth'
    BY <1>1 DEF FormOver
  <2> QED
    BY <2>1 DEF Shape, FormOver
<1>3. frames[n].call # NULL
  BY DEF MInv, Calls, CallOf
<1>4. Rooted' /\ Calls' /\ Trace'
  <2>1. Depth' \in 1 .. Depth /\ n = Depth'
    BY <1>1 DEF FormOver
  <2>2. /\ Shape(Depth') /\ frames'[Depth'].env = frames[Depth'].env
        /\ frames'[Depth'].at = "done" /\ frames'[Depth'].call = NULL
        /\ frames[Depth'].f = "eval" /\ frames[Depth'].call # NULL
        /\ \A i \in 1 .. Depth : i > Depth' => frames[i].call = NULL
    BY <1>2, <1>3, <2>1 DEF FormOver
  <2>3. /\ Len(scopes') <= Len(scopes)
        /\ \A k \in 1 .. Len(scopes') : scopes'[k] = scopes[k]
        /\ call_stack' = PopCall /\ UNCHANGED <<heap, main_env, throws, unpaired>>
    BY DEF FormOver
  <2> QED
    BY <2>1, <2>2, <2>3, CallPopped
<1>5. Captured'
  <2>1. ASSUME NEW i \in 1 .. Depth', frames'[i].f = "list"
        PROVE  /\ frames'[i].head = NULL /\ frames'[i].tail = NULL
               /\ frames'[i].defs = {}
    <3>1. i \in 1 .. n /\ frames[i].f = "list"
      BY <2>1 DEF FormOver
    <3>2. frames'[i] = frames[i]
      BY <3>1 DEF FormOver
    <3>3. i \in 1 .. Depth /\ i \in 1 .. Depth - 1
      BY <1>1, <3>1
    <3> QED
      BY <3>1, <3>2, <3>3 DEF MInv, Captured
  <2> QED
    BY <2>1, NothingCaptured
<1> QED
  BY <1>4, <1>5 DEF MInv

(* The call of a lambda is over: what it captured stays inside.            *)
LEMMA ReturnToCallMem ==
    ASSUME IInv, IInv', MInv, ReturnToCall
    PROVE  MInv'
<1> DEFINE n == Depth - 1
           p == Popped(frames)
<1>1. /\ Depth > 2 /\ Top.f = "list"
      /\ env_capture_head' = Top.head /\ env_capture_tail' = Top.tail
      /\ frames' = Returned(p) /\ scopes' = Popped(scopes) /\ call_stack' = PopCall
      /\ UNCHANGED <<heap, throws, unpaired, main_env>>
  BY DEF ReturnToCall, ListDone, CapturesBack, At
<1>2. /\ Depth \in Nat /\ n \in 1 .. Depth /\ n \in Nat /\ n > 1 /\ n < Depth /\ n + 1 = Depth
      /\ Top = frames[Depth] /\ Depth \in 1 .. Depth
      /\ Top.size \in Nat /\ Len(scopes) = Top.size + 1 /\ Under(n, frames[n], Top)
  <2>1. Depth > 0 /\ Depth \in Nat
    BY <1>1, FramesFacts DEF IInv
  <2>2. /\ n \in 1 .. Depth /\ n \in Nat /\ n > 1 /\ n < Depth /\ n + 1 = Depth
        /\ Depth \in 1 .. Depth
    BY <1>1, <2>1
  <2> QED
    BY <2>1, <2>2, TopFacts
<1>3. frames[n].f = "eval"
  <2>1. frames[n].f \in {"eval", "list", "try"} /\ n # 1
    BY <1>2, FramesFacts, FrameFields DEF IInv
  <2> QED
    BY <1>1, <1>2, <2>1 DEF Under
<1>4. p \in Seq(Frame) /\ Len(p) = n /\ \A i \in 1 .. n : p[i] = frames[i]
  <2>1. frames \in Seq(Frame) /\ Len(frames) > 0 /\ n = Len(frames) - 1
    BY <1>2, FramesFacts DEF IInv
  <2> HIDE DEF n
  <2> QED
    BY <2>1, PoppedFacts
<1> HIDE DEF p
<1>5. /\ Depth' = n
      /\ \A i \in 1 .. n : /\ i # n => frames'[i] = frames[i]
                          /\ frames'[i].f = frames[i].f /\ frames'[i].size = frames[i].size
  <2>1. frames' = Returned(p) /\ n > 0 /\ Depth' = Len(frames')
    BY <1>1, <1>2 DEF Depth
  <2> HIDE DEF n
  <2> QED
    BY <1>4, <2>1, ReturnedFacts
<1>6. /\ frames'[n].at = "done" /\ frames'[n].call = NULL
      /\ frames'[n].env = frames[n].env
      /\ frames'[n].head = frames[n].head /\ frames'[n].tail = frames[n].tail
  <2>1. frames' = Returned(p) /\ Len(p) > 0 /\ p[n] = frames[n]
    BY <1>1, <1>2, <1>4
  <2> HIDE DEF n
  <2> QED
    BY <1>4, <2>1, ReturnedFields
<1>7. /\ Len(scopes') <= Len(scopes)
      /\ \A k \in 1 .. Len(scopes') : scopes'[k] = scopes[k]
  <2>1. scopes \in Seq(SUBSET Cells)
    BY DEF IInv, TypeOK
  <2>2. Len(scopes) > 0 /\ Len(scopes) - 1 = Top.size
    BY <1>2
  <2>3. /\ Len(scopes') = Len(scopes) - 1
        /\ \A k \in 1 .. Len(scopes) - 1 : scopes'[k] = scopes[k]
    BY <1>1, <2>1, <2>2, PoppedFacts
  <2>4. Len(scopes') <= Len(scopes)
    BY <1>2, <2>3
  <2> QED
    BY <2>3, <2>4
<1> HIDE DEF n
<1>8. FormOver(n)
  BY <1>1, <1>5, <1>6, <1>7 DEF FormOver
<1>9. \A i \in 1 .. Depth : i > n => frames[i].call = NULL
  <2>1. \A i \in 1 .. Depth : i > n => i = Depth
    BY <1>2
  <2>2. frames[Depth].call = NULL
    BY <1>1, <1>2 DEF MInv, Calls, CallOf
  <2> QED
    BY <2>1, <2>2
<1>10. NoneCaptured' /\ ~Building /\ frames[n + 1].f # "eval"
  BY <1>1, <1>2 DEF MInv, Captured, NoneCaptured, Building
<1> QED
  BY <1>2, <1>3, <1>8, <1>9, <1>10, FormOverMem

(* A try is over, with its form or after its handler.                      *)
LEMMA ReturnToTryMem ==
    ASSUME IInv, IInv', MInv, ReturnToTry
    PROVE  MInv'
<1> DEFINE k == Depth - 1
           n == Depth - 2
           try == frames[k]
           p == SubSeq(frames, 1, n)
           s == Popped(scopes)
<1>1. /\ Depth > 0 /\ Top.f = "eval" /\ Top.at \in {"args", "done"} /\ try.f = "try"
      /\ scopes' = Unwound(try, s)
      /\ frames' = Returned(p) /\ call_stack' = PopCall
      /\ UNCHANGED <<heap, main_env, captures, throws, unpaired>>
  BY DEF ReturnToTry, EvalReturn, At
<1>2. /\ Depth \in Nat /\ Depth > 1 /\ k \in 1 .. Depth /\ Depth \in 1 .. Depth
      /\ Top = frames[Depth] /\ Top.size \in Nat /\ Len(scopes) = Top.size + 1
      /\ Under(k, try, Top)
  BY <1>1, TopFacts
<1>3. k > 1 /\ k \in Nat /\ n \in 1 .. Depth /\ n \in Nat /\ k = n + 1 /\ n < Depth
  <2>1. k # 1
    BY <1>1, <1>2 DEF Under
  <2> QED
    BY <1>2, <2>1
<1>4. frames[n].f = "eval" /\ try.size \in Nat
  <2>1. Under(n, frames[n], try)
    BY <1>2, <1>3 DEF IInv, Stacked
  <2>2. frames[n].f \in {"eval", "list", "try"} /\ try.size \in Nat
    BY <1>2, <1>3, FramesFacts, FrameFields DEF IInv
  <2> QED
    BY <1>1, <2>1, <2>2 DEF Under
<1>5. /\ s \in Seq(SUBSET Cells) /\ Len(s) = Top.size
      /\ \A j \in 1 .. Top.size : s[j] = scopes[j]
  <2>1. scopes \in Seq(SUBSET Cells)
    BY DEF IInv, TypeOK
  <2>2. Len(scopes) > 0 /\ Len(scopes) - 1 = Top.size
    BY <1>2
  <2> QED
    BY <2>1, <2>2, PoppedFacts
<1>6. /\ Len(scopes') <= Len(scopes)
      /\ \A j \in 1 .. Len(scopes') : scopes'[j] = scopes[j]
  <2>1. CASE try.at # "catch"
    <3>1. scopes' = s
      BY <1>1, <2>1 DEF Unwound
    <3>2. Top.size <= Len(scopes)
      BY <1>2
    <3> HIDE DEF s
    <3> QED
      BY <1>5, <3>1, <3>2
  <2>2. CASE try.at = "catch"
    <3> DEFINE t == try.size
    <3>1. t < Top.size /\ t \in Nat /\ Top.size \in Nat
      BY <1>1, <1>2, <1>4, <2>2 DEF Under
    <3>2. scopes' = SubSeq(s, 1, t)
      BY <1>1, <2>2 DEF Unwound
    <3> HIDE DEF s, t
    <3>3. t <= Len(s) /\ t <= Len(scopes) /\ \A j \in 1 .. t : j \in 1 .. Top.size
      BY <1>2, <1>5, <3>1
    <3>4. Len(SubSeq(s, 1, t)) = t /\ \A j \in 1 .. t : SubSeq(s, 1, t)[j] = s[j]
      BY <1>5, <3>1, <3>3, PrefixFacts
    <3> QED
      BY <1>5, <3>2, <3>3, <3>4
  <2> QED
    BY <2>1, <2>2
<1>7. p \in Seq(Frame) /\ Len(p) = n /\ \A i \in 1 .. n : p[i] = frames[i]
  <2>1. frames \in Seq(Frame) /\ n <= Len(frames) /\ n \in Nat
    BY <1>2, <1>3, FramesFacts DEF IInv, Depth
  <2> HIDE DEF n
  <2> QED
    BY <2>1, PrefixFacts
<1>8. frames' = Returned(p)
  BY <1>1
<1> HIDE DEF p, s, try
<1>9. /\ Depth' = n
      /\ \A i \in 1 .. n : /\ i # n => frames'[i] = frames[i]
                          /\ frames'[i].f = frames[i].f /\ frames'[i].size = frames[i].size
  <2>1. n > 0 /\ Depth' = Len(frames')
    BY <1>3 DEF Depth
  <2> HIDE DEF n
  <2> QED
    BY <1>7, <1>8, <2>1, ReturnedFacts
<1>10. /\ frames'[n].at = "done" /\ frames'[n].call = NULL
       /\ frames'[n].env = frames[n].env
       /\ frames'[n].head = frames[n].head /\ frames'[n].tail = frames[n].tail
  <2>1. Len(p) > 0 /\ p[n] = frames[n]
    BY <1>3, <1>7
  <2> HIDE DEF n
  <2> QED
    BY <1>7, <1>8, <2>1, ReturnedFields
<1> HIDE DEF n
<1>11. FormOver(n)
  BY <1>1, <1>6, <1>9, <1>10 DEF FormOver
<1>12. \A i \in 1 .. Depth : i > n => frames[i].call = NULL
  <2>1. \A i \in 1 .. Depth : i > n => i = Depth \/ i = k
    BY <1>2, <1>3
  <2>2. frames[Depth].call = NULL /\ frames[k].call = NULL
    BY <1>1, <1>2 DEF MInv, Calls, CallOf, try
  <2> QED
    BY <2>1, <2>2
<1>13. ~Building
  BY <1>1 DEF Building, try
<1>14. NoneCaptured'
  BY <1>1, <1>13 DEF MInv, Captured, NoneCaptured, captures
<1>15. frames[n + 1].f # "eval"
  BY <1>1, <1>3 DEF try
<1> QED
  BY <1>3, <1>4, <1>11, <1>12, <1>13, <1>14, <1>15, FormOverMem
-----------------------------------------------------------------------------
(* At first nothing is allocated.                                          *)
LEMMA InitMInv == Init => MInv
<1> SUFFICES ASSUME Init
             PROVE  MInv
  OBVIOUS
<1>1. /\ Depth = 0 /\ Len(scopes) = 0 /\ main_env = NULL /\ call_stack = NULL
      /\ NoneCaptured /\ ~Building /\ up \in [Cells -> Refs]
  BY DEF Init, Depth, NoneCaptured, Building, Refs
<1>2. BackOf(up, main_env) = {}
  BY <1>1, BackOfFacts DEF Refs
<1>3. Rooted /\ Calls /\ Captured /\ Trace
  BY <1>1, <1>2 DEF Rooted, Calls, Captured, Trace, InOrder, Exact, OuterCall, InnerCall
<1> QED
  BY <1>3 DEF MInv

(* Every step of an evaluator whose defs are forms of a list keeps the     *)
(* memory invariant.                                                       *)
LEMMA NextMInv ==
    ASSUME ~NestedDef, IInv, IInv', MInv, [Next]_vars
    PROVE  MInv'
<1>1. CASE EvalForms
  BY <1>1, EvalFormsMem
<1>2. CASE Form
  BY <1>2, FormMem
<1>3. CASE EvalArg
  BY <1>3, EvalArgMem
<1>4. CASE Collect
  BY <1>4, CollectMem
<1>5. ASSUME NEW c \in Cells, NEW e \in Cells, NEW env \in Refs, CallLambda(c, e, env)
      PROVE  MInv'
  BY <1>5, CallLambdaMem
<1>6. ASSUME NEW c \in Cells, Def(c)
      PROVE  MInv'
  BY <1>6, DefMem
<1>7. ASSUME NEW c \in Cells, Try(c)
      PROVE  MInv'
  BY <1>7, TryMem
<1>8. ASSUME NEW c \in Cells, Throw(c)
      PROVE  MInv'
  BY <1>8, ThrowMem
<1>9. ASSUME NEW e \in Cells, Bind(e)
      PROVE  MInv'
  BY <1>9, BindMem
<1>10. CASE DefDone
  BY <1>10, DefDoneMem
<1>11. CASE Uncaught \/ OutOfMemory
  BY <1>11, ExitMem DEF Uncaught, OutOfMemory
<1>12. CASE ReturnToList
  BY <1>12, ReturnToListMem
<1>13. CASE ReturnToEval
  BY <1>13, ReturnToEvalMem
<1>14. CASE ReturnToTry
  BY <1>14, ReturnToTryMem
<1>15. CASE ReturnToCall
  BY <1>15, ReturnToCallMem
<1>16. CASE ReturnToHost
  BY <1>16, ReturnToHostMem
<1>18. CASE Construct
  BY <1>18, ConstructMem
<1>17. CASE UNCHANGED vars
  <2>1. /\ frames' = frames /\ scopes' = scopes /\ up' = up /\ alive' = alive
        /\ main_env' = main_env /\ call_stack' = call_stack /\ throws' = throws /\ unpaired' = unpaired
        /\ unpaired' = unpaired /\ env_capture_head' = env_capture_head /\ env_capture_tail' = env_capture_tail
    BY <1>17 DEF vars, heap, captures
  <2>2. Depth' = Depth /\ Top' = Top
    BY <2>1 DEF Depth, Top
  <2>3. Rooted'
    BY <2>1, <2>2 DEF MInv, Rooted, Kept
  <2>4. Calls'
    BY <2>1, <2>2 DEF MInv, Calls, CallOf
  <2>5. Captured'
    <3>1. Building' <=> Building
      BY <2>1, <2>2 DEF Building
    <3>2. Building => Captures(frames[Depth - 1].defs)'
      BY <2>1, <2>2 DEF MInv, Captured, Captures
    <3> QED
      BY <2>1, <2>2, <3>1, <3>2 DEF MInv, Captured, NoneCaptured
  <2>6. Trace'
    BY <2>1, <2>2 DEF MInv, Trace, InOrder, Exact
  <2> QED
    BY <2>3, <2>4, <2>5, <2>6 DEF MInv
<1> QED
  BY <1>1, <1>2, <1>3, <1>4, <1>5, <1>6, <1>7, <1>8, <1>9, <1>10, <1>11, <1>12,
     <1>13, <1>14, <1>15, <1>16, <1>17, <1>18 DEF Next

(* The inductive invariant of the evaluator's memory: roots, entries of    *)
(* the call stack, captures and trace, on top of that of its control.      *)
THEOREM MemoryInvariance == ~NestedDef => (Spec => [](IInv /\ MInv))
<1> SUFFICES ASSUME ~NestedDef
             PROVE  Spec => [](IInv /\ MInv)
  OBVIOUS
<1>1. Init => IInv /\ MInv
  BY InitIInv, InitMInv
<1>2. IInv /\ MInv /\ [Next]_vars => IInv' /\ MInv'
  BY NextIInv, NextMInv
<1> QED
  BY <1>1, <1>2, PTL DEF Spec

(* The environments of the active functions, all the way back, survive     *)
(* every collection: the scopes or the main environment keep them.         *)
THEOREM EnvsSurvive == ~NestedDef => (Spec => []EnvsAlive)
<1> SUFFICES ASSUME ~NestedDef
             PROVE  Spec => []EnvsAlive
  OBVIOUS
<1>1. IInv /\ MInv => EnvsAlive
  BY BackIsBackOf DEF EnvsAlive, MInv, Rooted, Depth, IInv, TypeOK
<1> QED
  BY <1>1, MemoryInvariance, PTL

(* A form that has ended finds what it captured still allocated.           *)
THEOREM CapturesSurvive == ~NestedDef => (Spec => []CapturesAlive)
<1> SUFFICES ASSUME ~NestedDef
             PROVE  Spec => []CapturesAlive
  OBVIOUS
<1>1. IInv /\ MInv => CapturesAlive
  BY CapturedFacts DEF CapturesAlive, EvalReturn, At
<1> QED
  BY <1>1, MemoryInvariance, PTL

(* A list is extended with the bindings its form made, all of them and in  *)
(* one chain, and with no others.                                          *)
THEOREM DefsInside == ~NestedDef => (Spec => []DefsStayInside)
<1> SUFFICES ASSUME ~NestedDef
             PROVE  Spec => []DefsStayInside
  OBVIOUS
<1>1. IInv /\ MInv => DefsStayInside
  <2> SUFFICES ASSUME IInv, MInv, EvalReturn, frames[Depth - 1].f = "list"
               PROVE  DefsStayInside
    BY DEF DefsStayInside
  <2> DEFINE D == frames[Depth - 1].defs
  <2>1. /\ Depth > 0 /\ Depth \in Nat /\ Depth > 1 /\ Top.f = "eval"
        /\ Depth - 1 \in 1 .. Depth - 1
    <3>1. Depth > 0 /\ Top.f = "eval"
      BY DEF EvalReturn, At
    <3> QED
      BY <3>1, TopFacts, BelowTop
  <2>2. CASE Building
    <3>1. Captures(D)
      BY <2>2 DEF MInv, Captured
    <3> HIDE DEF D
    <3>2. Back(env_capture_head) = D
      BY <3>1, BackIsBackOf DEF Captures
    <3>3. /\ env_capture_head # NULL <=> D # {}
          /\ D # {} => {env_capture_head, env_capture_tail} \subseteq D
      BY <3>1 DEF Captures
    <3> QED
      BY <3>2, <3>3 DEF DefsStayInside, D
  <2>3. CASE ~Building
    <3>1. NoneCaptured
      BY <2>1, <2>3 DEF MInv, Captured
    <3>2. D = {}
      BY <2>1, <2>3 DEF MInv, Captured
    <3> QED
      BY <3>1, <3>2 DEF DefsStayInside, NoneCaptured
  <2> QED
    BY <2>2, <2>3
<1> QED
  BY <1>1, MemoryInvariance, PTL

(* Until something is thrown, the call stack lists calls under way only,   *)
(* innermost first, and all of them as long as the evaluation has not      *)
(* called a constructor without a name, for which call_stack.c:67 pushes   *)
(* nothing.                                                                *)
THEOREM TraceOrdered == ~NestedDef => (Spec => []TraceUntilThrow)
<1> SUFFICES ASSUME ~NestedDef
             PROVE  Spec => []TraceUntilThrow
  OBVIOUS
<1>1. IInv /\ MInv => TraceUntilThrow
  <2> SUFFICES ASSUME IInv, MInv, throws = 0
               PROVE  StackTraceOrdered /\ (~unpaired => StackTraceExact)
    BY DEF TraceUntilThrow
  <2>1. DOMAIN frames = 1 .. Depth
    BY DEF IInv, TypeOK, Depth
  <2> QED
    BY <2>1 DEF StackTraceOrdered, StackTraceExact, MInv, Trace, InOrder, Exact
<1> QED
  BY <1>1, MemoryInvariance, PTL
=============================================================================
