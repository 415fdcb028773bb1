---------------------------- MODULE Import_proof ----------------------------
(***************************************************************************)
(* What Import guarantees however deep imports and tries nest, for any     *)
(* files and names.                                                        *)
(***************************************************************************)
EXTENDS Import, SequenceTheorems, WellFoundedInduction, TLAPS

\* The scopes there were when control entered the function of a frame.
Base(fr) == IF fr.f = "import" THEN fr.size ELSE fr.size - 1

FrameOK(fr) ==
    /\ fr \in Frame
    /\ 1 <= Base(fr)
    /\ fr.f = "try" => fr.at \in {"body", "catch"}
    /\ fr.f = "import" => fr.file \in Files

\* A frame comes with two scopes at least, which stay until it is left.
Nested ==
    /\ \A i \in 1 .. Depth : FrameOK(frames[i]) /\ Base(frames[i]) + 2 <= scopes
    /\ \A i, j \in 1 .. Depth : i < j => Base(frames[i]) + 2 <= Base(frames[j])

\* The scopes there are, n, when control is in the function of fr.
Height(fr, n) ==
    IF fr.f = "import" THEN n = fr.size + 2
    ELSE IF fr.at = "body" THEN n = fr.size + 1
    ELSE n >= fr.size + 2

\* ScopesRestored now, and again as each frame is left.
Balanced ==
    ~early =>
        /\ IF Depth = 0 THEN scopes = 1
           ELSE Base(frames[1]) = 1 /\ Height(Top, scopes)
        /\ \A i, j \in 1 .. Depth : j = i + 1 => Height(frames[i], Base(frames[j]))

\* The spec each import goes back to is that of the one it is evaluated in.
ImportsBelow(k) == {i \in Imports : i < k}

Chained ==
    ~early /\ ~crossed =>
        /\ current_module = Innermost(Imports)
        /\ current_module \in Imports \cup {0}
        /\ \A k \in Imports :
               /\ frames[k].saved = Innermost(ImportsBelow(k))
               /\ frames[k].saved \in ImportsBelow(k) \cup {0}

\* The name in a spec is the one its own module asked for.
NamesOwn == ~early /\ ~crossed => \A i \in 1 .. Depth : frames[i].name = frames[i].asked

IInv ==
    /\ TypeOK
    /\ Nested
    /\ Balanced
    /\ Chained
    /\ NamesOwn /\ NamedByItself
    /\ NamesStayLocked
-----------------------------------------------------------------------------
(* A set of places has an innermost one.                                   *)
LEMMA NatOrder ==
    \E R : IsWellFoundedOn(R, Nat) /\ \A x, y \in Nat : x < y => <<x, y>> \in R
<1> DEFINE R == OpToRel(<, Nat)
<1>1. IsWellFoundedOn(R, Nat)
  BY NatLessThanWellFounded
<1>2. \A x, y \in Nat : x < y => <<x, y>> \in R
  BY DEF OpToRel
<1> QED
  BY <1>1, <1>2

LEMMA InnermostFacts ==
    ASSUME NEW n \in Nat, NEW T \in SUBSET (1 .. n), T # {}
    PROVE  Innermost(T) \in T /\ \A i \in T : i <= Innermost(T)
<1>1. PICK R : IsWellFoundedOn(R, Nat) /\ \A x, y \in Nat : x < y => <<x, y>> \in R
  BY NatOrder
<1> DEFINE U == {n - i : i \in T}
<1>2. U \subseteq Nat
  <2>1. \A i \in T : n - i \in Nat
    OBVIOUS
  <2> QED
    BY <2>1
<1>3. U # {}
  <2>1. PICK i \in T : TRUE
    OBVIOUS
  <2>2. n - i \in U
    OBVIOUS
  <2> QED
    BY <2>2
<1>4. \E x \in U : \A y \in U : ~ (<<y, x>> \in R)
  <2> HIDE DEF U
  <2>1. IsWellFoundedOn(R, Nat)
    BY <1>1
  <2> QED
    BY <1>2, <1>3, <2>1, WFMin, Zenon
<1>5. PICK x \in U : \A y \in U : ~ (<<y, x>> \in R)
  BY <1>4
<1>6. \A y \in U : ~ (y < x)
  BY <1>1, <1>2, <1>5
<1>7. PICK m \in T : x = n - m
  OBVIOUS
<1>8. \A i \in T : i <= m
  BY <1>6, <1>7
<1> QED
  BY <1>8 DEF Innermost

(* A greatest element is the innermost place.                              *)
LEMMA InnermostIs ==
    ASSUME NEW T \in SUBSET Nat, NEW m \in T, \A i \in T : i <= m
    PROVE  Innermost(T) = m
<1>1. \A j \in T : (\A i \in T : i <= j) => j = m
  OBVIOUS
<1> QED
  BY <1>1 DEF Innermost
-----------------------------------------------------------------------------
(* What the stack of frames is after each kind of step.                    *)
LEMMA FramesFacts ==
    ASSUME TypeOK
    PROVE  /\ frames \in Seq(Frame) /\ Depth \in Nat /\ Depth <= MaxDepth
           /\ DOMAIN frames = 1 .. Depth
           /\ \A i \in 1 .. Depth : frames[i] \in Frame
           /\ Depth > 0 => Top = frames[Depth] /\ Top \in Frame /\ Depth \in 1 .. Depth
           /\ Imports \subseteq 1 .. Depth /\ Tries \subseteq 1 .. Depth
           /\ scopes \in 1 .. MaxScopes /\ scopes \in Nat
           /\ MaxScopes \in Nat \ {0} /\ MaxDepth \in Nat
  BY ImportAssumption DEF TypeOK, Depth, Top, Imports, Tries

LEMMA PrefixFacts ==
    ASSUME NEW S, NEW q \in Seq(S), NEW n \in Nat, n <= Len(q)
    PROVE  /\ SubSeq(q, 1, n) \in Seq(S)
           /\ Len(SubSeq(q, 1, n)) = n
           /\ \A i \in 1 .. n : SubSeq(q, 1, n)[i] = q[i]
<1>1. \A i \in 1 .. n : q[i] \in S
  OBVIOUS
<1>2. /\ SubSeq(q, 1, n) \in Seq(S)
      /\ Len(SubSeq(q, 1, n)) = IF 1 <= n THEN n - 1 + 1 ELSE 0
      /\ \A i \in 1 .. n - 1 + 1 : SubSeq(q, 1, n)[i] = q[1 + i - 1]
  BY <1>1, SubSeqProperties
<1>3. n - 1 + 1 = n /\ \A i \in 1 .. n : 1 + i - 1 = i
  OBVIOUS
<1> QED
  BY <1>2, <1>3

LEMMA PushFacts ==
    ASSUME TypeOK, NEW fr \in Frame, frames' = Append(frames, fr)
    PROVE  /\ frames' \in Seq(Frame) /\ Depth' = Depth + 1 /\ Depth' \in Nat
           /\ \A i \in 1 .. Depth : frames'[i] = frames[i]
           /\ frames'[Depth + 1] = fr
           /\ Top' = fr
  BY FramesFacts DEF Depth, Top

LEMMA PopFacts ==
    ASSUME TypeOK, Depth > 0, frames' = Popped
    PROVE  /\ frames' \in Seq(Frame) /\ Depth' = Depth - 1 /\ Depth' \in Nat
           /\ \A i \in 1 .. Depth' : frames'[i] = frames[i]
           /\ Depth' > 0 => Top' = frames[Depth - 1]
<1>1. frames \in Seq(Frame) /\ Depth \in Nat \ {0} /\ Depth - 1 \in Nat
  BY FramesFacts
<1>2. Depth = Len(frames) /\ Depth' = Len(frames') /\ Top' = frames'[Depth']
  BY DEF Depth, Top
<1>3. /\ frames' \in Seq(Frame) /\ Len(frames') = Depth - 1
      /\ \A i \in 1 .. Depth - 1 : frames'[i] = frames[i]
  BY <1>1, <1>2, PrefixFacts DEF Popped
<1> QED
  BY <1>1, <1>2, <1>3

\* A step that leaves the shape of the stack alone.
SameShape ==
    /\ frames' \in Seq(Frame) /\ Depth' = Depth
    /\ \A i \in 1 .. Depth :
           /\ frames'[i].f = frames[i].f /\ frames'[i].saved = frames[i].saved
           /\ frames'[i].size = frames[i].size /\ frames'[i].file = frames[i].file
           /\ frames[i].f = "try" => frames'[i].at = frames[i].at

LEMMA BindShape ==
    ASSUME TypeOK, Bind
    PROVE  /\ SameShape
           /\ \A i \in 1 .. Depth : /\ frames'[i].name = frames[i].name
                                   /\ frames'[i].asked = frames[i].asked
<1> DEFINE fr == [frames[Depth] EXCEPT !.bound = TRUE]
<1>1. fr \in Frame /\ frames' = [frames EXCEPT ![Depth] = fr] /\ Depth \in 1 .. Depth
  BY FramesFacts DEF Bind, In, Frame, Top
<1>2. /\ fr.f = frames[Depth].f /\ fr.saved = frames[Depth].saved
      /\ fr.size = frames[Depth].size /\ fr.at = frames[Depth].at
      /\ fr.file = frames[Depth].file
      /\ fr.name = frames[Depth].name /\ fr.asked = frames[Depth].asked
  BY FramesFacts, <1>1 DEF Frame
<1> HIDE DEF fr
<1>3. /\ frames' \in Seq(Frame) /\ Len(frames') = Len(frames)
      /\ \A i \in 1 .. Depth : frames'[i] = IF i = Depth THEN fr ELSE frames[i]
  BY FramesFacts, <1>1 DEF Depth
<1> QED
  BY <1>2, <1>3 DEF SameShape, Depth

LEMMA BuildShape ==
    ASSUME TypeOK, Build
    PROVE  /\ SameShape
           /\ \A i \in 1 .. Depth : /\ frames'[i].name = frames[i].name
                                   /\ frames'[i].asked = frames[i].asked
<1> DEFINE fr == [frames[Depth] EXCEPT !.at = "build"]
<1>1. /\ fr \in Frame /\ frames' = [frames EXCEPT ![Depth] = fr] /\ Depth \in 1 .. Depth
      /\ frames[Depth].f = "import"
  BY FramesFacts DEF Build, CapturedStale, In, Frame, Top
<1>2. /\ fr.f = frames[Depth].f /\ fr.saved = frames[Depth].saved
      /\ fr.size = frames[Depth].size /\ fr.file = frames[Depth].file
      /\ fr.name = frames[Depth].name /\ fr.asked = frames[Depth].asked
  BY FramesFacts, <1>1 DEF Frame
<1> HIDE DEF fr
<1>3. /\ frames' \in Seq(Frame) /\ Len(frames') = Len(frames)
      /\ \A i \in 1 .. Depth : frames'[i] = IF i = Depth THEN fr ELSE frames[i]
  BY FramesFacts, <1>1 DEF Depth
<1> QED
  BY <1>1, <1>2, <1>3 DEF SameShape, Depth

LEMMA DefmodShape ==
    ASSUME TypeOK, NEW name \in Names, Defmod(name)
    PROVE  /\ SameShape
           /\ \A i \in 1 .. Depth :
                 /\ frames'[i].name =
                        IF i = current_module /\ i \in Imports THEN name ELSE frames[i].name
                 /\ frames'[i].asked =
                        IF i = Innermost(Imports) THEN name ELSE frames[i].asked
<1> DEFINE new(i) == [frames[i] EXCEPT
               !.name = IF i = current_module /\ i \in Imports THEN name ELSE @,
               !.asked = IF i = Innermost(Imports) THEN name ELSE @]
<1>1. frames' = [i \in 1 .. Depth |-> new(i)]
  BY FramesFacts DEF Defmod
<1>2. ASSUME NEW i \in 1 .. Depth
      PROVE  /\ new(i) \in Frame
             /\ new(i).f = frames[i].f /\ new(i).saved = frames[i].saved
             /\ new(i).size = frames[i].size /\ new(i).at = frames[i].at
             /\ new(i).file = frames[i].file
             /\ new(i).name = IF i = current_module /\ i \in Imports THEN name
                              ELSE frames[i].name
             /\ new(i).asked = IF i = Innermost(Imports) THEN name ELSE frames[i].asked
  <2>1. frames[i] \in Frame
    BY FramesFacts
  <2> QED
    BY <2>1 DEF Frame
<1> HIDE DEF new
<1>3. frames' \in [1 .. Depth -> Frame]
  BY <1>1, <1>2
<1>4. frames' \in Seq(Frame) /\ Len(frames') = Depth
  BY <1>3, FramesFacts
<1>5. \A i \in 1 .. Depth : frames'[i] = new(i)
  BY <1>1
<1>6. Depth' = Depth
  BY <1>4 DEF Depth
<1> QED
  BY <1>2, <1>4, <1>5, <1>6 DEF SameShape

LEMMA ImportShape ==
    ASSUME TypeOK, NEW file \in Files, Import(file)
    PROVE  \E fr \in Frame :
               /\ frames' = Append(frames, fr)
               /\ fr.f = "import" /\ fr.file = file
               /\ fr.size = scopes /\ fr.saved = current_module
               /\ fr.name = fr.asked
<1>1. PICK at \in {"forms", "empty"} : frames' = Append(frames,
           [f |-> "import", file |-> file, name |-> NULL, asked |-> NULL,
            saved |-> current_module, size |-> scopes, bound |-> FALSE, at |-> at])
  BY DEF Import
<1> DEFINE fr == [f |-> "import", file |-> file, name |-> NULL, asked |-> NULL,
            saved |-> current_module, size |-> scopes, bound |-> FALSE, at |-> at]
<1>2. fr \in Frame
  BY FramesFacts DEF Frame, TypeOK
<1> QED
  BY <1>1, <1>2

LEMMA TryShape ==
    ASSUME TypeOK, Try
    PROVE  \E fr \in Frame :
               /\ frames' = Append(frames, fr)
               /\ fr.f = "try" /\ fr.size = scopes + 1 /\ fr.at = "body"
               /\ fr.name = fr.asked
<1> DEFINE fr == [f |-> "try", file |-> NULL, name |-> NULL, asked |-> NULL,
            saved |-> Innermost(Tries), size |-> scopes + 1, bound |-> FALSE,
            at |-> "body"]
<1>1. frames' = Append(frames, fr) /\ scopes + 2 <= MaxScopes
  BY DEF Try
<1>2. Innermost(Tries) \in 0 .. MaxDepth
  <2>1. CASE Tries = {}
    BY <2>1, FramesFacts DEF Innermost
  <2>2. CASE Tries # {}
    <3>1. Innermost(Tries) \in 1 .. Depth
      BY <2>2, FramesFacts, InnermostFacts
    <3> QED
      BY <3>1, FramesFacts
  <2> QED
    BY <2>1, <2>2
<1>3. scopes + 1 \in 0 .. MaxScopes
  BY <1>1, FramesFacts
<1>4. fr \in Frame
  BY <1>2, <1>3 DEF Frame
<1> QED
  BY <1>1, <1>4

LEMMA ThrowShape ==
    ASSUME TypeOK, Throw
    PROVE  LET m == Innermost(Tries)
           IN  /\ m \in Tries /\ m \in 1 .. Depth
               /\ frames' \in Seq(Frame) /\ Depth' = m
               /\ \A i \in 1 .. m :
                      /\ i # m => frames'[i] = frames[i]
                      /\ frames'[i].f = frames[i].f /\ frames'[i].saved = frames[i].saved
                      /\ frames'[i].size = frames[i].size
                      /\ frames'[i].name = frames[i].name
                      /\ frames'[i].asked = frames[i].asked
               /\ frames'[m].at = "catch"
<1> DEFINE m == Innermost(Tries)
           q == SubSeq(frames, 1, m)
           fr == [frames[m] EXCEPT !.at = "catch"]
<1>1. m \in Tries /\ m \in 1 .. Depth /\ frames[m] \in Frame
  BY FramesFacts, InnermostFacts DEF Throw
<1> HIDE DEF m
<1>2. frames' = [q EXCEPT ![m].at = "catch"]
  BY DEF Throw, m
<1>3. q \in Seq(Frame) /\ Len(q) = m /\ \A i \in 1 .. m : q[i] = frames[i]
  BY <1>1, FramesFacts, PrefixFacts DEF Depth
<1> HIDE DEF q
<1>4. frames' = [q EXCEPT ![m] = fr]
  <2>1. frames' = [q EXCEPT ![m] = [q[m] EXCEPT !.at = "catch"]]
    BY <1>2
  <2>2. q[m] = frames[m]
    BY <1>1, <1>3
  <2> QED
    BY <2>1, <2>2
<1>5. /\ fr \in Frame /\ fr.f = frames[m].f /\ fr.saved = frames[m].saved
      /\ fr.size = frames[m].size /\ fr.name = frames[m].name
      /\ fr.asked = frames[m].asked /\ fr.at = "catch"
  BY <1>1 DEF Frame
<1> HIDE DEF fr
<1>6. /\ frames' \in Seq(Frame) /\ Len(frames') = m
      /\ \A i \in 1 .. m : frames'[i] = IF i = m THEN fr ELSE frames[i]
  BY <1>1, <1>3, <1>4, <1>5
<1>7. Depth' = m
  BY <1>6 DEF Depth
<1> QED
  BY <1>1, <1>5, <1>6, <1>7 DEF m
-----------------------------------------------------------------------------
(* Scopes nest with the frames: one lemma per kind of step.                *)
LEMMA PushNested ==
    ASSUME TypeOK, Nested, NEW fr \in Frame, FrameOK(fr), Base(fr) = scopes,
           frames' = Append(frames, fr), scopes' = scopes + 2
    PROVE  Nested'
<1>1. /\ Depth' = Depth + 1 /\ Depth \in Nat /\ scopes \in Nat /\ frames'[Depth + 1] = fr
      /\ \A i \in 1 .. Depth : frames'[i] = frames[i]
  BY PushFacts, FramesFacts
<1>2. \A i \in 1 .. Depth : Base(frames[i]) \in Int
  BY FramesFacts DEF Base, Frame
<1>3. \A i \in 1 .. Depth' : FrameOK(frames'[i]) /\ Base(frames'[i]) + 2 <= scopes'
  <2> SUFFICES ASSUME NEW i \in 1 .. Depth'
               PROVE  FrameOK(frames'[i]) /\ Base(frames'[i]) + 2 <= scopes'
    OBVIOUS
  <2>1. CASE i = Depth + 1
    <3>1. frames'[i] = fr
      BY <1>1, <2>1
    <3> QED
      BY <1>1, <3>1
  <2>2. CASE i # Depth + 1
    <3>1. i \in 1 .. Depth
      BY <1>1, <2>2
    <3>2. frames'[i] = frames[i] /\ FrameOK(frames[i]) /\ Base(frames[i]) + 2 <= scopes
      BY <1>1, <3>1 DEF Nested
    <3> QED
      BY <1>1, <1>2, <3>1, <3>2
  <2> QED
    BY <2>1, <2>2
<1>4. \A i, j \in 1 .. Depth' : i < j => Base(frames'[i]) + 2 <= Base(frames'[j])
  <2> SUFFICES ASSUME NEW i \in 1 .. Depth', NEW j \in 1 .. Depth', i < j
               PROVE  Base(frames'[i]) + 2 <= Base(frames'[j])
    OBVIOUS
  <2>1. i \in 1 .. Depth /\ frames'[i] = frames[i]
    <3>1. i \in 1 .. Depth
      BY <1>1
    <3> QED
      BY <1>1, <3>1
  <2>2. CASE j = Depth + 1
    BY <1>1, <2>1, <2>2 DEF Nested
  <2>3. CASE j # Depth + 1
    <3>1. j \in 1 .. Depth
      BY <1>1, <2>3
    <3>2. frames'[j] = frames[j]
      BY <1>1, <3>1
    <3> QED
      BY <2>1, <3>1, <3>2 DEF Nested
  <2> QED
    BY <2>2, <2>3
<1> QED
  BY <1>3, <1>4 DEF Nested, FrameOK, Base

LEMMA PopNested ==
    ASSUME TypeOK, Nested, Depth > 0, frames' = Popped,
           scopes' \in Int, scopes' >= Base(Top)
    PROVE  Nested'
<1>1. /\ Depth' = Depth - 1 /\ Depth \in Nat /\ Top = frames[Depth] /\ Depth \in 1 .. Depth
      /\ \A i \in 1 .. Depth' : frames'[i] = frames[i]
  BY PopFacts, FramesFacts
<1>2. \A i \in 1 .. Depth : Base(frames[i]) \in Int
  BY FramesFacts DEF Base, Frame
<1>3. \A i \in 1 .. Depth' : i \in 1 .. Depth /\ i < Depth
  BY <1>1
<1>4. \A i \in 1 .. Depth' : FrameOK(frames'[i]) /\ Base(frames'[i]) + 2 <= scopes'
  <2> SUFFICES ASSUME NEW i \in 1 .. Depth'
               PROVE  FrameOK(frames'[i]) /\ Base(frames'[i]) + 2 <= scopes'
    OBVIOUS
  <2>1. FrameOK(frames[i]) /\ Base(frames[i]) + 2 <= Base(frames[Depth])
    BY <1>1, <1>3 DEF Nested
  <2> QED
    BY <1>1, <1>2, <1>3, <2>1
<1>5. \A i, j \in 1 .. Depth' : i < j => Base(frames'[i]) + 2 <= Base(frames'[j])
  BY <1>1, <1>3 DEF Nested
<1> QED
  BY <1>4, <1>5 DEF Nested, FrameOK, Base

LEMMA SameNested ==
    ASSUME TypeOK, Nested, SameShape, scopes' = scopes
    PROVE  Nested'
<1>1. \A i \in 1 .. Depth : FrameOK(frames'[i]) /\ Base(frames'[i]) = Base(frames[i])
  <2> SUFFICES ASSUME NEW i \in 1 .. Depth
               PROVE  FrameOK(frames'[i]) /\ Base(frames'[i]) = Base(frames[i])
    OBVIOUS
  <2>1. frames'[i] \in Frame /\ FrameOK(frames[i])
    BY FramesFacts DEF SameShape, Nested, Depth
  <2> QED
    BY <2>1 DEF SameShape, FrameOK, Base
<1>2. \A i \in 1 .. Depth : Base(frames'[i]) + 2 <= scopes'
  BY <1>1 DEF Nested
<1>3. \A i, j \in 1 .. Depth : i < j => Base(frames'[i]) + 2 <= Base(frames'[j])
  BY <1>1 DEF Nested
<1> QED
  BY <1>1, <1>2, <1>3 DEF SameShape, Nested, FrameOK, Base

LEMMA ThrowNested ==
    ASSUME TypeOK, Nested, Throw
    PROVE  Nested'
<1> DEFINE m == Innermost(Tries)
<1>1. /\ m \in Tries /\ m \in 1 .. Depth
      /\ frames' \in Seq(Frame) /\ Depth' = m
      /\ \A i \in 1 .. m :
             /\ i # m => frames'[i] = frames[i]
             /\ frames'[i].f = frames[i].f
             /\ frames'[i].size = frames[i].size
      /\ frames'[m].at = "catch"
  BY ThrowShape
<1> HIDE DEF m
<1>2. \A i \in 1 .. m : i \in 1 .. Depth
  BY <1>1, FramesFacts
<1>3. \A i \in 1 .. m : FrameOK(frames'[i]) /\ Base(frames'[i]) = Base(frames[i])
  <2> SUFFICES ASSUME NEW i \in 1 .. m
               PROVE  FrameOK(frames'[i]) /\ Base(frames'[i]) = Base(frames[i])
    OBVIOUS
  <2>1. frames'[i] \in Frame /\ FrameOK(frames[i])
    BY <1>1, <1>2 DEF Nested, Depth
  <2>2. CASE i # m
    BY <1>1, <2>1, <2>2
  <2>3. CASE i = m
    <3>1. frames[m].f = "try"
      BY <1>1 DEF Tries
    <3> QED
      BY <1>1, <2>1, <2>3, <3>1 DEF FrameOK, Base
  <2> QED
    BY <2>2, <2>3
<1>4. scopes \in Nat /\ scopes' = scopes + 2 /\ \A i \in 1 .. Depth : Base(frames[i]) \in Int
  BY FramesFacts DEF Throw, Base, Frame
<1>5. \A i \in 1 .. m : Base(frames'[i]) + 2 <= scopes'
  <2> SUFFICES ASSUME NEW i \in 1 .. m
               PROVE  Base(frames'[i]) + 2 <= scopes'
    OBVIOUS
  <2>1. Base(frames[i]) + 2 <= scopes /\ Base(frames[i]) \in Int
    BY <1>2, <1>4 DEF Nested
  <2> QED
    BY <1>3, <1>4, <2>1
<1>6. \A i, j \in 1 .. m : i < j => Base(frames'[i]) + 2 <= Base(frames'[j])
  BY <1>2, <1>3 DEF Nested
<1> QED
  BY <1>1, <1>3, <1>5, <1>6 DEF Nested, FrameOK, Base
(* The scopes a frame came with go with it.                                *)
LEMMA ImportDoneFacts ==
    ASSUME IInv, ImportDone
    PROVE  /\ Depth > 0 /\ Top.f = "import" /\ frames' = Popped /\ scopes' = scopes - 2
           /\ scopes' >= Base(Top) /\ scopes' \in 1 .. MaxScopes
           /\ ~early => scopes' = Base(Top)
<1>1. /\ Depth > 0 /\ Top.f = "import" /\ frames' = Popped /\ scopes' = scopes - 2
      /\ Top = frames[Depth] /\ Depth \in 1 .. Depth /\ scopes \in 1 .. MaxScopes
      /\ MaxScopes \in Nat
  BY FramesFacts DEF IInv, ImportDone, In
<1>2. FrameOK(Top) /\ Base(Top) + 2 <= scopes /\ Base(Top) \in Int
  BY <1>1, FramesFacts DEF IInv, Nested, Base, Frame
<1>3. ~early => Height(Top, scopes)
  BY <1>1 DEF IInv, Balanced
<1> QED
  BY <1>1, <1>2, <1>3 DEF FrameOK, Height, Base

LEMMA TryDoneFacts ==
    ASSUME IInv, TryDone
    PROVE  /\ Depth > 0 /\ Top.f = "try" /\ frames' = Popped
           /\ scopes' >= Base(Top) /\ scopes' \in 1 .. MaxScopes
           /\ ~early => scopes' = Base(Top)
<1>1. /\ Depth > 0 /\ Top.f = "try" /\ frames' = Popped
      /\ scopes' = IF Top.at = "catch" THEN Top.size - 1 ELSE scopes - 1 - 1
      /\ Top = frames[Depth] /\ Depth \in 1 .. Depth /\ scopes \in 1 .. MaxScopes
      /\ MaxScopes \in Nat
  BY FramesFacts DEF IInv, TryDone, Unwound
<1>2. /\ FrameOK(Top) /\ Base(Top) + 2 <= scopes /\ Base(Top) = Top.size - 1
      /\ Top.size \in Nat
  <2>1. Top \in Frame
    BY <1>1, FramesFacts DEF IInv
  <2>2. Top.size \in 0 .. MaxScopes
    BY <2>1 DEF Frame
  <2>3. FrameOK(Top) /\ Base(Top) + 2 <= scopes
    BY <1>1 DEF IInv, Nested
  <2> QED
    BY <1>1, <2>2, <2>3 DEF Base
<1>3. ~early => Height(Top, scopes)
  BY <1>1 DEF IInv, Balanced
<1> QED
  BY <1>1, <1>2, <1>3 DEF FrameOK, Height

(* A frame and all below it keep their scopes.                             *)
LEMMA PushBalanced ==
    ASSUME TypeOK, Balanced, NEW fr \in Frame, Base(fr) = scopes,
           frames' = Append(frames, fr), Height(fr, scopes'), early' = early
    PROVE  Balanced'
<1> SUFFICES ASSUME ~early
             PROVE  Balanced'
  BY DEF Balanced
<1>1. /\ Depth' = Depth + 1 /\ Depth \in Nat /\ frames'[Depth + 1] = fr /\ Top' = fr
      /\ \A i \in 1 .. Depth : frames'[i] = frames[i]
  BY PushFacts, FramesFacts
<1>2. Base(frames'[1]) = 1
  <2>1. CASE Depth = 0
    BY <1>1, <2>1 DEF Balanced
  <2>2. CASE Depth # 0
    <3>1. 1 \in 1 .. Depth
      BY <1>1, <2>2
    <3> QED
      BY <1>1, <2>2, <3>1 DEF Balanced
  <2> QED
    BY <2>1, <2>2
<1>3. \A i, j \in 1 .. Depth' : j = i + 1 => Height(frames'[i], Base(frames'[j]))
  <2> SUFFICES ASSUME NEW i \in 1 .. Depth', NEW j \in 1 .. Depth', j = i + 1
               PROVE  Height(frames'[i], Base(frames'[j]))
    OBVIOUS
  <2>1. i \in 1 .. Depth
    BY <1>1
  <2>2. frames'[i] = frames[i]
    BY <1>1, <2>1
  <2>3. CASE i = Depth
    <3>1. j = Depth + 1 /\ Depth # 0
      BY <1>1, <2>1, <2>3
    <3>2. frames'[j] = fr /\ Top = frames[i]
      BY <1>1, <2>3, <3>1 DEF Top
    <3>3. Height(Top, scopes)
      BY <3>1 DEF Balanced
    <3> QED
      BY <2>2, <3>2, <3>3
  <2>4. CASE i # Depth
    <3>1. j \in 1 .. Depth
      BY <1>1, <2>1, <2>4
    <3>2. frames'[j] = frames[j]
      BY <1>1, <3>1
    <3> QED
      BY <2>1, <2>2, <3>1, <3>2 DEF Balanced
  <2> QED
    BY <2>3, <2>4
<1>4. Depth' # 0 /\ Height(Top', scopes')
  BY <1>1
<1> QED
  BY <1>2, <1>3, <1>4 DEF Balanced, Height, Base

LEMMA PopBalanced ==
    ASSUME TypeOK, Balanced, Depth > 0, frames' = Popped, early' = early,
           ~early => scopes' = Base(Top)
    PROVE  Balanced'
<1> SUFFICES ASSUME ~early
             PROVE  Balanced'
  BY DEF Balanced
<1>1. /\ Depth' = Depth - 1 /\ Depth \in Nat /\ Top = frames[Depth] /\ Depth \in 1 .. Depth
      /\ \A i \in 1 .. Depth' : frames'[i] = frames[i]
      /\ Depth' > 0 => Top' = frames[Depth - 1]
  BY PopFacts, FramesFacts
<1>2. CASE Depth' = 0
  <2>1. Depth = 1 /\ scopes' = 1
    BY <1>1, <1>2 DEF Balanced
  <2> QED
    BY <1>1, <1>2, <2>1 DEF Balanced
<1>3. CASE Depth' # 0
  <2>1. Depth - 1 \in 1 .. Depth /\ Depth = (Depth - 1) + 1 /\ Depth' > 0 /\ 1 \in 1 .. Depth'
    BY <1>1, <1>3
  <2>2. Height(Top', scopes')
    BY <1>1, <2>1 DEF Balanced
  <2>3. Base(frames'[1]) = 1
    BY <1>1, <2>1 DEF Balanced
  <2>4. \A i \in 1 .. Depth' : i \in 1 .. Depth
    BY <1>1
  <2>5. \A i, j \in 1 .. Depth' : j = i + 1 => Height(frames'[i], Base(frames'[j]))
    BY <1>1, <2>4 DEF Balanced
  <2> QED
    BY <1>3, <2>2, <2>3, <2>5 DEF Balanced, Height, Base
<1> QED
  BY <1>2, <1>3

LEMMA SameBalanced ==
    ASSUME TypeOK, Nested, Balanced, SameShape, scopes' = scopes, early' = early
    PROVE  Balanced'
<1> SUFFICES ASSUME ~early
             PROVE  Balanced'
  BY DEF Balanced
<1>1. \A i \in 1 .. Depth : Base(frames'[i]) = Base(frames[i])
  BY DEF SameShape, Base
<1>2. ASSUME NEW i \in 1 .. Depth, NEW n, Height(frames[i], n)
      PROVE  Height(frames'[i], n)
  <2>1. frames[i].f \in {"import", "try"}
    BY FramesFacts DEF Frame
  <2> QED
    BY <1>2, <2>1 DEF SameShape, Height
<1>3. Depth' = Depth /\ Top' = frames'[Depth] /\ Top = frames[Depth] /\ Depth \in Nat
  BY FramesFacts DEF SameShape, Top
<1>4. Depth # 0 => Base(frames'[1]) = 1 /\ Height(Top', scopes')
  <2> SUFFICES ASSUME Depth # 0
               PROVE  Base(frames'[1]) = 1 /\ Height(Top', scopes')
    OBVIOUS
  <2>1. 1 \in 1 .. Depth /\ Depth \in 1 .. Depth
    BY <1>3
  <2>2. Base(frames[1]) = 1 /\ Height(frames[Depth], scopes)
    BY <1>3 DEF Balanced
  <2> QED
    BY <1>1, <1>2, <1>3, <2>1, <2>2
<1>5. \A i, j \in 1 .. Depth : j = i + 1 => Height(frames'[i], Base(frames'[j]))
  BY <1>1, <1>2 DEF Balanced
<1>6. Depth = 0 => scopes' = 1
  BY DEF Balanced
<1> QED
  BY <1>3, <1>4, <1>5, <1>6 DEF Balanced, Height, Base

LEMMA ThrowBalanced ==
    ASSUME TypeOK, Nested, Balanced, Throw
    PROVE  Balanced'
<1> SUFFICES ASSUME ~early
             PROVE  Balanced'
  BY DEF Balanced, Throw
<1> DEFINE m == Innermost(Tries)
<1>1. /\ m \in Tries /\ m \in 1 .. Depth /\ Depth' = m
      /\ \A i \in 1 .. m :
             /\ i # m => frames'[i] = frames[i]
             /\ frames'[i].f = frames[i].f
             /\ frames'[i].size = frames[i].size
      /\ frames'[m].at = "catch"
  BY ThrowShape
<1> HIDE DEF m
<1>2. /\ \A i \in 1 .. m : i \in 1 .. Depth
      /\ m \in 1 .. m /\ 1 \in 1 .. m /\ m \in Nat /\ m # 0 /\ Depth # 0
  BY <1>1, FramesFacts
<1>3. \A i \in 1 .. m : Base(frames'[i]) = Base(frames[i])
  BY <1>1 DEF Base
<1>4. Height(frames'[m], scopes')
  <2>1. frames'[m].f = "try" /\ frames'[m].size = frames[m].size /\ frames[m].f = "try"
    BY <1>1, <1>2 DEF Tries
  <2>2. /\ frames[m].size \in Nat /\ Base(frames[m]) + 2 <= scopes
        /\ scopes' = scopes + 2 /\ scopes \in Nat
    BY <1>1, FramesFacts DEF Nested, Frame, Throw
  <2>3. scopes' >= frames[m].size + 2
    BY <2>1, <2>2 DEF Base
  <2> QED
    BY <1>1, <2>1, <2>3 DEF Height
<1>5. \A i, j \in 1 .. m : j = i + 1 => Height(frames'[i], Base(frames'[j]))
  <2> SUFFICES ASSUME NEW i \in 1 .. m, NEW j \in 1 .. m, j = i + 1
               PROVE  Height(frames'[i], Base(frames'[j]))
    OBVIOUS
  <2>1. i # m /\ i \in 1 .. Depth /\ j \in 1 .. Depth
    BY <1>2
  <2> QED
    BY <1>1, <1>3, <2>1 DEF Balanced
<1>6. Base(frames'[1]) = 1
  BY <1>2, <1>3 DEF Balanced
<1>7. Top' = frames'[m]
  BY <1>1 DEF Top
<1> QED
  BY <1>1, <1>2, <1>4, <1>5, <1>6, <1>7 DEF Balanced, Height, Base-----------------------------------------------------------------------------
(* Each import goes back to the one it is evaluated in.                    *)
LEMMA SameChained ==
    ASSUME TypeOK, Chained, Imports' = Imports, current_module' = current_module,
           ~early' /\ ~crossed' => ~early /\ ~crossed,
           \A k \in Imports : frames'[k].saved = frames[k].saved
    PROVE  Chained'
<1>1. \A k : ImportsBelow(k)' = ImportsBelow(k)
  BY DEF ImportsBelow
<1> QED
  BY <1>1 DEF Chained

(* A step that keeps the frames has the same imports.                      *)
LEMMA SameImports ==
    ASSUME TypeOK, SameShape
    PROVE  Imports' = Imports
<1>1. Imports = {i \in 1 .. Depth : frames[i].f = "import"}
  BY FramesFacts DEF Imports
<1>2. Imports' = {i \in 1 .. Depth : frames'[i].f = "import"}
  <2>1. DOMAIN frames' = 1 .. Depth
    BY DEF SameShape, Depth
  <2> QED
    BY <2>1 DEF Imports
<1>3. \A i \in 1 .. Depth : frames'[i].f = frames[i].f
  BY DEF SameShape
<1> QED
  BY <1>1, <1>2, <1>3

LEMMA ImportChained ==
    ASSUME TypeOK, Chained, NEW file \in Files, Import(file)
    PROVE  Chained'
<1> SUFFICES ASSUME ~early, ~crossed
             PROVE  Chained'
  BY DEF Chained, Import, history
<1>1. PICK fr \in Frame : /\ frames' = Append(frames, fr)
                          /\ fr.f = "import" /\ fr.saved = current_module
  BY ImportShape
<1>2. /\ Depth' = Depth + 1 /\ Depth \in Nat /\ frames'[Depth + 1] = fr
      /\ frames' \in Seq(Frame)
      /\ \A i \in 1 .. Depth : frames'[i] = frames[i]
      /\ Imports \subseteq 1 .. Depth /\ DOMAIN frames = 1 .. Depth
  BY <1>1, PushFacts, FramesFacts
<1>3. DOMAIN frames' = 1 .. Depth + 1
  BY <1>2 DEF Depth
<1>4. Imports' = Imports \cup {Depth + 1}
  <2>1. Imports' = {i \in 1 .. Depth + 1 : frames'[i].f = "import"}
    BY <1>3 DEF Imports
  <2>2. Imports = {i \in 1 .. Depth : frames[i].f = "import"}
    BY <1>2 DEF Imports
  <2>3. \A i \in 1 .. Depth + 1 : i \in 1 .. Depth \/ i = Depth + 1
    BY <1>2
  <2>4. \A i \in 1 .. Depth : i \in 1 .. Depth + 1
    BY <1>2
  <2>5. Depth + 1 \in 1 .. Depth + 1
    BY <1>2
  <2> QED
    BY <1>1, <1>2, <2>1, <2>2, <2>3, <2>4, <2>5
<1>5. current_module' = Depth + 1
  BY DEF Import, Entered
<1>6. Innermost(Imports)' = Depth + 1
  <2>1. Imports \cup {Depth + 1} \subseteq Nat /\ \A i \in Imports \cup {Depth + 1} : i <= Depth + 1
    BY <1>2
  <2>2. Innermost(Imports \cup {Depth + 1}) = Depth + 1
    BY <2>1, InnermostIs
  <2> QED
    BY <1>4, <2>2
<1>7. ASSUME NEW k \in Imports'
      PROVE  ImportsBelow(k)' = IF k = Depth + 1 THEN Imports ELSE ImportsBelow(k)
  <2>1. ImportsBelow(k)' = {i \in Imports \cup {Depth + 1} : i < k}
    BY <1>4 DEF ImportsBelow
  <2>2. \A i \in 1 .. Depth : i < Depth + 1 /\ ~(Depth + 1 < i)
    BY <1>2
  <2>3. ~(Depth + 1 < Depth + 1)
    BY <1>2
  <2>4. CASE k = Depth + 1
    <3>1. \A i \in Imports : i < k
      BY <1>2, <2>2, <2>4
    <3>2. ~(Depth + 1 < k)
      BY <2>3, <2>4
    <3> QED
      BY <2>1, <2>4, <3>1, <3>2
  <2>5. CASE k # Depth + 1
    <3>1. k \in 1 .. Depth
      BY <1>2, <1>4, <2>5
    <3>2. ~(Depth + 1 < k)
      BY <2>2, <3>1
    <3> QED
      BY <2>1, <2>5, <3>2 DEF ImportsBelow
  <2> QED
    BY <2>4, <2>5
<1>8. \A k \in Imports' :
          /\ frames'[k].saved = Innermost(ImportsBelow(k)')
          /\ frames'[k].saved \in ImportsBelow(k)' \cup {0}
  <2> SUFFICES ASSUME NEW k \in Imports'
               PROVE  /\ frames'[k].saved = Innermost(ImportsBelow(k)')
                      /\ frames'[k].saved \in ImportsBelow(k)' \cup {0}
    OBVIOUS
  <2>1. CASE k \in Imports
    <3>1. frames'[k] = frames[k] /\ k # Depth + 1
      BY <1>2, <2>1
    <3>2. ImportsBelow(k)' = ImportsBelow(k)
      BY <1>7, <3>1
    <3> QED
      BY <2>1, <3>1, <3>2 DEF Chained
  <2>2. CASE k = Depth + 1
    <3>1. frames'[k].saved = current_module
      BY <1>1, <1>2, <2>2
    <3>2. ImportsBelow(k)' = Imports
      BY <1>7, <2>2
    <3> QED
      BY <3>1, <3>2 DEF Chained
  <2> QED
    BY <1>4, <2>1, <2>2
<1> QED
  BY <1>4, <1>5, <1>6, <1>8 DEF Chained

(* A pushed try, a popped try and a throw leave the imports there are.     *)
LEMMA TryImports ==
    ASSUME TypeOK, Try
    PROVE  Imports' = Imports /\ \A k \in Imports : frames'[k] = frames[k]
<1>1. PICK fr \in Frame : frames' = Append(frames, fr) /\ fr.f = "try"
  BY TryShape
<1>2. /\ Depth' = Depth + 1 /\ Depth \in Nat /\ frames'[Depth + 1] = fr
      /\ frames' \in Seq(Frame)
      /\ \A i \in 1 .. Depth : frames'[i] = frames[i]
      /\ Imports \subseteq 1 .. Depth /\ DOMAIN frames = 1 .. Depth
  BY <1>1, PushFacts, FramesFacts
<1>3. Imports' = {i \in 1 .. Depth + 1 : frames'[i].f = "import"}
  <2>1. DOMAIN frames' = 1 .. Depth + 1
    BY <1>2 DEF Depth
  <2> QED
    BY <2>1 DEF Imports
<1>4. Imports = {i \in 1 .. Depth : frames[i].f = "import"}
  BY <1>2 DEF Imports
<1>5. /\ \A i \in 1 .. Depth + 1 : i \in 1 .. Depth \/ i = Depth + 1
      /\ \A i \in 1 .. Depth : i \in 1 .. Depth + 1
  BY <1>2
<1>6. frames'[Depth + 1].f # "import"
  BY <1>1, <1>2
<1> QED
  BY <1>2, <1>3, <1>4, <1>5, <1>6

LEMMA PopImports ==
    ASSUME TypeOK, Depth > 0, frames' = Popped
    PROVE  /\ Imports' = Imports \ {Depth}
           /\ \A k \in Imports' : frames'[k] = frames[k]
<1>1. /\ Depth' = Depth - 1 /\ Depth \in Nat /\ frames' \in Seq(Frame)
      /\ \A i \in 1 .. Depth' : frames'[i] = frames[i]
      /\ DOMAIN frames = 1 .. Depth
  BY PopFacts, FramesFacts
<1>2. Imports' = {i \in 1 .. Depth - 1 : frames'[i].f = "import"}
  <2>1. DOMAIN frames' = 1 .. Depth - 1
    BY <1>1 DEF Depth
  <2> QED
    BY <2>1 DEF Imports
<1>3. Imports = {i \in 1 .. Depth : frames[i].f = "import"}
  BY <1>1 DEF Imports
<1>4. /\ \A i \in 1 .. Depth - 1 : i \in 1 .. Depth /\ i # Depth
      /\ \A i \in 1 .. Depth : i # Depth => i \in 1 .. Depth - 1
  BY <1>1
<1>5. \A i \in 1 .. Depth - 1 : frames'[i] = frames[i]
  BY <1>1
<1> QED
  BY <1>2, <1>3, <1>4, <1>5

LEMMA ThrowImports ==
    ASSUME TypeOK, Throw, ~crossed'
    PROVE  Imports' = Imports /\ \A k \in Imports : frames'[k].saved = frames[k].saved
<1> DEFINE m == Innermost(Tries)
<1>1. /\ m \in Tries /\ m \in 1 .. Depth /\ Depth' = m /\ frames' \in Seq(Frame)
      /\ \A i \in 1 .. m :
             frames'[i].f = frames[i].f /\ frames'[i].saved = frames[i].saved
  BY ThrowShape
<1>2. \A i \in Imports : ~(i > m)
  BY DEF Throw
<1> HIDE DEF m
<1>3. /\ \A i \in 1 .. m : i \in 1 .. Depth
      /\ Imports \subseteq 1 .. m
  BY <1>1, <1>2, FramesFacts
<1>4. Imports' = {i \in 1 .. m : frames'[i].f = "import"}
  <2>1. DOMAIN frames' = 1 .. m
    BY <1>1 DEF Depth
  <2> QED
    BY <2>1 DEF Imports
<1>5. Imports = {i \in 1 .. Depth : frames[i].f = "import"}
  BY FramesFacts DEF Imports
<1> QED
  BY <1>1, <1>3, <1>4, <1>5

LEMMA ImportDoneChained ==
    ASSUME TypeOK, Chained, ImportDone
    PROVE  Chained'
<1> SUFFICES ASSUME ~early, ~crossed
             PROVE  Chained'
  BY DEF Chained, ImportDone, history
<1>1. /\ Depth > 0 /\ Top = frames[Depth] /\ frames' = Popped /\ Top.f = "import"
      /\ current_module' = frames[Depth].saved
      /\ Depth \in Imports /\ Imports \subseteq 1 .. Depth /\ Depth \in Nat
  BY FramesFacts DEF ImportDone, In, SpecBack, Imports
<1>2. /\ Imports' = Imports \ {Depth}
      /\ \A k \in Imports' : frames'[k] = frames[k]
  BY <1>1, PopImports
<1>3. Imports' = ImportsBelow(Depth)
  <2>1. \A i \in 1 .. Depth : (i < Depth) <=> (i # Depth)
    BY <1>1
  <2> QED
    BY <1>1, <1>2, <2>1 DEF ImportsBelow
<1>4. \A k \in Imports' : ImportsBelow(k)' = ImportsBelow(k)
  <2>1. \A k \in Imports' : ~(Depth < k)
    BY <1>1, <1>2
  <2> QED
    BY <1>2, <2>1 DEF ImportsBelow
<1>5. /\ frames[Depth].saved = Innermost(ImportsBelow(Depth))
      /\ frames[Depth].saved \in ImportsBelow(Depth) \cup {0}
  BY <1>1 DEF Chained
<1>6. \A k \in Imports' :
          /\ frames'[k].saved = Innermost(ImportsBelow(k)')
          /\ frames'[k].saved \in ImportsBelow(k)' \cup {0}
  BY <1>2, <1>4 DEF Chained
<1>7. /\ current_module' = Innermost(Imports')
      /\ current_module' \in Imports' \cup {0}
  BY <1>1, <1>3, <1>5
<1> QED
  BY <1>6, <1>7 DEF Chained-----------------------------------------------------------------------------
(* Each part of the invariant over the steps of Next.                      *)
LEMMA ImportFrame ==
    ASSUME IInv, NEW file \in Files, Import(file)
    PROVE  \E fr \in Frame :
               /\ frames' = Append(frames, fr) /\ FrameOK(fr) /\ Base(fr) = scopes
               /\ Height(fr, scopes')
<1>1. PICK fr \in Frame : /\ frames' = Append(frames, fr) /\ fr.f = "import"
                          /\ fr.file = file /\ fr.size = scopes
  BY ImportShape DEF IInv
<1>2. scopes' = scopes + 2 /\ 1 <= scopes
  BY FramesFacts DEF IInv, Import
<1> QED
  BY <1>1, <1>2 DEF FrameOK, Base, Height

LEMMA TryFrame ==
    ASSUME IInv, Try
    PROVE  \E fr \in Frame :
               /\ frames' = Append(frames, fr) /\ FrameOK(fr) /\ Base(fr) = scopes
               /\ Height(fr, scopes')
<1>1. PICK fr \in Frame : /\ frames' = Append(frames, fr) /\ fr.f = "try"
                          /\ fr.at = "body" /\ fr.size = scopes + 1
  BY TryShape DEF IInv
<1>2. scopes' = scopes + 2 /\ 1 <= scopes /\ scopes \in Nat
  BY FramesFacts DEF IInv, Try
<1>3. Base(fr) = scopes /\ Height(fr, scopes')
  BY <1>1, <1>2 DEF Base, Height
<1> QED
  BY <1>1, <1>2, <1>3 DEF FrameOK

LEMMA NestedKeeps ==
    ASSUME IInv, Next
    PROVE  Nested'
<1> USE DEF IInv
<1>1. CASE \E file \in Files : Import(file)
  BY <1>1, ImportFrame, PushNested DEF Import
<1>2. CASE Try
  BY <1>2, TryFrame, PushNested DEF Try
<1>3. CASE ImportDone
  <2>1. scopes' \in Int /\ scopes' >= Base(Top) /\ Depth > 0 /\ frames' = Popped
    BY <1>3, ImportDoneFacts, ImportAssumption
  <2> QED
    BY <2>1, PopNested
<1>4. CASE TryDone
  <2>1. scopes' \in Int /\ scopes' >= Base(Top) /\ Depth > 0 /\ frames' = Popped
    BY <1>4, TryDoneFacts, ImportAssumption
  <2> QED
    BY <2>1, PopNested
<1>5. CASE ImportNothing
  <2>1. Depth > 0 /\ frames' = Popped /\ scopes' = scopes - 1
    BY <1>5 DEF ImportNothing, In
  <2>2. Top = frames[Depth] /\ Depth \in 1 .. Depth /\ Top \in Frame /\ scopes \in Nat
    BY <2>1, FramesFacts
  <2>3. Base(Top) + 2 <= scopes /\ Base(Top) \in Int
    BY <2>2 DEF Nested, Base, Frame
  <2>4. scopes' \in Int /\ scopes' >= Base(Top)
    BY <2>1, <2>2, <2>3
  <2> QED
    BY <2>1, <2>4, PopNested
<1>6. CASE Bind
  BY <1>6, BindShape, SameNested DEF Bind
<1>7. CASE \E name \in Names : Defmod(name)
  BY <1>7, DefmodShape, SameNested DEF Defmod
<1>8. CASE Build
  BY <1>8, BuildShape, SameNested DEF Build
<1>9. CASE Throw
  BY <1>9, ThrowNested
<1>10. CASE \E v \in Values : Native_call(v)
  BY <1>10 DEF Native_call, Nested, FrameOK, Base, Depth
<1>11. CASE Exit
  <2>1. frames' = <<>> /\ Depth' = 0
    BY <1>11 DEF Exit, Depth
  <2> QED
    BY <2>1 DEF Nested
<1> QED
  BY <1>1, <1>2, <1>3, <1>4, <1>5, <1>6, <1>7, <1>8, <1>9, <1>10, <1>11 DEF Next

LEMMA BalancedKeeps ==
    ASSUME IInv, Next
    PROVE  Balanced'
<1> USE DEF IInv
<1>1. CASE \E file \in Files : Import(file)
  BY <1>1, ImportFrame, PushBalanced DEF Import, history
<1>2. CASE Try
  BY <1>2, TryFrame, PushBalanced DEF Try, history
<1>3. CASE ImportDone
  <2>1. early' = early
    BY <1>3 DEF ImportDone, history
  <2> QED
    BY <1>3, <2>1, ImportDoneFacts, PopBalanced
<1>4. CASE TryDone
  <2>1. early' = early
    BY <1>4 DEF TryDone, history
  <2> QED
    BY <1>4, <2>1, TryDoneFacts, PopBalanced
<1>5. CASE ImportNothing
  BY <1>5 DEF ImportNothing, Balanced
<1>6. CASE Bind
  BY <1>6, BindShape, SameBalanced DEF Bind, history
<1>7. CASE \E name \in Names : Defmod(name)
  BY <1>7, DefmodShape, SameBalanced DEF Defmod, history
<1>8. CASE Build
  BY <1>8, BuildShape, SameBalanced DEF Build, history
<1>9. CASE Throw
  BY <1>9, ThrowBalanced
<1>10. CASE \E v \in Values : Native_call(v)
  BY <1>10 DEF Native_call, history, Balanced, Height, Base, Depth, Top
<1>11. CASE Exit
  <2>1. Depth' = 0 /\ scopes' = 1
    BY <1>11 DEF Exit, Depth
  <2> QED
    BY <2>1 DEF Balanced
<1> QED
  BY <1>1, <1>2, <1>3, <1>4, <1>5, <1>6, <1>7, <1>8, <1>9, <1>10, <1>11 DEF Next

LEMMA ChainedKeeps ==
    ASSUME IInv, Next
    PROVE  Chained'
<1> USE DEF IInv
<1>1. CASE \E file \in Files : Import(file)
  BY <1>1, ImportChained
<1>2. CASE Try
  <2>1. UNCHANGED <<current_module, early, crossed>>
    BY <1>2 DEF Try, spec, history
  <2> QED
    BY <1>2, <2>1, TryImports, SameChained
<1>3. CASE ImportDone
  BY <1>3, ImportDoneChained
<1>4. CASE TryDone
  <2>1. /\ UNCHANGED <<current_module, early, crossed>>
        /\ Depth > 0 /\ frames' = Popped /\ Depth \notin Imports
    BY <1>4, FramesFacts DEF TryDone, spec, history, Imports, Top
  <2>2. Imports' = Imports /\ \A k \in Imports : frames'[k] = frames[k]
    BY <2>1, PopImports
  <2> QED
    BY <2>1, <2>2, SameChained
<1>5. CASE ImportNothing
  BY <1>5 DEF ImportNothing, Chained
<1>6. ASSUME SameShape, UNCHANGED <<current_module, early, crossed>>
      PROVE  Chained'
  <2>1. \A k \in Imports : frames'[k].saved = frames[k].saved
    BY <1>6, FramesFacts DEF SameShape
  <2> QED
    BY <1>6, <2>1, SameImports, SameChained
<1>7. CASE Bind
  BY <1>6, <1>7, BindShape DEF Bind, spec, history
<1>8. CASE \E name \in Names : Defmod(name)
  BY <1>6, <1>8, DefmodShape DEF Defmod, history
<1>9. CASE Build
  BY <1>6, <1>9, BuildShape DEF Build, history
<1>10. CASE Throw
  <2> SUFFICES ASSUME ~crossed'
               PROVE  Chained'
    BY DEF Chained
  <2>1. UNCHANGED <<current_module, early>> /\ ~crossed
    BY <1>10 DEF Throw, spec
  <2> QED
    BY <1>10, <2>1, ThrowImports, SameChained
<1>11. CASE \E v \in Values : Native_call(v)
  BY <1>11 DEF Native_call, spec, history, Chained, Imports, ImportsBelow
<1>12. CASE Exit
  <2>1. frames' = <<>> /\ current_module' = 0
    BY <1>12 DEF Exit
  <2>2. Imports' = {}
    BY <2>1 DEF Imports
  <2>3. Innermost(Imports') = 0
    BY <2>2 DEF Innermost
  <2> QED
    BY <2>1, <2>2, <2>3 DEF Chained
<1> QED
  BY <1>1, <1>2, <1>3, <1>4, <1>5, <1>7, <1>8, <1>9, <1>10, <1>11, <1>12 DEF Next
LEMMA NamesKeep ==
    ASSUME IInv, Next
    PROVE  NamesOwn'
<1> USE DEF IInv
<1> SUFFICES ASSUME ~early', ~crossed'
             PROVE  \A i \in 1 .. Depth' : frames'[i].name = frames'[i].asked
  BY DEF NamesOwn
<1>1. ASSUME NEW fr \in Frame, frames' = Append(frames, fr), fr.name = fr.asked,
             UNCHANGED history
      PROVE  \A i \in 1 .. Depth' : frames'[i].name = frames'[i].asked
  <2> SUFFICES ASSUME NEW i \in 1 .. Depth'
               PROVE  frames'[i].name = frames'[i].asked
    OBVIOUS
  <2>1. /\ Depth' = Depth + 1 /\ Depth \in Nat /\ frames'[Depth + 1] = fr
        /\ \A j \in 1 .. Depth : frames'[j] = frames[j]
    BY <1>1, PushFacts, FramesFacts
  <2>2. i \in 1 .. Depth \/ i = Depth + 1
    BY <2>1
  <2>3. CASE i \in 1 .. Depth
    BY <1>1, <2>1, <2>3 DEF NamesOwn, history
  <2>4. CASE i = Depth + 1
    BY <1>1, <2>1, <2>4
  <2> QED
    BY <2>2, <2>3, <2>4
<1>2. ASSUME Depth > 0, frames' = Popped, UNCHANGED history
      PROVE  \A i \in 1 .. Depth' : frames'[i].name = frames'[i].asked
  <2>1. \A i \in 1 .. Depth' : i \in 1 .. Depth /\ frames'[i] = frames[i]
    BY <1>2, PopFacts, FramesFacts
  <2> QED
    BY <1>2, <2>1 DEF NamesOwn, history
<1>3. CASE \E file \in Files : Import(file)
  BY <1>1, <1>3, ImportShape DEF Import
<1>4. CASE Try
  BY <1>1, <1>4, TryShape DEF Try
<1>5. CASE ImportDone
  BY <1>2, <1>5 DEF ImportDone, In
<1>6. CASE TryDone
  BY <1>2, <1>6 DEF TryDone
<1>7. CASE ImportNothing
  BY <1>7 DEF ImportNothing
<1>8. CASE Bind
  BY <1>8, BindShape DEF Bind, history, SameShape, NamesOwn
<1>9. ASSUME NEW name \in Names, Defmod(name)
      PROVE  \A i \in 1 .. Depth' : frames'[i].name = frames'[i].asked
  <2>1. /\ ~early /\ ~crossed /\ current_module # 0
    BY <1>9 DEF Defmod, history
  <2>2. current_module = Innermost(Imports) /\ current_module \in Imports
    BY <2>1 DEF Chained
  <2>3. Depth' = Depth /\ \A i \in 1 .. Depth : frames[i].name = frames[i].asked
    BY <1>9, <2>1, DefmodShape DEF SameShape, NamesOwn
  <2>4. \A i \in 1 .. Depth :
          /\ frames'[i].name =
                 IF i = current_module /\ i \in Imports THEN name ELSE frames[i].name
          /\ frames'[i].asked =
                 IF i = Innermost(Imports) THEN name ELSE frames[i].asked
    BY <1>9, DefmodShape
  <2> QED
    BY <2>2, <2>3, <2>4
<1>10. CASE Build
  BY <1>10, BuildShape DEF Build, history, SameShape, NamesOwn
<1>11. CASE Throw
  <2>1. ~early /\ ~crossed
    BY <1>11 DEF Throw
  <2> DEFINE m == Innermost(Tries)
  <2>2. /\ m \in 1 .. Depth /\ Depth' = m
        /\ \A i \in 1 .. m : /\ frames'[i].name = frames[i].name
                            /\ frames'[i].asked = frames[i].asked
    BY <1>11, ThrowShape
  <2> HIDE DEF m
  <2>3. \A i \in 1 .. m : i \in 1 .. Depth
    BY <2>2, FramesFacts
  <2> QED
    BY <2>1, <2>2, <2>3 DEF NamesOwn
<1>12. CASE \E v \in Values : Native_call(v)
  BY <1>12 DEF Native_call, history, NamesOwn, Depth
<1>13. CASE Exit
  <2>1. Depth' = 0
    BY <1>13 DEF Exit, Depth
  <2> QED
    BY <2>1
<1> QED
  BY <1>3, <1>4, <1>5, <1>6, <1>7, <1>8, <1>9, <1>10, <1>11, <1>12, <1>13 DEF Next

(* What Build adds to the registry.                                        *)
LEMMA BuildTypes ==
    ASSUME IInv, Build
    PROVE  LET t == <<NameOf(Top), IF Top.asked # NULL THEN Top.asked ELSE Top.file>>
           IN  /\ types' = types \cup {t} /\ locked' = locked \cup {t[1]}
               /\ t \in Values \X Values
               /\ ~early /\ ~crossed => t[1] = t[2]
<1>1. /\ types' = types \cup {<<NameOf(Top), IF Top.asked # NULL THEN Top.asked
                                             ELSE Top.file>>}
      /\ locked' = locked \cup {NameOf(Top)}
  BY DEF Build
<1>2. Depth > 0 /\ Top.f = "import" /\ Top = frames[Depth] /\ Depth \in 1 .. Depth /\ Top \in Frame
  BY FramesFacts DEF IInv, Build, CapturedStale, In
<1>3. /\ Top.file \in Files
      /\ Top.name \in Names \cup {NULL} /\ Top.asked \in Names \cup {NULL}
  BY <1>2 DEF IInv, Nested, FrameOK, Frame
<1>4. ~early /\ ~crossed => Top.name = Top.asked
  BY <1>2 DEF IInv, NamesOwn
<1> QED
  BY <1>1, <1>3, <1>4 DEF NameOf, Values

LEMMA NamedKeeps ==
    ASSUME IInv, Next
    PROVE  NamedByItself'
<1>1. ASSUME types' = types, early' = early, crossed => crossed'
      PROVE  NamedByItself'
  BY <1>1 DEF IInv, NamedByItself
<1>2. CASE Build
  BY <1>2, BuildTypes DEF IInv, NamedByItself, Build, history
<1>3. CASE \E file \in Files : Import(file)
  BY <1>1, <1>3 DEF Import, history
<1>4. ASSUME NEW name \in Names, Defmod(name)
      PROVE  NamedByItself'
  <2>1. types' = types /\ early' = early /\ crossed' = crossed
    BY <1>4 DEF Defmod, history
  <2> QED
    BY <1>1, <2>1
<1>5. CASE Bind
  BY <1>1, <1>5 DEF Bind, spec, history
<1>6. CASE ImportDone
  BY <1>1, <1>6 DEF ImportDone, history
<1>7. CASE ImportNothing
  BY <1>7 DEF ImportNothing, NamedByItself
<1>8. CASE Try
  BY <1>1, <1>8 DEF Try, spec, history
<1>9. CASE Throw
  BY <1>1, <1>9 DEF Throw, spec
<1>10. CASE TryDone
  BY <1>1, <1>10 DEF TryDone, spec, history
<1>11. CASE \E v \in Values : Native_call(v)
  BY <1>1, <1>11 DEF Native_call, spec, history
<1>12. CASE Exit
  BY <1>12 DEF Exit, NamedByItself
<1> QED
  BY <1>2, <1>3, <1>4, <1>5, <1>6, <1>7, <1>8, <1>9, <1>10, <1>11, <1>12 DEF Next

LEMMA LockedKeeps ==
    ASSUME IInv, Next
    PROVE  NamesStayLocked'
<1>1. CASE Build
  BY <1>1, BuildTypes DEF IInv, NamesStayLocked
<1>2. CASE ~Build
  <2>1. types' = {} \/ (types' = types /\ locked \subseteq locked')
    BY <1>2 DEF Next, Import, Bind, Defmod, ImportDone, ImportNothing, Try, Throw,
                TryDone, Native_call, Exit, history, spec, Unlocked
  <2> QED
    BY <2>1 DEF IInv, NamesStayLocked
<1> QED
  BY <1>1, <1>2

LEMMA TypeKeeps ==
    ASSUME IInv, Next
    PROVE  TypeOK'
<1> USE DEF IInv
<1>1. /\ frames \in Seq(Frame) /\ Depth \in Nat /\ Depth <= MaxDepth /\ MaxDepth \in Nat
      /\ scopes \in 1 .. MaxScopes /\ MaxScopes \in Nat \ {0}
      /\ current_module \in 0 .. MaxDepth
      /\ types \subseteq Values \X Values /\ locked \subseteq Values
      /\ early \in BOOLEAN /\ crossed \in BOOLEAN
  BY FramesFacts DEF TypeOK
<1>2. CASE \E file \in Files : Import(file)
  <2>1. PICK file \in Files : Import(file)
    BY <1>2
  <2>2. /\ Depth < MaxDepth /\ scopes' = scopes + 2 /\ scopes + 2 <= MaxScopes
        /\ current_module' = Depth + 1 /\ UNCHANGED <<types, locked, early, crossed>>
    BY <2>1 DEF Import, Entered, history
  <2>3. frames' \in Seq(Frame) /\ Depth' = Depth + 1
    BY <2>1, ImportShape, PushFacts
  <2> QED
    BY <1>1, <2>2, <2>3 DEF TypeOK
<1>3. CASE Try
  <2>1. /\ Depth < MaxDepth /\ scopes' = scopes + 2 /\ scopes + 2 <= MaxScopes
        /\ UNCHANGED <<current_module, types, locked, early, crossed>>
    BY <1>3 DEF Try, spec, history
  <2>2. frames' \in Seq(Frame) /\ Depth' = Depth + 1
    BY <1>3, TryShape, PushFacts
  <2> QED
    BY <1>1, <2>1, <2>2 DEF TypeOK
<1>4. ASSUME Depth > 0, frames' = Popped
      PROVE  frames' \in Seq(Frame) /\ Depth' <= MaxDepth
  BY <1>1, <1>4, PopFacts
<1>5. CASE ImportDone
  <2>1. UNCHANGED <<types, locked, early, crossed>> /\ current_module' \in 0 .. MaxDepth
    BY <1>5, FramesFacts DEF ImportDone, In, Frame, SpecBack, Unlocked, history
  <2>2. scopes' \in 1 .. MaxScopes /\ frames' \in Seq(Frame) /\ Depth' <= MaxDepth
    BY <1>4, <1>5, ImportDoneFacts
  <2> QED
    BY <1>1, <2>1, <2>2 DEF TypeOK
<1>6. CASE TryDone
  <2>1. UNCHANGED <<current_module, types, locked, early, crossed>>
    BY <1>6 DEF TryDone, spec, history
  <2>2. scopes' \in 1 .. MaxScopes /\ frames' \in Seq(Frame) /\ Depth' <= MaxDepth
    BY <1>4, <1>6, TryDoneFacts
  <2> QED
    BY <1>1, <2>1, <2>2 DEF TypeOK
<1>7. CASE ImportNothing
  <2>1. /\ UNCHANGED <<current_module, types, locked, crossed>> /\ early' = TRUE
        /\ scopes' = scopes - 1 /\ Depth > 0 /\ frames' = Popped
    BY <1>7 DEF ImportNothing, In, spec
  <2>2. Depth \in 1 .. Depth
    BY <2>1, FramesFacts
  <2>3. FrameOK(frames[Depth]) /\ Base(frames[Depth]) + 2 <= scopes
    BY <2>2 DEF Nested
  <2>4. 1 <= Base(frames[Depth]) /\ Base(frames[Depth]) \in Int
    BY <2>2, <2>3, FramesFacts DEF FrameOK, Base, Frame
  <2>5. scopes' \in 1 .. MaxScopes
    BY <1>1, <2>1, <2>3, <2>4
  <2> QED
    BY <1>1, <1>4, <2>1, <2>5 DEF TypeOK
<1>8. CASE Bind
  <2>1. UNCHANGED <<scopes, current_module, types, locked, early, crossed>>
    BY <1>8 DEF Bind, spec, history
  <2>2. frames' \in Seq(Frame) /\ Depth' = Depth
    BY <1>8, BindShape DEF SameShape
  <2> QED
    BY <1>1, <2>1, <2>2 DEF TypeOK
<1>9. CASE \E name \in Names : Defmod(name)
  <2>1. PICK name \in Names : Defmod(name)
    BY <1>9
  <2>2. /\ UNCHANGED <<scopes, current_module, types, early, crossed>>
        /\ locked' = locked \cup {name}
    BY <2>1 DEF Defmod, history
  <2>3. frames' \in Seq(Frame) /\ Depth' = Depth
    BY <2>1, DefmodShape DEF SameShape
  <2> QED
    BY <1>1, <2>2, <2>3 DEF TypeOK, Values
<1>10. CASE Build
  <2>1. UNCHANGED <<scopes, current_module, early, crossed>>
    BY <1>10 DEF Build, history
  <2>2. frames' \in Seq(Frame) /\ Depth' = Depth
    BY <1>10, BuildShape DEF SameShape
  <2>3. types' \subseteq Values \X Values /\ locked' \subseteq Values
    BY <1>1, <1>10, BuildTypes
  <2> QED
    BY <1>1, <2>1, <2>2, <2>3 DEF TypeOK
<1>11. CASE Throw
  <2>1. /\ UNCHANGED <<current_module, types, locked, early>> /\ crossed' \in BOOLEAN
        /\ scopes' = scopes + 2 /\ scopes + 2 <= MaxScopes
    BY <1>1, <1>11 DEF Throw, spec
  <2>2. frames' \in Seq(Frame) /\ Depth' \in 1 .. Depth
    BY <1>11, ThrowShape
  <2> QED
    BY <1>1, <2>1, <2>2 DEF TypeOK
<1>12. CASE \E v \in Values : Native_call(v)
  BY <1>1, <1>12 DEF Native_call, TypeOK, spec, history, Depth
<1>13. CASE Exit
  <2>1. frames' \in Seq(Frame) /\ Depth' = 0
    BY <1>13 DEF Exit, Depth
  <2>2. /\ scopes' = 1 /\ current_module' = 0 /\ types' = {} /\ locked' = {}
        /\ early' = FALSE /\ crossed' = FALSE
    BY <1>13 DEF Exit
  <2>3. 1 \in 1 .. MaxScopes /\ 0 \in 0 .. MaxDepth /\ 0 <= MaxDepth
    BY <1>1
  <2>4. types' \subseteq Values \X Values /\ locked' \subseteq Values
    BY <2>2
  <2> QED
    BY <2>1, <2>2, <2>3, <2>4 DEF TypeOK
<1> QED
  BY <1>2, <1>3, <1>5, <1>6, <1>7, <1>8, <1>9, <1>10, <1>11, <1>12, <1>13 DEF Next
-----------------------------------------------------------------------------
(* The invariant holds in every state.                                     *)
THEOREM Invariance == Spec => []IInv
<1>1. Init => IInv
  <2> SUFFICES ASSUME Init
               PROVE  IInv
    OBVIOUS
  <2>1. frames = <<>> /\ Depth = 0 /\ Imports = {} /\ frames \in Seq(Frame)
    BY DEF Init, Depth, Imports
  <2>2. Innermost(Imports) = 0
    BY <2>1 DEF Innermost
  <2>3. TypeOK
    <3>1. 1 \in 1 .. MaxScopes /\ 0 \in 0 .. MaxDepth /\ 0 <= MaxDepth
      BY ImportAssumption
    <3>2. types \subseteq Values \X Values /\ locked \subseteq Values
      BY DEF Init
    <3> QED
      BY <2>1, <3>1, <3>2 DEF Init, TypeOK
  <2>4. Nested /\ NamesOwn
    BY <2>1 DEF Nested, NamesOwn
  <2>5. Balanced /\ Chained
    BY <2>1, <2>2 DEF Init, Balanced, Chained
  <2>6. NamedByItself /\ NamesStayLocked
    BY DEF Init, NamedByItself, NamesStayLocked
  <2> QED
    BY <2>3, <2>4, <2>5, <2>6 DEF IInv
<1>2. IInv /\ [Next]_vars => IInv'
  <2> SUFFICES ASSUME IInv, [Next]_vars
               PROVE  IInv'
    OBVIOUS
  <2>1. CASE Next
    BY <2>1, TypeKeeps, NestedKeeps, BalancedKeeps, ChainedKeeps, NamesKeep, NamedKeeps,
       LockedKeeps DEF IInv
  <2>2. CASE UNCHANGED vars
    <3>1. UNCHANGED <<frames, scopes, current_module, types, locked, early, crossed>>
      BY <2>2 DEF vars, spec, history
    <3>2. Depth' = Depth /\ Top' = Top /\ Imports' = Imports
      BY <3>1 DEF Depth, Top, Imports
    <3>3. TypeOK' /\ Nested' /\ Balanced'
      BY <3>1, <3>2 DEF IInv, TypeOK, Nested, FrameOK, Base, Balanced, Height
    <3>4. Chained' /\ NamesOwn' /\ NamedByItself' /\ NamesStayLocked'
      BY <3>1, <3>2 DEF IInv, Chained, ImportsBelow, NamesOwn, NamedByItself, NamesStayLocked
    <3> QED
      BY <3>3, <3>4 DEF IInv
  <2> QED
    BY <2>1, <2>2
<1> QED
  BY <1>1, <1>2, PTL DEF Spec

(* Type correctness; no frame pops a scope that is not its own, so the     *)
(* scope stack never runs empty, not even after an import that left one    *)
(* behind.                                                                 *)
THEOREM TypeCorrect == Spec => []TypeOK
<1>1. IInv => TypeOK
  BY DEF IInv
<1> QED
  BY <1>1, Invariance, PTL

(* Scopes are as they were whenever control is back in an import, a try or *)
(* the host's program (mod.c, try.c), unless an import bound nothing.      *)
THEOREM ScopesBalance == Spec => []ScopesRestored
<1>1. IInv => ScopesRestored
  <2> SUFFICES ASSUME IInv, ~early
               PROVE  ScopesRestored
    BY DEF ScopesRestored
  <2>1. TypeOK /\ Balanced
    BY DEF IInv
  <2> QED
    BY <2>1, FramesFacts DEF Balanced, Height, ScopesRestored
<1> QED
  BY <1>1, Invariance, PTL

(* current_module is the spec of the innermost import (mod.c:79-90,144).   *)
THEOREM DefmodFindsItsImport == Spec => []SpecCurrent
<1>1. IInv => SpecCurrent
  BY DEF IInv, Chained, SpecCurrent
<1> QED
  BY <1>1, Invariance, PTL

(* A module's type is named by its own defmod or file.                     *)
THEOREM ModulesNameThemselves == Spec => []NamedByItself
<1>1. IInv => NamedByItself
  BY DEF IInv
<1> QED
  BY <1>1, Invariance, PTL

(* No name in the registry is ever unlocked.                               *)
THEOREM RegistryLocked == Spec => []NamesStayLocked
<1>1. IInv => NamesStayLocked
  BY DEF IInv
<1> QED
  BY <1>1, Invariance, PTL
=============================================================================
