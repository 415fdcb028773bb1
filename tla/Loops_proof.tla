---------------------------- MODULE Loops_proof ----------------------------
(***************************************************************************)
(* The loops of the code over a list or a text, for any length of it:      *)
(*   - partial application of native functions is application, for any     *)
(*     functions of any arity, any values, and any number and length of    *)
(*     calls; the arithmetic and the comparisons are those of fractions    *)
(*     (NativeCall, Builtins);                                             *)
(*   - the verdict on a text, the cuts of the prompt, and what the grammar *)
(*     keeps of a text (Forms).                                            *)
(* A loop is a recursive function in the model, and what holds of it       *)
(* follows from each of its turns (EveryTurn).                             *)
(***************************************************************************)
EXTENDS Builtins, Forms, SequenceTheorems, FiniteSetTheorems, WellFoundedInduction, TLAPS

\* What a place of the array may hold: an argument, a list of them, or nothing.
Slots == Values \cup {NULL} \cup Seq(Values)

\* A closure keeps the arguments it was given, waits for the others, and is
\* one of a function whose arguments all have their place in the array.
ClosureOK(c) ==
    /\ c.func \in registered \ RestFuncs
    /\ c.bound \in Seq(Values) /\ c.given = c.bound
    /\ c.arity \in Nat
    /\ Len(c.bound) + c.arity = arity[c.func]

IInv ==
    /\ registered \subseteq Funcs
    /\ native_func_args \in Seq(Slots)
    /\ \A f \in registered : arity[f] <= Len(native_func_args)
    /\ \A c \in closures : ClosureOK(c)
    /\ ReadsWhatItWasGiven
-----------------------------------------------------------------------------
(* Copying into the array neither moves nor adds a place, and writes what  *)
(* is copied where it begins.                                              *)
LEMMA CopiedFacts ==
    ASSUME NEW a \in Seq(Slots), NEW s \in Seq(Slots), NEW k \in Nat \ {0}
    PROVE  /\ Copied(a, k, s) \in Seq(Slots)
           /\ Len(Copied(a, k, s)) = Len(a)
           /\ \A i \in 1 .. Len(a) : Copied(a, k, s)[i] =
                  IF i - k + 1 \in 1 .. Len(s) THEN s[i - k + 1] ELSE a[i]
<1> DEFINE r == Copied(a, k, s)
           n == Len(a)
<1>1. n \in Nat /\ DOMAIN a = 1 .. n /\ DOMAIN s = 1 .. Len(s)
  OBVIOUS
<1>2. r = [i \in 1 .. n |-> IF i - k + 1 \in 1 .. Len(s) THEN s[i - k + 1] ELSE a[i]]
  BY <1>1 DEF Copied
<1>3. \A i \in 1 .. n :
        /\ a[i] \in Slots
        /\ i - k + 1 \in 1 .. Len(s) => s[i - k + 1] \in Slots
  BY <1>1
<1>4. \A i \in 1 .. n :
        (IF i - k + 1 \in 1 .. Len(s) THEN s[i - k + 1] ELSE a[i]) \in Slots
  BY <1>3
<1> HIDE DEF r, n
<1>5. r \in [1 .. n -> Slots]
  BY <1>2, <1>4
<1>6. r \in Seq(Slots) /\ Len(r) = n
  BY <1>1, <1>5
<1>7. \A i \in 1 .. n : r[i] =
        IF i - k + 1 \in 1 .. Len(s) THEN s[i - k + 1] ELSE a[i]
  BY <1>2
<1> QED
  BY <1>6, <1>7 DEF r, n

(* With the bound arguments copied to the front and the new ones behind    *)
(* them, the array begins with both, one after the other.                  *)
LEMMA Filled ==
    ASSUME NEW a \in Seq(Slots), NEW b \in Seq(Values), NEW t \in Seq(Values),
           Len(b) + Len(t) <= Len(a)
    PROVE  LET r == Copied(Copied(a, 1, b), Len(b) + 1, t)
           IN  /\ r \in Seq(Slots)
               /\ Len(r) = Len(a)
               /\ SubSeq(r, 1, Len(b) + Len(t)) = b \o t
<1> DEFINE q == Copied(a, 1, b)
           r == Copied(q, Len(b) + 1, t)
           m == Len(b) + Len(t)
<1>1. /\ b \in Seq(Slots) /\ t \in Seq(Slots)
      /\ Len(a) \in Nat /\ Len(b) \in Nat /\ Len(t) \in Nat
      /\ \A i \in 1 .. Len(b) : b[i] \in Values
      /\ \A i \in 1 .. Len(t) : t[i] \in Values
  <2>1. Values \subseteq Slots
    BY DEF Slots
  <2> QED
    BY <2>1, SeqMonotonic
<1>2. /\ q \in Seq(Slots) /\ Len(q) = Len(a)
      /\ \A i \in 1 .. Len(a) : q[i] = IF i - 1 + 1 \in 1 .. Len(b) THEN b[i - 1 + 1] ELSE a[i]
  BY <1>1, CopiedFacts
<1> HIDE DEF q
<1>3. /\ r \in Seq(Slots) /\ Len(r) = Len(a)
      /\ \A i \in 1 .. Len(a) : r[i] =
             IF i - (Len(b) + 1) + 1 \in 1 .. Len(t) THEN t[i - (Len(b) + 1) + 1] ELSE q[i]
  <2>1. Len(b) + 1 \in Nat \ {0}
    BY <1>1
  <2> QED
    BY <1>1, <1>2, <2>1, CopiedFacts
<1> HIDE DEF r
<1>4. \A i \in 1 .. m : r[i] = IF i <= Len(b) THEN b[i] ELSE t[i - Len(b)]
  <2> SUFFICES ASSUME NEW i \in 1 .. m
               PROVE  r[i] = IF i <= Len(b) THEN b[i] ELSE t[i - Len(b)]
    OBVIOUS
  <2>1. i \in 1 .. Len(a) /\ i - (Len(b) + 1) + 1 = i - Len(b) /\ i - 1 + 1 = i
    BY <1>1
  <2>2. CASE i <= Len(b)
    BY <1>1, <1>2, <1>3, <2>1, <2>2
  <2>3. CASE ~(i <= Len(b))
    <3>1. i - Len(b) \in 1 .. Len(t)
      BY <1>1, <2>3
    <3> QED
      BY <1>3, <2>1, <2>3, <3>1
  <2> QED
    BY <2>2, <2>3
<1>5. /\ b \o t \in Seq(Values) /\ Len(b \o t) = m
      /\ \A i \in 1 .. m : (b \o t)[i] = IF i <= Len(b) THEN b[i] ELSE t[i - Len(b)]
  BY ConcatProperties
<1>6. /\ SubSeq(r, 1, m) \in Seq(Values) /\ Len(SubSeq(r, 1, m)) = m
      /\ \A i \in 1 .. m : SubSeq(r, 1, m)[i] = r[i]
  <2>1. \A i \in 1 .. m : r[i] \in Values
    BY <1>1, <1>4
  <2> HIDE DEF m
  <2>2. m \in Nat
    BY <1>1 DEF m
  <2>3. /\ SubSeq(r, 1, m) \in Seq(Values)
        /\ Len(SubSeq(r, 1, m)) = IF 1 <= m THEN m - 1 + 1 ELSE 0
        /\ \A i \in 1 .. m - 1 + 1 : SubSeq(r, 1, m)[i] = r[1 + i - 1]
    BY <2>1, <2>2, SubSeqProperties
  <2>4. m - 1 + 1 = m /\ \A i \in 1 .. m : 1 + i - 1 = i
    BY <2>2
  <2> QED
    BY <2>2, <2>3, <2>4
<1>7. SubSeq(r, 1, m) = b \o t
  <2> DEFINE u == SubSeq(r, 1, m)
             w == b \o t
  <2> HIDE DEF u, w, m
  <2>1. u \in Seq(Values) /\ w \in Seq(Values) /\ Len(u) = Len(w)
    BY <1>5, <1>6 DEF u, w
  <2>2. \A i \in 1 .. Len(u) : u[i] = w[i]
    BY <1>4, <1>5, <1>6 DEF u, w
  <2>3. u = w
    BY <2>1, <2>2, SeqEqual
  <2> QED
    BY <2>3 DEF u, w
<1> QED
  BY <1>3, <1>7 DEF q, r
-----------------------------------------------------------------------------
(* Registering a function makes room for its arguments.                    *)
LEMMA RegisterKeeps ==
    ASSUME IInv, NEW f \in Funcs, Sv_native_func_register(f)
    PROVE  IInv'
<1> DEFINE n == Capacity(f)
<1>1. /\ native_func_args \in Seq(Slots) /\ Len(native_func_args) \in Nat
      /\ DOMAIN native_func_args = 1 .. Len(native_func_args)
      /\ arity[f] \in Nat \ {0}
      /\ registered' = registered \cup {f} /\ closures' = closures /\ called' = <<>>
  BY NativeAssumption DEF IInv, Sv_native_func_register
<1>2. n \in Nat /\ arity[f] <= n /\ Len(native_func_args) <= n
  BY <1>1 DEF Capacity
<1> HIDE DEF n
<1>3. native_func_args' \in [1 .. n -> Slots]
  <2>1. native_func_args' = [i \in 1 .. n |->
            IF i \in DOMAIN native_func_args THEN native_func_args[i] ELSE NULL]
    BY DEF Sv_native_func_register, n
  <2>2. NULL \in Slots
    BY DEF Slots
  <2>3. \A i \in DOMAIN native_func_args : native_func_args[i] \in Slots
    BY <1>1
  <2> QED
    BY <2>1, <2>2, <2>3
<1>4. native_func_args' \in Seq(Slots) /\ Len(native_func_args') = n
  BY <1>2, <1>3
<1>5. registered' \subseteq Funcs
  BY <1>1 DEF IInv
<1>6. \A g \in registered' : arity[g] <= Len(native_func_args')
  <2> SUFFICES ASSUME NEW g \in registered'
               PROVE  arity[g] <= n
    BY <1>4
  <2>1. arity[g] \in Nat
    BY <1>5, NativeAssumption
  <2>2. CASE g = f
    BY <1>2, <2>2
  <2>3. CASE g # f
    <3>1. arity[g] <= Len(native_func_args)
      BY <1>1, <2>3 DEF IInv
    <3> QED
      BY <1>1, <1>2, <2>1, <3>1
  <2> QED
    BY <2>2, <2>3
<1>7. \A c \in closures' : ClosureOK(c)'
  BY <1>1 DEF IInv, ClosureOK
<1>8. ReadsWhatItWasGiven'
  BY <1>1 DEF ReadsWhatItWasGiven
<1> QED
  BY <1>4, <1>5, <1>6, <1>7, <1>8 DEF IInv

(* What can be called is a closure, or a function that has bound nothing.  *)
LEMMA CallableFacts ==
    ASSUME IInv, NEW c \in Callable
    PROVE  /\ c.func \in registered /\ c.func \in Funcs
           /\ c.bound \in Seq(Values) /\ c.given = c.bound
           /\ c.arity \in Nat
           /\ Len(c.bound) + c.arity = arity[c.func]
           /\ c.func \in RestFuncs => c.bound = <<>> /\ c.arity = 1
<1>1. CASE c \in closures
  BY <1>1 DEF IInv, ClosureOK
<1>2. CASE c \notin closures
  <2>1. PICK f \in registered : c = Unbound(f)
    BY <1>2 DEF Callable
  <2>2. f \in Funcs /\ arity[f] \in Nat /\ (f \in RestFuncs => arity[f] = 1)
    BY <2>1, NativeAssumption DEF IInv
  <2>3. c.func = f /\ c.arity = arity[f] /\ c.bound = <<>> /\ c.given = <<>>
    BY <2>1 DEF Unbound
  <2>4. <<>> \in Seq(Values) /\ Len(c.bound) = 0
    BY <2>3
  <2> QED
    BY <2>1, <2>2, <2>3, <2>4
<1> QED
  BY <1>1, <1>2

LEMMA ArgListFacts ==
    ASSUME NEW args \in ArgLists
    PROVE  args \in Seq(Values) /\ Len(args) \in Nat
  BY NativeAssumption DEF ArgLists

(* A call that does not make a closure keeps IInv if the array keeps its   *)
(* length and the call reads what it was given.                            *)
LEMMA CallKeeps ==
    ASSUME IInv,
           native_func_args' \in Seq(Slots),
           Len(native_func_args') = Len(native_func_args),
           registered' = registered,
           \A c \in closures' \ closures : ClosureOK(c),
           ReadsWhatItWasGiven'
    PROVE  IInv'
<1>1. \A c \in closures' : ClosureOK(c)
  BY DEF IInv
<1>2. \A c \in closures' : ClosureOK(c)'
  BY <1>1 DEF ClosureOK
<1> QED
  BY <1>2 DEF IInv

(* A call of a function with fixed arguments: bound and new ones lie one   *)
(* after the other in the array; too few make a closure of both.           *)
LEMMA FixedCallKeeps ==
    ASSUME IInv, NEW c \in Callable, NEW args \in ArgLists,
           c.func \notin RestFuncs, Native_call(c, args)
    PROVE  IInv'
<1> DEFINE taken == IF Len(args) < c.arity THEN Len(args) ELSE c.arity
           t == SubSeq(args, 1, taken)
           rest == SubSeq(args, taken + 1, Len(args))
           a == Copied(Restored(c), Len(c.bound) + 1, t)
           given == c.given \o args
           made == [func |-> c.func, arity |-> c.arity - taken,
                    bound |-> Kept(a, c, taken), given |-> given]
<1>1. /\ c.func \in registered /\ c.bound \in Seq(Values) /\ c.given = c.bound
      /\ c.arity \in Nat /\ Len(c.bound) + c.arity = arity[c.func]
      /\ args \in Seq(Values) /\ Len(args) \in Nat /\ Len(c.bound) \in Nat
  BY CallableFacts, ArgListFacts
<1>2. taken \in Nat /\ taken <= Len(args) /\ taken <= c.arity
  BY <1>1
<1>3. /\ native_func_args \in Seq(Slots) /\ Len(native_func_args) \in Nat
      /\ arity[c.func] <= Len(native_func_args)
  BY <1>1 DEF IInv
<1>4. \/ /\ taken < c.arity
         /\ native_func_args' = a /\ closures' = closures \cup {made}
         /\ called' = <<>> /\ registered' = registered
      \/ /\ taken = c.arity /\ rest = <<>>
         /\ native_func_args' = a
         /\ called' = [func |-> c.func, args |-> a, given |-> given]
         /\ registered' = registered /\ closures' = closures
      \/ /\ native_func_args' = a /\ called' = <<>>
         /\ registered' = registered /\ closures' = closures
  BY DEF Native_call
<1> HIDE DEF taken
<1>5. /\ t \in Seq(Values) /\ Len(t) = taken
      /\ \A i \in 1 .. taken : t[i] = args[i]
  BY <1>1, <1>2
<1> HIDE DEF t
<1>6. /\ a \in Seq(Slots) /\ Len(a) = Len(native_func_args)
      /\ SubSeq(a, 1, Len(c.bound) + taken) = c.bound \o t
  <2>1. Len(c.bound) + Len(t) <= Len(native_func_args)
    BY <1>1, <1>2, <1>3, <1>5
  <2> QED
    BY <1>1, <1>3, <1>5, <2>1, Filled DEF Restored
<1> HIDE DEF a
<1>7. ASSUME taken = Len(args)
      PROVE  /\ given = SubSeq(a, 1, Len(c.bound) + taken)
             /\ given \in Seq(Values) /\ Len(given) = Len(c.bound) + taken
  <2>1. t = args
    BY <1>1, <1>5, <1>7, SeqEqual
  <2> QED
    BY <1>1, <1>6, <1>7, <2>1, ConcatProperties
<1> HIDE DEF given
<1>8. CASE /\ taken < c.arity
           /\ native_func_args' = a /\ closures' = closures \cup {made}
           /\ called' = <<>> /\ registered' = registered
  <2>1. taken = Len(args)
    BY <1>1, <1>8 DEF taken
  <2>2. /\ made.func = c.func /\ made.arity = c.arity - taken
        /\ made.bound = given /\ made.given = given
    BY <1>7, <2>1 DEF Kept
  <2> HIDE DEF made
  <2>3. Len(given) = Len(c.bound) + taken /\ given \in Seq(Values)
    BY <1>7, <2>1
  <2>4. made.arity \in Nat /\ Len(given) + made.arity = arity[c.func]
    BY <1>1, <1>2, <2>2, <2>3
  <2>6. c.func \in registered \ RestFuncs
    BY <1>1
  <2>7. ClosureOK(made)
    BY <2>2, <2>3, <2>4, <2>6 DEF ClosureOK
  <2>5. ReadsWhatItWasGiven'
    BY <1>8 DEF ReadsWhatItWasGiven
  <2> QED
    BY <1>6, <1>8, <2>5, <2>7, CallKeeps
<1>9. CASE /\ taken = c.arity /\ rest = <<>>
           /\ native_func_args' = a
           /\ called' = [func |-> c.func, args |-> a, given |-> given]
           /\ registered' = registered /\ closures' = closures
  <2>1. taken = Len(args)
    <3>1. Len(rest) = IF taken + 1 <= Len(args) THEN Len(args) - (taken + 1) + 1 ELSE 0
      BY <1>1, <1>2
    <3>2. Len(rest) = 0
      BY <1>9
    <3> QED
      BY <1>1, <1>2, <3>1, <3>2
  <2>2. /\ Len(given) = arity[c.func]
        /\ SubSeq(a, 1, arity[c.func]) = given
    BY <1>1, <1>7, <1>9, <2>1
  <2>3. called'.func = c.func /\ called'.args = a /\ called'.given = given
    BY <1>9
  <2>4. ReadsWhatItWasGiven'
    BY <1>3, <1>6, <2>2, <2>3 DEF ReadsWhatItWasGiven
  <2> QED
    BY <1>6, <1>9, <2>4, CallKeeps
<1>10. CASE /\ native_func_args' = a /\ called' = <<>>
            /\ registered' = registered /\ closures' = closures
  <2>1. ReadsWhatItWasGiven'
    BY <1>10 DEF ReadsWhatItWasGiven
  <2> QED
    BY <1>6, <1>10, <2>1, CallKeeps
<1> QED
  BY <1>4, <1>8, <1>9, <1>10

LEMMA CopiedFirst ==
    ASSUME NEW a \in Seq(Slots), NEW s \in Seq(Slots)
    PROVE  /\ Copied(a, 1, s) \in Seq(Slots)
           /\ Len(Copied(a, 1, s)) = Len(a)
           /\ 1 <= Len(a) /\ 1 <= Len(s) => Copied(a, 1, s)[1] = s[1]
<1>1. /\ Copied(a, 1, s) \in Seq(Slots)
      /\ Len(Copied(a, 1, s)) = Len(a)
      /\ \A i \in 1 .. Len(a) : Copied(a, 1, s)[i] =
             IF i - 1 + 1 \in 1 .. Len(s) THEN s[i - 1 + 1] ELSE a[i]
  BY CopiedFacts
<1> QED
  BY <1>1

(* A call of a function with a rest argument: the list of all of them is   *)
(* in the first place of the array.                                        *)
LEMMA RestCallKeeps ==
    ASSUME IInv, NEW c \in Callable, NEW args \in ArgLists,
           c.func \in RestFuncs, Native_call(c, args)
    PROVE  IInv'
<1> DEFINE none == SubSeq(args, 1, 0)
           one == <<args>>
           a == Copied(Restored(c), 1, none)
           r == Copied(a, 1, one)
<1>1. /\ c.func \in registered /\ c.bound = <<>> /\ c.given = <<>> /\ c.arity = 1
      /\ arity[c.func] = 1
      /\ args \in Seq(Values) /\ Len(args) \in Nat
  BY CallableFacts, ArgListFacts
<1>2. /\ native_func_args \in Seq(Slots) /\ Len(native_func_args) \in Nat
      /\ 1 <= Len(native_func_args)
  BY <1>1 DEF IInv
<1>3. none = <<>> /\ none \in Seq(Slots) /\ Restored(c) = Copied(native_func_args, 1, none)
  <2>1. none = <<>>
    BY <1>1, SubSeqEmpty
  <2> HIDE DEF none
  <2>2. none \in Seq(Slots)
    BY <2>1
  <2> QED
    BY <1>1, <2>1, <2>2 DEF Restored
<1>4. /\ one \in Seq(Slots) /\ Len(one) = 1 /\ one[1] = args
  BY <1>1 DEF Slots
<1>5. /\ native_func_args' = r /\ registered' = registered /\ closures' = closures
      /\ called' = [func |-> c.func, args |-> r, given |-> args]
  <2> DEFINE taken == IF Len(args) < c.arity - 1 THEN Len(args) ELSE c.arity - 1
             rest == SubSeq(args, taken + 1, Len(args))
             given == c.given \o args
             b == Copied(Restored(c), Len(c.bound) + 1, SubSeq(args, 1, taken))
  <2>1. taken = 0 /\ c.arity - 1 = 0 /\ Len(c.bound) = 0
    BY <1>1
  <2>2. \/ taken < c.arity - 1
        \/ /\ native_func_args' = Copied(b, Len(c.bound) + taken + 1, <<rest>>)
           /\ called' = [func |-> c.func, args |-> native_func_args', given |-> given]
           /\ registered' = registered /\ closures' = closures
    BY DEF Native_call
  <2>3. rest = args /\ given = args
    <3>1. taken + 1 = 1
      BY <2>1
    <3> HIDE DEF taken
    <3>2. SubSeq(args, 1, Len(args)) = args
      BY <1>1
    <3>3. rest = args
      BY <3>1, <3>2
    <3>4. <<>> \o args = args
      BY <1>1, ConcatEmptySeq
    <3> QED
      BY <1>1, <3>3, <3>4
  <2> HIDE DEF taken, rest, given
  <2>4. Len(c.bound) + taken + 1 = 1 /\ Len(c.bound) + 1 = 1 /\ ~(taken < c.arity - 1)
    BY <2>1
  <2>5. b = a
    BY <2>1, <2>4
  <2> QED
    BY <2>2, <2>3, <2>4, <2>5
<1> HIDE DEF none, one, a
<1>6. a \in Seq(Slots) /\ Len(a) = Len(native_func_args)
  <2>1. Restored(c) \in Seq(Slots) /\ Len(Restored(c)) = Len(native_func_args)
    BY <1>2, <1>3, CopiedFirst
  <2> QED
    BY <1>3, <2>1, CopiedFirst DEF a
<1>7. /\ r \in Seq(Slots) /\ Len(r) = Len(native_func_args) /\ r[1] = args
  <2>1. /\ r \in Seq(Slots) /\ Len(r) = Len(a)
        /\ 1 <= Len(a) /\ 1 <= Len(one) => r[1] = one[1]
    BY <1>4, <1>6, CopiedFirst
  <2> QED
    BY <1>2, <1>4, <1>6, <2>1
<1> HIDE DEF r
<1>8. called'.func = c.func /\ called'.args = r /\ called'.given = args
  BY <1>5
<1>9. ReadsWhatItWasGiven'
  <2>1. r # <<>>
    BY <1>2, <1>7
  <2> QED
    BY <1>7, <1>8, <2>1 DEF ReadsWhatItWasGiven
<1> QED
  BY <1>5, <1>7, <1>9, CallKeeps
-----------------------------------------------------------------------------
(* Every step keeps the invariant.                                         *)
LEMMA StepKeeps == IInv /\ [NativeNext]_nativeVars => IInv'
<1> SUFFICES ASSUME IInv, [NativeNext]_nativeVars
             PROVE  IInv'
  OBVIOUS
<1>1. ASSUME NEW f \in Funcs, Sv_native_func_register(f)
      PROVE  IInv'
  BY <1>1, RegisterKeeps
<1>2. ASSUME NEW c \in Callable, NEW args \in ArgLists, Native_call(c, args)
      PROVE  IInv'
  BY <1>2, FixedCallKeeps, RestCallKeeps
<1>3. ASSUME NEW c \in closures, Drop(c)
      PROVE  IInv'
  <2>1. ReadsWhatItWasGiven'
    BY <1>3 DEF Drop, ReadsWhatItWasGiven
  <2> QED
    BY <1>3, <2>1, CallKeeps DEF Drop, IInv
<1>4. CASE UNCHANGED nativeVars
  BY <1>4 DEF nativeVars, IInv, ClosureOK, ReadsWhatItWasGiven
<1> QED
  BY <1>1, <1>2, <1>3, <1>4 DEF NativeNext

(* The invariant holds in every state, without builtins and with them.     *)
THEOREM Invariance == NativeSpec => []IInv
<1>1. NativeInit => IInv
  BY DEF NativeInit, IInv, ReadsWhatItWasGiven
<1> QED
  BY <1>1, StepKeeps, PTL DEF NativeSpec

(* The array the builtins leave has room for the longest of them.          *)
LEMMA BuiltinInitIInv == BuiltinInit => IInv
<1> SUFFICES ASSUME BuiltinInit PROVE IInv
  OBVIOUS
<1> DEFINE known == Funcs \ HostFuncs
           arities == {arity[f] : f \in known}
           longest == CHOOSE n \in arities : \A k \in arities : k <= n
<1>1. \A f \in known : arity[f] \in Nat \ {0}
  BY NativeAssumption
<1>2. longest \in arities /\ \A k \in arities : k <= longest
  <2>1. \E n \in arities : \A k \in arities : k <= n
    BY BuiltinsAssumption
  <2> HIDE DEF arities
  <2> QED
    BY <2>1
<1>3. /\ registered = known /\ closures = {} /\ called = <<>>
      /\ native_func_args = [i \in 1 .. longest |-> NULL]
  BY DEF BuiltinInit
<1>4. longest \in Nat /\ \A f \in known : arity[f] <= longest
  BY <1>1, <1>2
<1> HIDE DEF longest, arities
<1>5. native_func_args \in Seq(Slots) /\ Len(native_func_args) = longest
  <2>1. NULL \in Slots
    BY DEF Slots
  <2>2. native_func_args \in [1 .. longest -> Slots]
    BY <1>3, <2>1
  <2> QED
    BY <1>4, <2>2
<1>6. ReadsWhatItWasGiven
  BY <1>3 DEF ReadsWhatItWasGiven
<1> QED
  BY <1>3, <1>4, <1>5, <1>6 DEF IInv

LEMMA BuiltinInvariance == BuiltinSpec => []IInv
  BY BuiltinInitIInv, StepKeeps, PTL DEF BuiltinSpec

(* Whenever a native function is called it reads exactly the arguments it  *)
(* has been given, however they arrived (native_func.c).                   *)
THEOREM PartialIsWhole ==
    (NativeSpec => []ReadsWhatItWasGiven) /\ (BuiltinSpec => []ReadsWhatItWasGiven)
<1>1. IInv => ReadsWhatItWasGiven
  BY DEF IInv
<1>2. NativeSpec => []ReadsWhatItWasGiven
  BY <1>1, Invariance, PTL
<1>3. BuiltinSpec => []ReadsWhatItWasGiven
  BY <1>1, BuiltinInvariance, PTL
<1> QED
  BY <1>2, <1>3
-----------------------------------------------------------------------------
\* A known function is called, and with a list of values.
GivenOK == called # <<>> => called.func \in registered /\ called.given \in Seq(Values)

LEMMA GivenKept == IInv /\ GivenOK /\ [NativeNext]_nativeVars => GivenOK'
<1> SUFFICES ASSUME IInv, GivenOK, [NativeNext]_nativeVars
             PROVE  GivenOK'
  OBVIOUS
<1>1. ASSUME NEW c \in Callable, NEW args \in ArgLists, Native_call(c, args)
      PROVE  GivenOK'
  <2>1. c.given \in Seq(Values) /\ args \in Seq(Values)
    BY CallableFacts, ArgListFacts
  <2>2. c.given \o args \in Seq(Values)
    BY <2>1, ConcatProperties
  <2>3. called' = <<>> \/ (called'.func = c.func /\ called'.given = c.given \o args)
    BY <1>1 DEF Native_call
  <2>4. c.func \in registered /\ registered' = registered
    BY <1>1, CallableFacts DEF Native_call
  <2> QED
    BY <2>2, <2>3, <2>4 DEF GivenOK
<1>2. called' = <<>> \/ UNCHANGED <<called, registered>> => GivenOK'
  BY DEF GivenOK
<1> QED
  BY <1>1, <1>2 DEF NativeNext, nativeVars, Sv_native_func_register, Drop

(* An operator reads the list of all it was given.                         *)
LEMMA ListIsRead ==
    ASSUME IInv, GivenOK, called # <<>>, called.func \in Arithmetic \cup Comparisons
    PROVE  called.args[1] = called.given
<1>1. called.func \in RestFuncs
  BY BuiltinsAssumption DEF IInv, GivenOK
<1> QED
  BY <1>1 DEF IInv, ReadsWhatItWasGiven

(* Two numbers compare by their cross products, and an integer is its own  *)
(* (builtins.c:427-436).                                                   *)
LEMMA PairRelated ==
    ASSUME NEW op \in Comparisons, NEW x \in Values, NEW y \in Values,
           x.d > 0, y.d > 0, IsInt(x) => IsInt(y)
    PROVE  ComparePair(op, x, y) <=> Related(op, x, y)
<1>1. x.n \in Int /\ x.d \in Int /\ y.n \in Int /\ y.d \in Int
  BY NumbersAssumption
<1> DEFINE p == x.n * y.d
           q == y.n * x.d
<1>2. p \in Int /\ q \in Int /\ x.d * y.n = q
  BY <1>1
<1>3. (Less(x, y) <=> p < q) /\ (Less(y, x) <=> q < p)
  BY DEF Less
<1>4. ComparePair(op, x, y) <=> compare_numbers(op, p, q)
  <2>1. CASE IsInt(x)
    <3>1. x.d = 1 /\ y.d = 1 /\ IsInt(y)
      BY <2>1 DEF IsInt
    <3>2. p = x.n /\ q = y.n
      BY <1>1, <3>1
    <3> HIDE DEF p, q
    <3> QED
      BY <2>1, <3>1, <3>2 DEF ComparePair
  <2>2. CASE ~IsInt(x) /\ IsInt(y)
    <3>1. y.d = 1
      BY <2>2 DEF IsInt
    <3>2. p = x.n
      BY <1>1, <3>1
    <3> QED
      BY <2>2, <3>2 DEF ComparePair
  <2>3. CASE ~IsInt(x) /\ ~IsInt(y)
    <3>1. ComparePair(op, x, y) = compare_rationals(op, x, y)
      BY <2>3 DEF ComparePair, IsInt
    <3> HIDE DEF q
    <3>2. compare_rationals(op, x, y) <=> compare_numbers(op, p, q)
      BY <1>2 DEF compare_rationals
    <3> QED
      BY <3>1, <3>2
  <2> QED
    BY <2>1, <2>2, <2>3
<1> HIDE DEF p, q
<1>5. op \in {"=", "<", ">=", ">", "<="}
  BY DEF Comparisons
<1>6. compare_numbers(op, p, q) <=> Related(op, x, y)
  <2>1. CASE op = "="
    <3>1. compare_numbers(op, p, q) = (p = q)
      BY <2>1 DEF compare_numbers
    <3>2. Related(op, x, y) = (~Less(x, y) /\ ~Less(y, x))
      BY <2>1 DEF Related
    <3> QED
      BY <1>2, <1>3, <3>1, <3>2
  <2>2. CASE op = ">"
    BY <1>3, <2>2 DEF compare_numbers, Related
  <2>3. CASE op = "<"
    BY <1>3, <2>3 DEF compare_numbers, Related
  <2>4. CASE op = ">="
    <3>1. compare_numbers(op, p, q) = (p >= q)
      BY <2>4 DEF compare_numbers
    <3>2. Related(op, x, y) = ~Less(x, y)
      BY <2>4 DEF Related
    <3> QED
      BY <1>2, <1>3, <3>1, <3>2
  <2>5. CASE op = "<="
    <3>1. compare_numbers(op, p, q) = (p <= q)
      BY <2>5 DEF compare_numbers
    <3>2. Related(op, x, y) = ~Less(y, x)
      BY <2>5 DEF Related
    <3> QED
      BY <1>2, <1>3, <3>1, <3>2
  <2> QED
    BY <1>5, <2>1, <2>2, <2>3, <2>4, <2>5
<1> QED
  BY <1>4, <1>6

(* The comparisons answer what they are asked, for any numbers given in    *)
(* one call or several (builtins.c:407-451).                               *)
THEOREM ComparesExactly == BuiltinSpec => []ComparisonExact
<1>1. IInv /\ GivenOK => ComparisonExact
  <2> SUFFICES ASSUME IInv, GivenOK, IsCallOf(Comparisons), Len(called.given) > 1,
                      Positive(called.given), RationalsFirst(called.given)
               PROVE  Compared(called.func, called.args[1]) <=>
                          \A i \in 1 .. Len(called.given) - 1 :
                              Related(called.func, called.given[i], called.given[i + 1])
    BY DEF ComparisonExact
  <2> DEFINE s == called.given
             op == called.func
  <2>1. called # <<>> /\ op \in Comparisons /\ s \in Seq(Values)
    BY DEF IsCallOf, GivenOK
  <2>2. called.args[1] = s
    BY <2>1, ListIsRead
  <2> HIDE DEF s, op
  <2>3. \A i \in 1 .. Len(s) - 1 :
            ComparePair(op, s[i], s[i + 1]) <=> Related(op, s[i], s[i + 1])
    <3> SUFFICES ASSUME NEW i \in 1 .. Len(s) - 1
                 PROVE  ComparePair(op, s[i], s[i + 1]) <=> Related(op, s[i], s[i + 1])
      OBVIOUS
    <3>1. Len(s) \in Nat /\ i \in DOMAIN s /\ i + 1 \in DOMAIN s /\ i < i + 1
      BY <2>1
    <3>2. s[i] \in Values /\ s[i + 1] \in Values
      BY <2>1, <3>1
    <3>3. s[i].d > 0 /\ s[i + 1].d > 0 /\ (IsInt(s[i]) => IsInt(s[i + 1]))
      BY <3>1 DEF s, Positive, RationalsFirst
    <3> QED
      BY <2>1, <3>2, <3>3, PairRelated
  <2>4. Compared(op, s) <=> \A i \in 1 .. Len(s) - 1 : ComparePair(op, s[i], s[i + 1])
    BY <2>1 DEF Compared, s
  <2> QED
    BY <2>2, <2>3, <2>4 DEF s, op
<1>2. BuiltinInit => GivenOK
  BY DEF BuiltinInit, GivenOK
<1> QED
  BY <1>1, <1>2, BuiltinInvariance, GivenKept, PTL DEF BuiltinSpec
-----------------------------------------------------------------------------
(* Any natural numbers have a least one; so what holds before a loop and   *)
(* is kept by each of its turns holds after all of them.                   *)
LEMMA LeastNat ==
    ASSUME NEW T \in SUBSET Nat, T # {}
    PROVE  \E x \in T : \A y \in T : x <= y
<1> DEFINE R == OpToRel(<, Nat)
<1>1. PICK x \in T : \A y \in T : ~(<<y, x>> \in R)
  BY NatLessThanWellFounded, WFMin
<1>2. ASSUME NEW y \in T PROVE x <= y
  <2>1. x \in Nat /\ y \in Nat /\ (<<y, x>> \in R <=> y < x)
    BY DEF OpToRel
  <2>2. ~(<<y, x>> \in R)
    BY <1>1
  <2> HIDE DEF R
  <2> QED
    BY <2>1, <2>2
<1> QED
  BY <1>2

LEMMA EveryTurn ==
    ASSUME NEW n \in Nat, NEW S, 0 \in S, \A i \in 1 .. n : i - 1 \in S => i \in S
    PROVE  \A i \in 0 .. n : i \in S
<1> DEFINE T == (0 .. n) \ S
<1>1. T = {}
  <2> SUFFICES ASSUME T # {} PROVE FALSE
    OBVIOUS
  <2> HIDE DEF T
  <2>1. PICK m \in T : \A y \in T : m <= y
    <3>1. T \in SUBSET Nat
      BY DEF T
    <3> QED
      BY <3>1, LeastNat
  <2> USE DEF T
  <2>2. m \in 1 .. n /\ m - 1 \in 0 .. n
    OBVIOUS
  <2>3. m - 1 \in S
    BY <2>1, <2>2
  <2> QED
    BY <2>2, <2>3
<1> QED
  BY <1>1

\* f is what the turns of a loop leave, one after the other; v the same of the
\* steps of Combined.
Turns(f, op, s, args) ==
    /\ f[0] = s /\ \A i \in 1 .. Len(args) : f[i] = Turn(op, f[i - 1], args[i])
    /\ Loop(op, s, args) = f[Len(args)]

Steps(v, op, truncated, x, args) ==
    /\ v[0] = x /\ \A i \in 1 .. Len(args) : v[i] = Step(op, truncated, v[i - 1], args[i])
    /\ Combined(op, truncated, x, args) = v[Len(args)]

(* The recursive functions of Loop and Combined are what they say.         *)
LEMMA LoopTurns ==
    ASSUME NEW op, NEW s, NEW args, Len(args) \in Nat
    PROVE  \E f : Turns(f, op, s, args)
<1> DEFINE Is(f, n) == f = [i \in 0 .. n |-> IF i = 0 THEN s ELSE Turn(op, f[i - 1], args[i])]
           S == {n \in Nat : \E f : Is(f, n)}
<1>1. 0 \in S
  <2>1. Is([i \in 0 .. 0 |-> s], 0)
    OBVIOUS
  <2> QED
    BY <2>1
<1>2. ASSUME NEW n \in 1 .. Len(args), n - 1 \in S
      PROVE  n \in S
  <2>1. PICK f : Is(f, n - 1)
    BY <1>2
  <2> DEFINE g == [i \in 0 .. n |-> IF i = n THEN Turn(op, f[n - 1], args[n]) ELSE f[i]]
             h == [i \in 0 .. n |-> IF i = 0 THEN s ELSE Turn(op, g[i - 1], args[i])]
  <2>2. ASSUME NEW i \in 0 .. n
        PROVE  g[i] = h[i]
    <3>1. h[i] = IF i = 0 THEN s ELSE Turn(op, g[i - 1], args[i])
      OBVIOUS
    <3>2. i # 0 => g[i - 1] = f[i - 1]
      OBVIOUS
    <3>3. i # n => i \in 0 .. n - 1 /\ g[i] = f[i]
      OBVIOUS
    <3>4. i = n => i # 0 /\ g[i] = Turn(op, f[i - 1], args[i])
      OBVIOUS
    <3>5. i # n => f[i] = IF i = 0 THEN s ELSE Turn(op, f[i - 1], args[i])
      BY <2>1, <3>3
    <3> HIDE DEF g, h
    <3> QED
      BY <3>1, <3>2, <3>3, <3>4, <3>5
  <2>3. g = h
    BY <2>2
  <2>4. Is(g, n)
    BY <2>3
  <2> HIDE DEF Is, g
  <2> QED
    BY <2>4
<1>3. PICK f : Is(f, Len(args))
  <2> HIDE DEF S
  <2>1. \A i \in 0 .. Len(args) : i \in S
    BY <1>1, <1>2, EveryTurn
  <2>2. Len(args) \in S
    BY <2>1
  <2> QED
    BY <2>2 DEF S
<1> DEFINE after == CHOOSE g : Is(g, Len(args))
<1>4. Is(after, Len(args))
  BY <1>3
<1>5. Loop(op, s, args) = after[Len(args)]
  BY DEF Loop
<1> HIDE DEF after
<1>6. after[0] = s /\ \A i \in 1 .. Len(args) : after[i] = Turn(op, after[i - 1], args[i])
  BY <1>4
<1> QED
  BY <1>5, <1>6 DEF Turns

LEMMA CombinedValues ==
    ASSUME NEW op, NEW truncated, NEW x, NEW args, Len(args) \in Nat
    PROVE  \E v : Steps(v, op, truncated, x, args)
<1> DEFINE Is(f, n) == f = [i \in 0 .. n |-> IF i = 0 THEN x ELSE Step(op, truncated, f[i - 1], args[i])]
           S == {n \in Nat : \E f : Is(f, n)}
<1>1. 0 \in S
  <2>1. Is([i \in 0 .. 0 |-> x], 0)
    OBVIOUS
  <2> QED
    BY <2>1
<1>2. ASSUME NEW n \in 1 .. Len(args), n - 1 \in S
      PROVE  n \in S
  <2>1. PICK f : Is(f, n - 1)
    BY <1>2
  <2> DEFINE g == [i \in 0 .. n |-> IF i = n THEN Step(op, truncated, f[n - 1], args[n]) ELSE f[i]]
             h == [i \in 0 .. n |-> IF i = 0 THEN x ELSE Step(op, truncated, g[i - 1], args[i])]
  <2>2. ASSUME NEW i \in 0 .. n
        PROVE  g[i] = h[i]
    <3>1. h[i] = IF i = 0 THEN x ELSE Step(op, truncated, g[i - 1], args[i])
      OBVIOUS
    <3>2. i # 0 => g[i - 1] = f[i - 1]
      OBVIOUS
    <3>3. i # n => i \in 0 .. n - 1 /\ g[i] = f[i]
      OBVIOUS
    <3>4. i = n => i # 0 /\ g[i] = Step(op, truncated, f[i - 1], args[i])
      OBVIOUS
    <3>5. i # n => f[i] = IF i = 0 THEN x ELSE Step(op, truncated, f[i - 1], args[i])
      BY <2>1, <3>3
    <3> HIDE DEF g, h
    <3> QED
      BY <3>1, <3>2, <3>3, <3>4, <3>5
  <2>3. g = h
    BY <2>2
  <2>4. Is(g, n)
    BY <2>3
  <2> HIDE DEF Is, g
  <2> QED
    BY <2>4
<1>3. PICK f : Is(f, Len(args))
  <2> HIDE DEF S
  <2>1. \A i \in 0 .. Len(args) : i \in S
    BY <1>1, <1>2, EveryTurn
  <2>2. Len(args) \in S
    BY <2>1
  <2> QED
    BY <2>2 DEF S
<1> DEFINE value == CHOOSE g : Is(g, Len(args))
<1>4. Is(value, Len(args))
  BY <1>3
<1>5. Combined(op, truncated, x, args) = value[Len(args)]
  BY DEF Combined
<1> HIDE DEF value
<1>6. value[0] = x /\ \A i \in 1 .. Len(args) : value[i] = Step(op, truncated, value[i - 1], args[i])
  BY <1>4
<1> QED
  BY <1>5, <1>6 DEF Steps

(* A multiple of d other than 0 is at least as far from 0 as d.            *)
LEMMA MultipleIsFar ==
    ASSUME NEW k \in Int, NEW d \in Nat \ {0}, k * d < d, -d < k * d
    PROVE  k = 0
<1>1. ASSUME k >= 1 PROVE FALSE
  <2>1. (k - 1) * d >= 0 /\ (k - 1) * d = k * d - d
    BY <1>1
  <2> QED
    BY <2>1
<1>2. ASSUME k <= -1 PROVE FALSE
  <2>1. (-1 - k) * d >= 0 /\ (-1 - k) * d = -d - k * d
    BY <1>2
  <2> QED
    BY <2>1
<1> QED
  BY <1>1, <1>2

(* Division with a remainder, absolute values, and what it is to divide.   *)
LEMMA DivMod ==
    ASSUME NEW n \in Int, NEW d \in Nat \ {0}
    PROVE  /\ n \div d \in Int /\ n % d \in 0 .. d - 1
           /\ n = (n \div d) * d + (n % d)
<1>1. n \div d \in Int /\ n % d \in Int /\ n % d >= 0 /\ n % d < d
  OBVIOUS
<1>2. n = d * (n \div d) + (n % d)
  OBVIOUS
<1> DEFINE q == n \div d
<1>3. d * q = q * d
  BY <1>1
<1> QED
  BY <1>1, <1>2, <1>3

LEMMA AbsFacts ==
    ASSUME NEW n \in Int
    PROVE  /\ Abs(n) \in Nat /\ (n # 0 => Abs(n) # 0)
           /\ n = IF n < 0 THEN -Abs(n) ELSE Abs(n)
  BY DEF Abs

LEMMA Divides ==
    ASSUME NEW n \in Int, NEW d \in Int \ {0}
    PROVE  DivisibleBy(n, d) <=> \E k \in Int : n = k * d
<1> DEFINE a == Abs(d)
<1>1. a \in Nat \ {0} /\ d = (IF d < 0 THEN -a ELSE a)
  BY AbsFacts
<1> HIDE DEF a
<1>2. /\ n \div a \in Int /\ n % a \in 0 .. a - 1
      /\ n = (n \div a) * a + (n % a)
  BY <1>1, DivMod
<1> DEFINE q == n \div a
           r == n % a
<1>3. q \in Int /\ r \in 0 .. a - 1 /\ n = q * a + r
  BY <1>2
<1>4. DivisibleBy(n, d) <=> r = 0
  BY DEF DivisibleBy, a
<1> HIDE DEF q, r
<1>5. ASSUME r = 0 PROVE \E k \in Int : n = k * d
  <2>1. n = q * a
    <3>1. q * a \in Int
      BY <1>1, <1>3
    <3> QED
      BY <1>3, <1>5, <3>1
  <2>2. CASE d < 0
    <3>1. -q \in Int /\ (-q) * d = q * a
      BY <1>1, <1>3, <2>2
    <3> QED
      BY <2>1, <3>1
  <2>3. CASE ~(d < 0)
    BY <1>1, <1>3, <2>1, <2>3
  <2> QED
    BY <2>2, <2>3
<1>6. ASSUME NEW k \in Int, n = k * d PROVE r = 0
  <2> DEFINE j == IF d < 0 THEN -k ELSE k
  <2>1. j \in Int /\ n = j * a
    BY <1>1, <1>6
  <2> HIDE DEF j
  <2>2. (j - q) * a = r
    <3>1. (j - q) * a = j * a - q * a
      BY <1>1, <1>3, <2>1
    <3> HIDE DEF q
    <3> QED
      BY <1>1, <1>3, <2>1, <3>1
  <2>3. (j - q) * a < a /\ -a < (j - q) * a
    BY <1>1, <1>3, <2>2
  <2>4. j - q = 0
    <3>1. j - q \in Int
      BY <1>3, <2>1
    <3> QED
      BY <1>1, <2>3, <3>1, MultipleIsFar
  <2> QED
    BY <1>1, <2>2, <2>4
<1> QED
  BY <1>4, <1>5, <1>6

(* C's quotient is exact if the divisor divides.                           *)
LEMMA QuotientFacts ==
    ASSUME NEW n \in Int, NEW d \in Int \ {0}
    PROVE  /\ Quotient(n, d) \in Int
           /\ DivisibleBy(n, d) => Quotient(n, d) * d = n
<1> DEFINE a == Abs(n)
           b == Abs(d)
           q == a \div b
<1>1. /\ a \in Nat /\ n = (IF n < 0 THEN -a ELSE a)
      /\ b \in Nat \ {0} /\ d = (IF d < 0 THEN -b ELSE b)
  BY AbsFacts
<1>2. Quotient(n, d) = IF (n < 0) = (d < 0) THEN q ELSE -q
  BY DEF Quotient
<1> HIDE DEF a, b
<1>3. q \in Int /\ a % b \in 0 .. b - 1 /\ a = q * b + (a % b)
  BY <1>1, DivMod
<1>4. ASSUME DivisibleBy(n, d) PROVE a = q * b
  <2>1. PICK k \in Int : n = k * d
    BY <1>4, Divides
  <2>2. \E j \in Int : a = j * b
    <3> DEFINE j == IF (n < 0) = (d < 0) THEN k ELSE -k
    <3>1. j \in Int /\ a = j * b
      BY <1>1, <2>1
    <3> QED
      BY <3>1
  <2>3. DivisibleBy(a, b)
    BY <1>1, <2>2, Divides
  <2>4. a % b = 0
    BY <1>1, <2>3 DEF DivisibleBy, Abs
  <2> QED
    BY <1>1, <1>3, <2>4
<1> HIDE DEF q
<1>5. ASSUME a = q * b PROVE Quotient(n, d) * d = n
  BY <1>1, <1>2, <1>3, <1>5
<1> QED
  BY <1>2, <1>3, <1>4, <1>5

(* What cannot be made larger is the greatest: the CHOOSE of CommonDivisor *)
(* has something to choose.                                                *)
LEMMA CommonDivisorFacts ==
    ASSUME NEW n \in Int, NEW d \in Nat \ {0}
    PROVE  LET c == CommonDivisor(n, d)
           IN  /\ c \in 1 .. d /\ DivisibleBy(n, c) /\ DivisibleBy(d, c)
               /\ \A e \in c + 1 .. d : ~(DivisibleBy(n, e) /\ DivisibleBy(d, e))
<1> DEFINE Both(c) == DivisibleBy(n, c) /\ DivisibleBy(d, c)
           T == {m \in 0 .. d - 1 : Both(d - m)}
<1>1. d - 1 \in T
  <2>1. n = n * 1 /\ d = d * 1 /\ 1 \in Int \ {0}
    OBVIOUS
  <2>2. Both(1)
    BY <2>1, Divides
  <2>3. d - (d - 1) = 1 /\ d - 1 \in 0 .. d - 1
    OBVIOUS
  <2> QED
    BY <2>2, <2>3
<1>2. PICK m \in T : \A y \in T : m <= y
  <2> HIDE DEF T
  <2>1. T \in SUBSET Nat
    BY DEF T
  <2> QED
    BY <1>1, <2>1, LeastNat
<1> DEFINE c == d - m
<1>3. c \in 1 .. d /\ Both(c)
  BY <1>2
<1>4. ASSUME NEW e \in c + 1 .. d PROVE ~Both(e)
  <2>1. d - e \in 0 .. d - 1 /\ d - e < m /\ d - (d - e) = e
    BY <1>2
  <2>2. d - e \notin T
    <3> HIDE DEF T
    <3>1. m \in Int /\ (d - e \in T => m <= d - e)
      BY <1>2 DEF T
    <3> QED
      BY <2>1, <3>1
  <2> QED
    BY <2>1, <2>2
<1> HIDE DEF c, T
<1>5. \E b \in 1 .. d : /\ DivisibleBy(n, b) /\ DivisibleBy(d, b)
                        /\ \A e \in b + 1 .. d : ~(DivisibleBy(n, e) /\ DivisibleBy(d, e))
  BY <1>3, <1>4
<1> QED
  BY <1>5 DEF CommonDivisor

\* Fractions.
Numbers == [n : Int, d : Int \ {0}]

LEMMA NumFacts ==
    ASSUME NEW n, NEW d
    PROVE  /\ Num(n, d).n = n /\ Num(n, d).d = d
           /\ n \in Int /\ d \in Int \ {0} => Num(n, d) \in Numbers
  BY DEF Num, Numbers

(* Equal fractions, a number added to, subtracted from or multiplied to    *)
(* both.                                                                   *)
LEMMA CrossSum ==
    ASSUME NEW q \in Numbers, NEW e \in Numbers, NEW x \in Numbers, q.n * e.d = e.n * q.d
    PROVE  /\ (q.n * x.d + x.n * q.d) * (e.d * x.d) = (e.n * x.d + x.n * e.d) * (q.d * x.d)
           /\ (q.n * x.d - x.n * q.d) * (e.d * x.d) = (e.n * x.d - x.n * e.d) * (q.d * x.d)
           /\ x.d = q.d => (q.n + x.n) * (e.d * x.d) = (e.n * x.d + x.n * e.d) * q.d
           /\ x.d = q.d => (q.n - x.n) * (e.d * x.d) = (e.n * x.d - x.n * e.d) * q.d
           /\ q.n = 0 => x.n * (e.d * x.d) = (e.n * x.d + x.n * e.d) * x.d
           /\ (q.n * x.n) * (e.d * x.d) = (e.n * x.n) * (q.d * x.d)
           /\ (q.n * x.d) * (e.d * x.n) = (e.n * x.d) * (q.d * x.n)
<1> DEFINE aa == q.n
           bb == q.d
           cc == e.n
           ee == e.d
           xx == x.n
           yy == x.d
<1>1. /\ aa \in Int /\ bb \in Int \ {0} /\ cc \in Int /\ ee \in Int /\ xx \in Int /\ yy \in Int
      /\ aa * ee = cc * bb
  BY DEF Numbers
<1> SUFFICES /\ (aa * yy + xx * bb) * (ee * yy) = (cc * yy + xx * ee) * (bb * yy)
             /\ (aa * yy - xx * bb) * (ee * yy) = (cc * yy - xx * ee) * (bb * yy)
             /\ yy = bb => (aa + xx) * (ee * yy) = (cc * yy + xx * ee) * bb
             /\ yy = bb => (aa - xx) * (ee * yy) = (cc * yy - xx * ee) * bb
             /\ aa = 0 => xx * (ee * yy) = (cc * yy + xx * ee) * yy
             /\ (aa * xx) * (ee * yy) = (cc * xx) * (bb * yy)
             /\ (aa * yy) * (ee * xx) = (cc * yy) * (bb * xx)
  OBVIOUS
<1> HIDE DEF aa, bb, cc, ee, xx, yy
<1>2. (aa * ee) * (yy * yy) = (cc * bb) * (yy * yy)
  BY <1>1
<1>3. (aa * ee) * (xx * yy) = (cc * bb) * (xx * yy)
  BY <1>1
<1>4. (aa * yy + xx * bb) * (ee * yy) = (cc * yy + xx * ee) * (bb * yy)
  BY <1>1, <1>2
<1>5. (aa * yy - xx * bb) * (ee * yy) = (cc * yy - xx * ee) * (bb * yy)
  BY <1>1, <1>2
<1>6. ASSUME yy = bb
      PROVE  /\ (aa + xx) * (ee * yy) = (cc * yy + xx * ee) * bb
             /\ (aa - xx) * (ee * yy) = (cc * yy - xx * ee) * bb
  <2>1. (aa * ee) * bb = (cc * bb) * bb
    BY <1>1
  <2>2. (aa + xx) * (ee * bb) = (cc * bb + xx * ee) * bb
    BY <1>1, <2>1
  <2>3. (aa - xx) * (ee * bb) = (cc * bb - xx * ee) * bb
    BY <1>1, <2>1
  <2> QED
    BY <1>6, <2>2, <2>3
<1>7. ASSUME aa = 0 PROVE xx * (ee * yy) = (cc * yy + xx * ee) * yy
  <2>1. cc * bb = 0
    BY <1>1, <1>7
  <2>2. cc = 0
    BY <1>1, <2>1
  <2> QED
    BY <1>1, <2>2
<1>8. (aa * xx) * (ee * yy) = (cc * xx) * (bb * yy)
  BY <1>1, <1>3
<1>9. (aa * yy) * (ee * xx) = (cc * yy) * (bb * xx)
  BY <1>1, <1>3
<1> QED
  BY <1>4, <1>5, <1>6, <1>7, <1>8, <1>9

LEMMA NotZero ==
    ASSUME NEW a \in Int \ {0}, NEW b \in Int \ {0}
    PROVE  /\ a * b \in Int \ {0}
           /\ a > 0 /\ b > 0 => a * b > 0
<1>1. a * b # 0
  OBVIOUS
<1>2. a > 0 /\ b > 0 => a * b > 0
  OBVIOUS
<1> QED
  BY <1>1, <1>2

(* A rational is made of a fraction by reducing it, which keeps the number *)
(* and leaves no common divisor if the denominator is positive (sv.c:67).  *)
LEMMA NewRational ==
    ASSUME NEW n \in Int, NEW d \in Int \ {0}
    PROVE  /\ Sv_new_rational(n, d).t = "value"
           /\ Sv_new_rational(n, d).x \in Numbers
           /\ SameNumber(Sv_new_rational(n, d).x, Num(n, d))
           /\ d > 0 => LowestTerms(Sv_new_rational(n, d).x)
<1> DEFINE v == Sv_new_rational(n, d)
<1>1. CASE DivisibleBy(n, d)
  <2>1. v = Value(Num(Quotient(n, d), 1))
    BY <1>1 DEF Sv_new_rational
  <2>2. v.t = "value" /\ v.x = Num(Quotient(n, d), 1)
    BY <2>1 DEF Value
  <2>3. Quotient(n, d) \in Int /\ Quotient(n, d) * d = n * 1
    BY <1>1, QuotientFacts
  <2>4. SameNumber(v.x, Num(n, d)) /\ v.x \in Numbers
    BY <2>2, <2>3, NumFacts DEF SameNumber
  <2>5. LowestTerms(v.x)
    BY <2>2, NumFacts DEF LowestTerms
  <2> QED
    BY <2>2, <2>4, <2>5
<1>2. CASE ~DivisibleBy(n, d) /\ d < 0
  <2>1. v = Value(Num(n, d))
    BY <1>2 DEF Sv_new_rational
  <2>2. v.t = "value" /\ v.x = Num(n, d)
    BY <2>1 DEF Value
  <2>4. SameNumber(v.x, Num(n, d)) /\ v.x \in Numbers
    BY <2>2, NumFacts DEF SameNumber
  <2> QED
    BY <1>2, <2>2, <2>4
<1>3. CASE ~DivisibleBy(n, d) /\ d > 0
  <2> DEFINE c == CommonDivisor(n, d)
             p == Quotient(n, c)
             q == d \div c
  <2>1. /\ c \in 1 .. d /\ DivisibleBy(n, c) /\ DivisibleBy(d, c)
        /\ \A e \in c + 1 .. d : ~(DivisibleBy(n, e) /\ DivisibleBy(d, e))
    BY <1>3, CommonDivisorFacts
  <2>2. v = Value(Num(p, q))
    BY <1>3 DEF Sv_new_rational
  <2>3. v.t = "value" /\ v.x = Num(p, q)
    BY <2>2 DEF Value
  <2> HIDE DEF c
  <2>4. p \in Int /\ p * c = n
    BY <2>1, QuotientFacts
  <2> HIDE DEF p
  <2>5. q \in Int /\ q * c = d
    <3>1. q \in Int /\ d = q * c + (d % c)
      BY <1>3, <2>1, DivMod
    <3>2. d % c = 0
      BY <1>3, <2>1 DEF DivisibleBy, Abs
    <3> HIDE DEF q
    <3> QED
      BY <2>1, <3>1, <3>2
  <2> HIDE DEF q
  <2>6. q > 0 /\ c > 0
    BY <1>3, <2>1, <2>5
  <2>7. p * d = n * q
    BY <2>1, <2>4, <2>5
  <2>8. SameNumber(v.x, Num(n, d)) /\ v.x \in Numbers
    BY <2>3, <2>4, <2>5, <2>6, <2>7, NumFacts DEF SameNumber
  <2>9. ASSUME NEW e \in 2 .. q, DivisibleBy(p, e), DivisibleBy(q, e)
        PROVE  FALSE
    <3>1. PICK k \in Int : p = k * e
      BY <2>4, <2>9, Divides
    <3>2. PICK m \in Int : q = m * e
      BY <2>5, <2>9, Divides
    <3> DEFINE f == e * c
    <3>3. f \in Int /\ f > c
      <4>1. (e - 1) * c > 0 /\ (e - 1) * c = e * c - c
        BY <2>1, <2>6
      <4> QED
        BY <2>1, <4>1
    <3>4. n = k * f /\ d = m * f
      BY <2>1, <2>4, <2>5, <3>1, <3>2
    <3>5. m >= 1
      BY <2>6, <3>2
    <3>6. f <= d
      <4>1. (m - 1) * f >= 0 /\ (m - 1) * f = m * f - f
        <5> HIDE DEF f
        <5> QED
          BY <2>6, <2>1, <3>3, <3>5
      <4> HIDE DEF f
      <4> QED
        BY <3>3, <3>4, <4>1
    <3> HIDE DEF f
    <3>7. DivisibleBy(n, f) /\ DivisibleBy(d, f)
      <4>1. f \in Int \ {0}
        BY <2>1, <3>3
      <4> QED
        BY <3>4, <4>1, Divides
    <3> QED
      BY <2>1, <3>3, <3>6, <3>7
  <2>10. LowestTerms(v.x)
    BY <2>3, <2>6, <2>9, NumFacts DEF LowestTerms
  <2> QED
    BY <2>3, <2>8, <2>10
<1> QED
  BY <1>1, <1>2, <1>3

Accs == [acc : Int, racc : [n : Int, d : Int], acc_type : {"int", "rational"},
         cur_type : {"int", "rational"}, error : BOOLEAN]

\* The rational accumulator a turn starts from.
Started(s, x) ==
    IF ~IsInt(x) /\ s.cur_type # "rational" THEN Num(s.acc, s.acc) ELSE s.racc

(* What SET_ACC leaves.                                                    *)
LEMMA SetAccFacts ==
    ASSUME NEW s \in Accs, NEW x \in Numbers
    PROVE  /\ SetAcc(s, x) \in Accs
           /\ SetAcc(s, x).acc = s.acc
           /\ SetAcc(s, x).racc = Started(s, x)
           /\ SetAcc(s, x).acc_type = IF IsInt(x) THEN s.acc_type ELSE "rational"
           /\ SetAcc(s, x).cur_type = IF IsInt(x) THEN "int" ELSE "rational"
           /\ SetAcc(s, x).error = s.error
<1>1. Num(s.acc, s.acc) \in [n : Int, d : Int]
  BY DEF Accs, Num
<1>2. CASE IsInt(x)
  BY <1>2 DEF SetAcc, Started, Accs
<1>3. CASE ~IsInt(x)
  BY <1>1, <1>3 DEF SetAcc, Started, Accs
<1> QED
  BY <1>2, <1>3

\* What a turn makes of the rational accumulator q, and of the integer a.
RaccOf(op, s, q, x) ==
    CASE op = "+" -> Plus(q, x)
      [] op = "-" -> Minus(q, x)
      [] op = "*" -> Times(s.acc, q, x)
      [] op = "/" -> Num(q.n * x.d, q.d * x.n)

AccOf(op, a, x) ==
    CASE op = "+" -> a + x.n
      [] op = "-" -> a - x.n
      [] op = "*" -> a * x.n
      [] op = "/" -> Quotient(a, x.n)

(* The accumulators stay integers and pairs of integers.                   *)
LEMMA OperandTypes ==
    ASSUME NEW op \in Arithmetic, NEW s \in Accs, NEW q \in [n : Int, d : Int],
           NEW x \in Numbers, op = "/" => x.n # 0
    PROVE  RaccOf(op, s, q, x) \in [n : Int, d : Int] /\ AccOf(op, s.acc, x) \in Int
<1>1. /\ q.n \in Int /\ q.d \in Int /\ x.n \in Int /\ x.d \in Int /\ s.acc \in Int
      /\ x \in [n : Int, d : Int]
  BY DEF Accs, Numbers
<1>2. \A a, b \in Int : Num(a, b) \in [n : Int, d : Int]
  BY DEF Num
<1>7. /\ q.n * x.d \in Int /\ x.n * q.d \in Int /\ q.d * x.d \in Int /\ q.n * x.n \in Int
      /\ s.acc * x.n \in Int /\ q.d * x.n \in Int
  BY <1>1
<1>8. /\ q.n + x.n \in Int /\ q.n - x.n \in Int
      /\ q.n * x.d + x.n * q.d \in Int /\ q.n * x.d - x.n * q.d \in Int
  BY <1>1, <1>7
<1>3. CASE op = "+"
  <2>1. Plus(q, x) \in [n : Int, d : Int]
    BY <1>1, <1>2, <1>7, <1>8 DEF Plus
  <2> QED
    BY <1>1, <1>3, <2>1 DEF RaccOf, AccOf
<1>4. CASE op = "-"
  <2>1. Minus(q, x) \in [n : Int, d : Int]
    BY <1>1, <1>2, <1>7, <1>8 DEF Minus
  <2> QED
    BY <1>1, <1>4, <2>1 DEF RaccOf, AccOf
<1>5. CASE op = "*"
  <2>1. CASE s.acc = 1
    <3>1. Times(s.acc, q, x) = Num(q.n * x.n, q.d * x.d)
      BY <2>1 DEF Times
    <3> QED
      BY <1>1, <1>2, <1>5, <1>7, <3>1 DEF RaccOf, AccOf
  <2>2. CASE s.acc # 1
    <3>1. Times(s.acc, q, x) = Num(s.acc * x.n, 1 * x.d)
      BY <2>2, NumFacts DEF Times
    <3>2. 1 * x.d \in Int
      BY <1>1
    <3> QED
      BY <1>1, <1>2, <1>5, <1>7, <3>1, <3>2 DEF RaccOf, AccOf
  <2> QED
    BY <2>1, <2>2
<1>6. CASE op = "/"
  <2>1. Quotient(s.acc, x.n) \in Int
    BY <1>1, <1>6, QuotientFacts
  <2> QED
    BY <1>1, <1>2, <1>6, <1>7, <2>1 DEF RaccOf, AccOf
<1> QED
  BY <1>3, <1>4, <1>5, <1>6 DEF Arithmetic

(* One turn touches the accumulator of the type of the result so far.      *)
LEMMA TurnFacts ==
    ASSUME NEW op \in Arithmetic, NEW s \in Accs, NEW x \in Numbers,
           op = "/" => ~s.error /\ x.n # 0
    PROVE  LET t == Turn(op, s, x)
           IN  /\ t \in Accs
               /\ t.cur_type = IF IsInt(x) THEN "int" ELSE "rational"
               /\ t.error = s.error
               /\ t.acc_type = IF IsInt(x) THEN s.acc_type ELSE "rational"
               /\ t.acc_type = "rational" =>
                     t.acc = s.acc /\ t.racc = RaccOf(op, s, Started(s, x), x)
               /\ t.acc_type # "rational" =>
                     t.racc = s.racc /\ t.acc = AccOf(op, s.acc, x)
<1> DEFINE u == SetAcc(s, x)
           t == Turn(op, s, x)
           q == RaccOf(op, u, u.racc, x)
           a == AccOf(op, u.acc, x)
<1>1. /\ u \in Accs /\ u.acc = s.acc /\ u.racc = Started(s, x)
      /\ u.acc_type = IF IsInt(x) THEN s.acc_type ELSE "rational"
      /\ u.cur_type = IF IsInt(x) THEN "int" ELSE "rational"
      /\ u.error = s.error
  BY SetAccFacts
<1>2. t = IF u.acc_type = "rational" THEN [u EXCEPT !.racc = q] ELSE [u EXCEPT !.acc = a]
  BY <1>1 DEF Turn, RaccOf, AccOf
<1>3. q = RaccOf(op, s, Started(s, x), x) /\ a = AccOf(op, s.acc, x)
  BY <1>1 DEF RaccOf
<1>4. q \in [n : Int, d : Int] /\ a \in Int
  <2>1. u.racc \in [n : Int, d : Int]
    BY <1>1 DEF Accs
  <2> QED
    BY <1>1, <2>1, OperandTypes
<1> HIDE DEF u, q, a
<1>0. t \in Accs
  BY <1>1, <1>2, <1>4 DEF Accs
<1> HIDE DEF t
<1>5. CASE u.acc_type = "rational"
  <2>1. /\ t.racc = q /\ t.acc = u.acc /\ t.acc_type = u.acc_type
        /\ t.cur_type = u.cur_type /\ t.error = u.error
    BY <1>1, <1>2, <1>5 DEF Accs
  <2> QED
    BY <1>0, <1>1, <1>3, <1>5, <2>1 DEF t
<1>6. CASE u.acc_type # "rational"
  <2>1. /\ t.acc = a /\ t.racc = u.racc /\ t.acc_type = u.acc_type
        /\ t.cur_type = u.cur_type /\ t.error = u.error
    BY <1>1, <1>2, <1>6 DEF Accs
  <2>2. IsInt(x)
    BY <1>1, <1>6
  <2>3. u.racc = s.racc
    BY <1>1, <2>2 DEF Started
  <2> QED
    BY <1>0, <1>1, <1>3, <1>6, <2>1, <2>3 DEF t
<1> QED
  BY <1>5, <1>6

(* A division by zero is never forgotten.                                  *)
LEMMA ErrorStays ==
    ASSUME NEW s \in Accs, NEW x \in Numbers, s.error \/ x.n = 0
    PROVE  Turn("/", s, x) \in Accs /\ Turn("/", s, x).error
<1> DEFINE u == SetAcc(s, x)
<1>1. u \in Accs /\ u.error = s.error
  BY SetAccFacts
<1>2. Turn("/", s, x) = [u EXCEPT !.error = TRUE]
  BY <1>1 DEF Turn
<1> QED
  BY <1>1, <1>2 DEF Accs

\* The accumulator of integers holds the value e; that of rationals, once there
\* has been one, a fraction equal to e.
IntState(s, e) ==
    s \in Accs /\ s.acc_type = "int" /\ ~s.error /\ e = Num(s.acc, 1)

RatState(op, s, e) ==
    /\ s \in Accs /\ s.acc_type = "rational" /\ ~s.error
    /\ s.racc \in Numbers /\ e \in Numbers /\ s.racc.n * e.d = e.n * s.racc.d
    /\ op = "*" => s.acc = 1

(* One more argument after a rational one.                                 *)
LEMMA RationalTurn ==
    ASSUME NEW op \in Arithmetic, NEW s, NEW e, NEW x \in Numbers, RatState(op, s, e),
           ~IsInt(x) => s.cur_type = "rational", op = "/" => x.n # 0
    PROVE  LET t == Turn(op, s, x)
           IN  /\ RatState(op, t, Fraction(op, e, x))
               /\ ~IsInt(x) => t.cur_type = "rational"
               /\ s.racc.d > 0 /\ x.d > 0 /\ (op = "/" => x.n > 0) => t.racc.d > 0
<1> DEFINE t == Turn(op, s, x)
           q == s.racc
           r == RaccOf(op, s, q, x)
           f == Fraction(op, e, x)
           Good(k) == s.racc.d > 0 /\ x.d > 0 /\ (op = "/" => x.n > 0) => k.d > 0
<1>1. /\ s \in Accs /\ s.acc_type = "rational" /\ ~s.error
      /\ q.n \in Int /\ q.d \in Int \ {0} /\ e.n \in Int /\ e.d \in Int \ {0}
      /\ q \in Numbers /\ e \in Numbers /\ q.n * e.d = e.n * q.d /\ x.n \in Int /\ x.d \in Int \ {0}
  BY DEF RatState, Numbers
<1>2. /\ t \in Accs /\ ~t.error /\ t.acc_type = "rational" /\ t.acc = s.acc
      /\ t.cur_type = IF IsInt(x) THEN "int" ELSE "rational"
      /\ t.racc = r
  <2>1. Started(s, x) = q
    BY DEF Started
  <2> HIDE DEF t
  <2>2. /\ t \in Accs /\ t.error = s.error
        /\ t.acc_type = IF IsInt(x) THEN s.acc_type ELSE "rational"
        /\ t.cur_type = IF IsInt(x) THEN "int" ELSE "rational"
        /\ t.acc_type = "rational" => t.acc = s.acc /\ t.racc = RaccOf(op, s, Started(s, x), x)
    BY <1>1, TurnFacts DEF t
  <2> QED
    BY <1>1, <2>1, <2>2
<1>3. r \in Numbers /\ f \in Numbers /\ r.n * f.d = f.n * r.d /\ Good(r)
  <2>0. /\ q.d * x.d \in Int \ {0} /\ e.d * x.d \in Int \ {0}
        /\ q.d > 0 /\ x.d > 0 => q.d * x.d > 0
    BY <1>1, NotZero
  <2>1. CASE op = "+"
    <3> DEFINE g == Plus(q, x)
    <3>1. r = g /\ f = Num(e.n * x.d + x.n * e.d, e.d * x.d)
      BY <2>1 DEF RaccOf, Fraction
    <3>2. e.n * x.d + x.n * e.d \in Int /\ q.n * x.d + x.n * q.d \in Int /\ q.n + x.n \in Int
      BY <1>1
    <3>3. /\ f \in Numbers /\ f.n = e.n * x.d + x.n * e.d /\ f.d = e.d * x.d
      BY <2>0, <3>1, <3>2, NumFacts
    <3>4. CASE q.n = 0
      <4>1. g = x
        BY <3>4 DEF Plus
      <4>2. x.n * (e.d * x.d) = (e.n * x.d + x.n * e.d) * x.d
        BY <1>1, <3>4, CrossSum
      <4> QED
        BY <3>1, <3>3, <4>1, <4>2
    <3>5. CASE q.n # 0 /\ x.d = q.d
      <4>1. g = Num(q.n + x.n, q.d)
        BY <3>5 DEF Plus
      <4>2. (q.n + x.n) * (e.d * x.d) = (e.n * x.d + x.n * e.d) * q.d
        BY <1>1, <3>5, CrossSum
      <4>3. g \in Numbers /\ g.n = q.n + x.n /\ g.d = q.d
        BY <1>1, <3>2, <4>1, NumFacts
      <4> QED
        BY <3>1, <3>3, <4>2, <4>3
    <3>6. CASE q.n # 0 /\ x.d # q.d
      <4>1. g = Num(q.n * x.d + x.n * q.d, q.d * x.d)
        BY <3>6 DEF Plus
      <4>2. (q.n * x.d + x.n * q.d) * (e.d * x.d) = (e.n * x.d + x.n * e.d) * (q.d * x.d)
        BY <1>1, CrossSum
      <4>3. g \in Numbers /\ g.n = q.n * x.d + x.n * q.d /\ g.d = q.d * x.d
        BY <2>0, <3>2, <4>1, NumFacts
      <4> QED
        BY <2>0, <3>1, <3>3, <4>2, <4>3
    <3> QED
      BY <3>4, <3>5, <3>6
  <2>2. CASE op = "-"
    <3> DEFINE g == Minus(q, x)
    <3>1. r = g /\ f = Num(e.n * x.d - x.n * e.d, e.d * x.d)
      BY <2>2 DEF RaccOf, Fraction
    <3>2. e.n * x.d - x.n * e.d \in Int /\ q.n * x.d - x.n * q.d \in Int /\ q.n - x.n \in Int
      BY <1>1
    <3>3. /\ f \in Numbers /\ f.n = e.n * x.d - x.n * e.d /\ f.d = e.d * x.d
      BY <2>0, <3>1, <3>2, NumFacts
    <3>5. CASE x.d = q.d
      <4>1. g = Num(q.n - x.n, q.d)
        BY <3>5 DEF Minus
      <4>2. (q.n - x.n) * (e.d * x.d) = (e.n * x.d - x.n * e.d) * q.d
        BY <1>1, <3>5, CrossSum
      <4>3. g \in Numbers /\ g.n = q.n - x.n /\ g.d = q.d
        BY <1>1, <3>2, <4>1, NumFacts
      <4> QED
        BY <3>1, <3>3, <4>2, <4>3
    <3>6. CASE x.d # q.d
      <4>1. g = Num(q.n * x.d - x.n * q.d, q.d * x.d)
        BY <3>6 DEF Minus
      <4>2. (q.n * x.d - x.n * q.d) * (e.d * x.d) = (e.n * x.d - x.n * e.d) * (q.d * x.d)
        BY <1>1, CrossSum
      <4>3. g \in Numbers /\ g.n = q.n * x.d - x.n * q.d /\ g.d = q.d * x.d
        BY <2>0, <3>2, <4>1, NumFacts
      <4> QED
        BY <2>0, <3>1, <3>3, <4>2, <4>3
    <3> QED
      BY <3>5, <3>6
  <2>3. CASE op = "*"
    <3>1. s.acc = 1
      BY <2>3 DEF RatState
    <3>2. r = Num(q.n * x.n, q.d * x.d) /\ f = Num(e.n * x.n, e.d * x.d)
      BY <2>3, <3>1 DEF RaccOf, Times, Fraction
    <3>3. q.n * x.n \in Int /\ e.n * x.n \in Int
      BY <1>1
    <3>4. /\ r \in Numbers /\ f \in Numbers
          /\ r.n = q.n * x.n /\ r.d = q.d * x.d /\ f.n = e.n * x.n /\ f.d = e.d * x.d
      BY <2>0, <3>2, <3>3, NumFacts
    <3>5. (q.n * x.n) * (e.d * x.d) = (e.n * x.n) * (q.d * x.d)
      BY <1>1, CrossSum
    <3> QED
      BY <2>0, <3>4, <3>5
  <2>4. CASE op = "/"
    <3>1. x.n # 0
      BY <2>4
    <3>2. r = Num(q.n * x.d, q.d * x.n) /\ f = Num(e.n * x.d, e.d * x.n)
      BY <2>4 DEF RaccOf, Fraction
    <3>3. q.n * x.d \in Int /\ e.n * x.d \in Int
      BY <1>1
    <3>0. /\ q.d * x.n \in Int \ {0} /\ e.d * x.n \in Int \ {0}
          /\ q.d > 0 /\ x.n > 0 => q.d * x.n > 0
      BY <1>1, <3>1, NotZero
    <3>4. /\ r \in Numbers /\ f \in Numbers
          /\ r.n = q.n * x.d /\ r.d = q.d * x.n /\ f.n = e.n * x.d /\ f.d = e.d * x.n
      BY <3>0, <3>2, <3>3, NumFacts
    <3>5. (q.n * x.d) * (e.d * x.n) = (e.n * x.d) * (q.d * x.n)
      BY <1>1, CrossSum
    <3> QED
      BY <2>4, <3>0, <3>4, <3>5
  <2> QED
    BY <2>1, <2>2, <2>3, <2>4 DEF Arithmetic
<1> HIDE DEF t, r, f
<1>4. RatState(op, t, f)
  BY <1>2, <1>3 DEF RatState
<1> QED
  BY <1>2, <1>3, <1>4 DEF t, f

(* One more integer after integers only.                                   *)
LEMMA IntegerTurn ==
    ASSUME NEW op \in Arithmetic, NEW s, NEW e, NEW x \in Numbers, IntState(s, e),
           IsInt(x), op = "/" => x.n # 0
    PROVE  IntState(Turn(op, s, x),
                    IF op = "/" THEN Num(Quotient(e.n, x.n), 1) ELSE Fraction(op, e, x))
<1> DEFINE t == Turn(op, s, x)
           a == AccOf(op, s.acc, x)
<1>1. /\ s \in Accs /\ s.acc_type = "int" /\ ~s.error /\ s.acc \in Int
      /\ e = Num(s.acc, 1) /\ e.n = s.acc /\ e.d = 1 /\ x.d = 1 /\ x.n \in Int
  <2>1. x.n \in Int
    BY DEF Numbers
  <2> QED
    BY <2>1, NumFacts DEF IntState, Accs, IsInt
<1>2. /\ t \in Accs /\ t.error = s.error /\ t.acc_type = s.acc_type /\ t.acc = a
  <2> HIDE DEF t
  <2>1. /\ t \in Accs /\ t.error = s.error
        /\ t.acc_type = IF IsInt(x) THEN s.acc_type ELSE "rational"
        /\ t.acc_type # "rational" => t.acc = AccOf(op, s.acc, x)
    BY <1>1, TurnFacts DEF t
  <2> QED
    BY <1>1, <2>1
<1>3. (IF op = "/" THEN Num(Quotient(e.n, x.n), 1) ELSE Fraction(op, e, x)) = Num(a, 1)
  <2>1. CASE op = "+"
    <3>1. e.n * x.d + x.n * e.d = e.n + x.n /\ e.d * x.d = 1
      BY <1>1
    <3> QED
      BY <1>1, <2>1, <3>1 DEF AccOf, Fraction
  <2>2. CASE op = "-"
    <3>1. e.n * x.d - x.n * e.d = e.n - x.n /\ e.d * x.d = 1
      BY <1>1
    <3> QED
      BY <1>1, <2>2, <3>1 DEF AccOf, Fraction
  <2>3. CASE op = "*"
    <3>1. e.d * x.d = 1
      BY <1>1
    <3> QED
      BY <1>1, <2>3, <3>1 DEF AccOf, Fraction
  <2>4. CASE op = "/"
    BY <1>1, <2>4 DEF AccOf
  <2> QED
    BY <2>1, <2>2, <2>3, <2>4 DEF Arithmetic
<1> HIDE DEF t, a
<1> QED
  BY <1>1, <1>2, <1>3 DEF IntState, t

(* The first argument of + or * if it is a rational.                       *)
LEMMA FirstTurn ==
    ASSUME NEW op \in {"+", "*"}, NEW s, NEW e, NEW x \in Numbers, ~IsInt(x),
           IF op = "+" THEN s = InitAcc(0, Num(0, 0)) /\ e = Num(0, 1)
                       ELSE s = InitAcc(1, Num(1, 1)) /\ e = Num(1, 1)
    PROVE  LET t == Turn(op, s, x)
           IN  RatState(op, t, Fraction(op, e, x)) /\ t.cur_type = "rational" /\ t.racc.d = x.d
<1> DEFINE t == Turn(op, s, x)
           q == Num(s.acc, s.acc)
           r == RaccOf(op, s, q, x)
           f == Fraction(op, e, x)
<1>0. op \in Arithmetic /\ op # "/" /\ x.n \in Int /\ x.d \in Int \ {0}
  BY DEF Arithmetic, Numbers
<1>1. /\ s \in Accs /\ s.acc_type = "int" /\ s.cur_type = "int" /\ ~s.error
      /\ s.acc = IF op = "+" THEN 0 ELSE 1
  <2>1. \A i, j \in Int : InitAcc(i, Num(j, j)) \in Accs
    BY DEF InitAcc, Num, Accs
  <2>2. CASE op = "+"
    BY <2>1, <2>2 DEF InitAcc
  <2>3. CASE op # "+"
    BY <2>1, <2>3 DEF InitAcc
  <2> QED
    BY <2>2, <2>3
<1>2. /\ t \in Accs /\ ~t.error /\ t.acc_type = "rational" /\ t.cur_type = "rational"
      /\ t.acc = s.acc /\ t.racc = r
  <2>1. Started(s, x) = q
    BY <1>1 DEF Started
  <2> HIDE DEF t
  <2>2. /\ t \in Accs /\ t.error = s.error
        /\ t.acc_type = IF IsInt(x) THEN s.acc_type ELSE "rational"
        /\ t.cur_type = IF IsInt(x) THEN "int" ELSE "rational"
        /\ t.acc_type = "rational" => t.acc = s.acc /\ t.racc = RaccOf(op, s, Started(s, x), x)
    BY <1>0, <1>1, TurnFacts DEF t
  <2> QED
    BY <1>1, <2>1, <2>2
<1>3. r \in Numbers /\ f \in Numbers /\ r.n * f.d = f.n * r.d /\ r.d = x.d
  <2>1. CASE op = "+"
    <3>1. r = x
      BY <1>1, <2>1, NumFacts DEF RaccOf, Plus
    <3>2. f = Num(e.n * x.d + x.n * e.d, e.d * x.d) /\ e.n = 0 /\ e.d = 1
      BY <2>1, NumFacts DEF Fraction
    <3>3. e.n * x.d + x.n * e.d = x.n /\ e.d * x.d = x.d
      BY <1>0, <3>2
    <3>4. f \in Numbers /\ f.n = x.n /\ f.d = x.d
      BY <1>0, <3>2, <3>3, NumFacts
    <3> QED
      BY <3>1, <3>4
  <2>2. CASE op = "*"
    <3>0. q = Num(1, 1) /\ s.acc = 1 /\ q.n = 1 /\ q.d = 1 /\ e.n = 1 /\ e.d = 1
      BY <1>1, <2>2, NumFacts
    <3> HIDE DEF q
    <3>1. r = Num(q.n * x.n, q.d * x.d)
      BY <2>2, <3>0 DEF RaccOf, Times
    <3>2. f = Num(e.n * x.n, e.d * x.d)
      BY <2>2 DEF Fraction
    <3>3. q.n * x.n = x.n /\ q.d * x.d = x.d /\ e.n * x.n = x.n /\ e.d * x.d = x.d
      BY <1>0, <3>0
    <3>4. r = Num(x.n, x.d) /\ f = Num(x.n, x.d)
      BY <3>1, <3>2, <3>3
    <3>5. r \in Numbers /\ r.n = x.n /\ r.d = x.d
      BY <1>0, <3>4, NumFacts
    <3> HIDE DEF r, f
    <3> QED
      BY <3>4, <3>5
  <2> QED
    BY <2>1, <2>2
<1> HIDE DEF t, r, f
<1>4. RatState(op, t, f)
  BY <1>1, <1>2, <1>3 DEF RatState
<1> QED
  BY <1>2, <1>3, <1>4 DEF t, f

\* Nothing in t makes a denominator negative, or 0.
AllPositive(op, t) == \A i \in 1 .. Len(t) : t[i].d > 0 /\ (op = "/" => t[i].n > 0)

NoZeroDivisor(op, t) == op = "/" => \A i \in 1 .. Len(t) : t[i].n # 0

\* After a rational, or a first one: no rational follows an integer.
Unit(op, s, e) ==
    \/ op = "+" /\ s = InitAcc(0, Num(0, 0)) /\ e = Num(0, 1)
    \/ op = "*" /\ s = InitAcc(1, Num(1, 1)) /\ e = Num(1, 1)

InOrder(op, s, e, t) ==
    /\ \/ RatState(op, s, e) /\ (t # <<>> /\ ~IsInt(t[1]) => s.cur_type = "rational")
       \/ Unit(op, s, e) /\ t # <<>> /\ ~IsInt(t[1])
    /\ \A i \in 2 .. Len(t) : ~IsInt(t[i]) => ~IsInt(t[i - 1])

(* The loop over integers only.                                            *)
LEMMA IntegerLoop ==
    ASSUME NEW op \in Arithmetic, NEW s, NEW e, NEW t \in Seq(Numbers), IntState(s, e),
           \A i \in 1 .. Len(t) : IsInt(t[i]), NoZeroDivisor(op, t)
    PROVE  IntState(Loop(op, s, t), Combined(op, op = "/", e, t))
<1> DEFINE n == Len(t)
<1>1. n \in Nat /\ \A i \in 1 .. n : t[i] \in Numbers
  OBVIOUS
<1>2. PICK f : Turns(f, op, s, t)
  BY <1>1, LoopTurns
<1>3. PICK v : Steps(v, op, op = "/", e, t)
  BY <1>1, CombinedValues
<1> DEFINE S == {i \in 0 .. n : IntState(f[i], v[i])}
<1> HIDE DEF n
<1>4. 0 \in S
  BY <1>1, <1>2, <1>3 DEF Turns, Steps
<1>5. ASSUME NEW i \in 1 .. n, i - 1 \in S PROVE i \in S
  <2>1. f[i] = Turn(op, f[i - 1], t[i]) /\ v[i] = Step(op, op = "/", v[i - 1], t[i])
    BY <1>1, <1>2, <1>3 DEF Turns, Steps, n
  <2>2. IntState(f[i - 1], v[i - 1]) /\ t[i] \in Numbers /\ IsInt(t[i])
        /\ (op = "/" => t[i].n # 0)
    BY <1>1, <1>5 DEF n, NoZeroDivisor
  <2>3. IntState(Turn(op, f[i - 1], t[i]), Step(op, op = "/", v[i - 1], t[i]))
    BY <2>2, IntegerTurn DEF Step
  <2> QED
    BY <1>1, <2>1, <2>3
<1> HIDE DEF S
<1>6. \A i \in 0 .. n : i \in S
  BY <1>1, <1>4, <1>5, EveryTurn
<1>7. n \in S
  BY <1>1, <1>6
<1> QED
  BY <1>2, <1>3, <1>7 DEF S, n, Turns, Steps

(* The loop from a rational on.                                            *)
LEMMA RationalLoop ==
    ASSUME NEW op \in Arithmetic, NEW s, NEW e, NEW t \in Seq(Numbers),
           InOrder(op, s, e, t), NoZeroDivisor(op, t)
    PROVE  /\ RatState(op, Loop(op, s, t), Combined(op, FALSE, e, t))
           /\ AllPositive(op, t) /\ (RatState(op, s, e) => s.racc.d > 0)
                 => Loop(op, s, t).racc.d > 0
<1> DEFINE n == Len(t)
           Pos == AllPositive(op, t) /\ (RatState(op, s, e) => s.racc.d > 0)
<1>1. n \in Nat /\ (\A i \in 1 .. n : t[i] \in Numbers) /\ (t # <<>> => n # 0)
  OBVIOUS
<1>2. PICK f : Turns(f, op, s, t)
  BY <1>1, LoopTurns
<1>3. PICK v : Steps(v, op, FALSE, e, t)
  BY <1>1, CombinedValues
<1> DEFINE Holds(i) == /\ RatState(op, f[i], v[i])
                       /\ i < n /\ ~IsInt(t[i + 1]) => f[i].cur_type = "rational"
                       /\ Pos => f[i].racc.d > 0
           S == {i \in 0 .. n : i > 0 \/ RatState(op, s, e) => Holds(i)}
<1> HIDE DEF n, Pos
<1>0. f[0] = s /\ v[0] = e /\ (t # <<>> => 0 < n /\ 1 \in 1 .. n) /\ (t = <<>> => n = 0)
  BY <1>1, <1>2, <1>3 DEF n, Turns, Steps
<1>4. 0 \in S
  <2>1. ASSUME RatState(op, s, e) PROVE Holds(0)
    <3>1. 0 < n /\ ~IsInt(t[1]) => s.cur_type = "rational"
      <4>1. CASE Unit(op, s, e)
        <5>1. s.acc_type = "int"
          BY <4>1 DEF Unit, InitAcc
        <5> QED
          BY <2>1, <5>1 DEF RatState
      <4> QED
        BY <1>0, <4>1 DEF InOrder
    <3>2. Pos => s.racc.d > 0
      BY <2>1 DEF Pos
    <3> QED
      BY <1>0, <2>1, <3>1, <3>2
  <2> QED
    BY <1>1, <2>1
<1>5. ASSUME NEW i \in 1 .. n, i - 1 \in S PROVE i \in S
  <2>0. /\ i - 1 \in 0 .. n /\ i \in 0 .. n /\ t[i] \in Numbers /\ i - 1 < n /\ i - 1 + 1 = i
        /\ (op = "/" => t[i].n # 0)
        /\ (Pos => t[i].d > 0 /\ (op = "/" => t[i].n > 0))
        /\ (i < n => (~IsInt(t[i + 1]) => ~IsInt(t[i])))
    <3>1. i < n => i + 1 \in 2 .. Len(t) /\ i + 1 - 1 = i
      BY <1>1 DEF n
    <3> QED
      BY <1>1, <3>1 DEF n, Pos, AllPositive, NoZeroDivisor, InOrder
  <2>1. f[i] = Turn(op, f[i - 1], t[i]) /\ v[i] = Fraction(op, v[i - 1], t[i])
    <3>1. f[i] = Turn(op, f[i - 1], t[i]) /\ v[i] = Step(op, FALSE, v[i - 1], t[i])
      BY <1>1, <1>2, <1>3 DEF n, Turns, Steps
    <3> QED
      BY <3>1 DEF Step
  <2>2. /\ RatState(op, f[i], v[i])
        /\ ~IsInt(t[i]) => f[i].cur_type = "rational"
        /\ Pos => f[i].racc.d > 0
    <3>1. CASE i - 1 > 0 \/ RatState(op, s, e)
      <4> DEFINE g == f[i - 1]
                 w == v[i - 1]
                 x == t[i]
                 r == Turn(op, g, x)
      <4>1. Holds(i - 1)
        BY <1>5, <3>1
      <4>2. /\ RatState(op, g, w) /\ (~IsInt(x) => g.cur_type = "rational")
            /\ (Pos => g.racc.d > 0)
        BY <2>0, <4>1
      <4> HIDE DEF g, w, x
      <4>3. /\ RatState(op, r, Fraction(op, w, x))
            /\ ~IsInt(x) => r.cur_type = "rational"
            /\ g.racc.d > 0 /\ x.d > 0 /\ (op = "/" => x.n > 0) => r.racc.d > 0
        <5>1. x \in Numbers /\ (op = "/" => x.n # 0)
          BY <2>0 DEF x
        <5> QED
          BY <4>2, <5>1, RationalTurn
      <4> HIDE DEF r
      <4>4. Pos => r.racc.d > 0
        BY <2>0, <4>2, <4>3 DEF x
      <4> QED
        BY <2>1, <4>3, <4>4 DEF g, w, x, r
    <3>2. CASE ~(i - 1 > 0) /\ ~RatState(op, s, e)
      <4> DEFINE x == t[i]
                 r == Turn(op, s, x)
      <4>1. i = 1 /\ f[i - 1] = s /\ v[i - 1] = e
        BY <1>0, <3>2
      <4>2. Unit(op, s, e) /\ ~IsInt(x)
        BY <3>2, <4>1 DEF InOrder
      <4>3. op \in {"+", "*"} /\ IF op = "+" THEN s = InitAcc(0, Num(0, 0)) /\ e = Num(0, 1)
                                             ELSE s = InitAcc(1, Num(1, 1)) /\ e = Num(1, 1)
        BY <4>2 DEF Unit
      <4>4. x \in Numbers
        BY <2>0
      <4> HIDE DEF x
      <4>5. RatState(op, r, Fraction(op, e, x)) /\ r.cur_type = "rational" /\ r.racc.d = x.d
        BY <4>2, <4>3, <4>4, FirstTurn
      <4> HIDE DEF r
      <4>6. Pos => r.racc.d > 0
        BY <2>0, <4>5 DEF x
      <4> QED
        BY <2>1, <4>1, <4>5, <4>6 DEF x, r
    <3> QED
      BY <3>1, <3>2
  <2>3. Holds(i)
    BY <2>0, <2>2
  <2> HIDE DEF Holds
  <2> QED
    BY <2>0, <2>3
<1>6. \A i \in 0 .. n : i \in S
  <2> HIDE DEF S
  <2> QED
    BY <1>1, <1>4, <1>5, EveryTurn
<1>7. n \in S
  <2> HIDE DEF S
  <2> QED
    BY <1>1, <1>6
<1>8. n > 0 \/ RatState(op, s, e)
  <2>1. t # <<>> => n # 0
    BY <1>1
  <2> QED
    BY <1>1, <2>1 DEF InOrder
<1>9. Holds(n)
  <2> HIDE DEF Holds
  <2> QED
    BY <1>7, <1>8
<1> QED
  BY <1>2, <1>3, <1>9 DEF Pos, n, Turns, Steps

(* A division by zero anywhere in the list is the result.                  *)
LEMMA ErrorLoop ==
    ASSUME NEW s \in Accs, NEW t \in Seq(Numbers), \E i \in 1 .. Len(t) : t[i].n = 0
    PROVE  Loop("/", s, t).error
<1> DEFINE n == Len(t)
           Seen(i) == \E j \in 1 .. i : t[j].n = 0
<1>1. n \in Nat /\ \A i \in 1 .. n : t[i] \in Numbers
  OBVIOUS
<1>2. PICK f : Turns(f, "/", s, t)
  BY <1>1, LoopTurns
<1> DEFINE S == {i \in 0 .. n : f[i] \in Accs /\ (Seen(i) => f[i].error)}
<1> HIDE DEF n
<1>3. 0 \in S
  BY <1>1, <1>2 DEF Turns
<1>4. ASSUME NEW i \in 1 .. n, i - 1 \in S PROVE i \in S
  <2> DEFINE g == f[i - 1]
             x == t[i]
             r == Turn("/", g, x)
  <2>1. f[i] = r /\ x \in Numbers /\ "/" \in Arithmetic /\ i \in 0 .. n
    BY <1>1, <1>2 DEF Turns, n, Arithmetic
  <2>2. g \in Accs /\ (Seen(i - 1) => g.error)
    BY <1>4
  <2>3. Seen(i) => Seen(i - 1) \/ x.n = 0
    <3>1. \A j \in 1 .. i : j = i \/ j \in 1 .. i - 1
      BY <1>1
    <3> QED
      BY <3>1
  <2> HIDE DEF Seen, g, x
  <2>4. CASE g.error \/ x.n = 0
    <3>1. r \in Accs /\ r.error
      BY <2>1, <2>2, <2>4, ErrorStays
    <3> QED
      BY <2>1, <3>1
  <2>5. CASE ~g.error /\ x.n # 0
    <3>1. r \in Accs
      BY <2>1, <2>2, <2>5, TurnFacts
    <3> QED
      BY <2>1, <2>2, <2>3, <2>5, <3>1
  <2> QED
    BY <2>4, <2>5
<1>5. n \in S
  <2> HIDE DEF S
  <2>1. \A i \in 0 .. n : i \in S
    BY <1>1, <1>3, <1>4, EveryTurn
  <2> QED
    BY <1>1, <2>1
<1>6. Seen(n)
  BY DEF n
<1> QED
  BY <1>2, <1>5, <1>6 DEF Turns, n

(* Fractions equal to the same one are equal.                              *)
LEMMA SameNumberTransitive ==
    ASSUME NEW x \in Numbers, NEW y \in Numbers, NEW z \in Numbers,
           SameNumber(x, y), SameNumber(y, z)
    PROVE  SameNumber(x, z)
<1> DEFINE a == x.n
           b == x.d
           c == y.n
           d == y.d
           e == z.n
           f == z.d
<1>1. /\ a \in Int /\ b \in Int /\ c \in Int /\ d \in Int \ {0} /\ e \in Int /\ f \in Int /\ b # 0
      /\ a * d = c * b /\ c * f = e * d
  BY DEF Numbers, SameNumber
<1> HIDE DEF a, b, c, d, e, f
<1>2. (a * d) * f = (c * b) * f /\ (c * f) * b = (e * d) * b
  BY <1>1
<1>3. (a * f) * d = (e * b) * d
  BY <1>1, <1>2
<1>4. (a * f - e * b) * d = 0
  <2>1. (a * f - e * b) * d = (a * f) * d - (e * b) * d
    BY <1>1
  <2> QED
    BY <1>1, <1>3, <2>1
<1>5. a * f - e * b = 0
  <2>1. a * f - e * b \in Int
    BY <1>1
  <2> DEFINE k == a * f - e * b
  <2> HIDE DEF k
  <2>2. k \in Int /\ k * d = 0
    BY <1>4, <2>1 DEF k
  <2>3. k = 0
    BY <1>1, <2>2
  <2> QED
    BY <2>3 DEF k
<1>6. a * f = e * b
  BY <1>1, <1>5
<1> QED
  BY <1>1, <1>6 DEF SameNumber, a, b, c, d, e, f

\* The value r is e, and in lowest terms if low is true.
Gives(r, e, low) ==
    r.t = "value" /\ SameNumber(r.x, e) /\ (low => LowestTerms(r.x))

(* What RET_ACC returns, of integers and of rationals.                     *)
LEMMA RetInteger ==
    ASSUME NEW s, NEW e, IntState(s, e)
    PROVE  Gives(Ret(s), e, TRUE)
<1>1. /\ s \in Accs /\ s.acc_type = "int" /\ ~s.error /\ s.acc \in Int /\ e = Num(s.acc, 1)
  BY DEF IntState, Accs
<1>2. Ret(s) = Value(e)
  BY <1>1 DEF Ret
<1>3. e.n = s.acc /\ e.d = 1
  BY <1>1, NumFacts
<1>4. Ret(s).t = "value" /\ Ret(s).x = e
  BY <1>2 DEF Value
<1>5. SameNumber(e, e) /\ LowestTerms(e)
  BY <1>1, <1>3 DEF SameNumber, LowestTerms
<1> QED
  BY <1>4, <1>5 DEF Gives

LEMMA ReducedGives ==
    ASSUME NEW q \in Numbers, NEW e \in Numbers, q.n * e.d = e.n * q.d
    PROVE  Gives(Sv_new_rational(q.n, q.d), e, q.d > 0)
<1> DEFINE v == Sv_new_rational(q.n, q.d)
<1>1. q.n \in Int /\ q.d \in Int \ {0} /\ q = Num(q.n, q.d)
  BY DEF Numbers, Num
<1>2. /\ v.t = "value" /\ v.x \in Numbers /\ SameNumber(v.x, Num(q.n, q.d))
      /\ (q.d > 0 => LowestTerms(v.x))
  BY <1>1, NewRational
<1> HIDE DEF v
<1>3. SameNumber(q, e) /\ SameNumber(v.x, q)
  BY <1>1, <1>2 DEF SameNumber
<1>4. SameNumber(v.x, e)
  BY <1>2, <1>3, SameNumberTransitive
<1> QED
  BY <1>2, <1>4 DEF Gives, v

LEMMA RetRational ==
    ASSUME NEW op, NEW s, NEW e, RatState(op, s, e)
    PROVE  Gives(Ret(s), e, s.racc.d > 0)
<1>1. Ret(s) = Sv_new_rational(s.racc.n, s.racc.d)
  BY DEF Ret, RatState
<1> QED
  BY <1>1, ReducedGives DEF RatState

(* One argument is one step.                                               *)
LEMMA OneStep ==
    ASSUME NEW op, NEW truncated, NEW e, NEW args, Len(args) = 1
    PROVE  Combined(op, truncated, e, args) = Step(op, truncated, e, args[1])
<1>0. Len(args) \in Nat
  OBVIOUS
<1>1. PICK v : Steps(v, op, truncated, e, args)
  BY <1>0, CombinedValues, Zenon
<1>2. v[0] = e /\ v[1] = Step(op, truncated, v[1 - 1], args[1])
      /\ Combined(op, truncated, e, args) = v[1]
  BY <1>1 DEF Steps
<1> QED
  BY <1>2

\* Arguments the theorem is about.
Given(op, g) ==
    /\ op \in Arithmetic /\ g \in Seq(Numbers) /\ g # <<>> /\ Positive(g) /\ RationalsFirst(g)
    /\ op = "/" /\ Len(g) = 1 => IsInt(g[1]) /\ g[1].n # 0

(* What an operator returns is exact if it gives the value expected.         *)
LEMMA ExactlyGives ==
    ASSUME NEW op, NEW r, NEW g, NEW low \in BOOLEAN, Gives(r, Expected(op, g), low),
           op = "/" => ~HasZeroDivisor(g), ~low => op = "/" /\ HasNegative(g)
    PROVE  Exactly(op, r, g)
  BY DEF Gives, Exactly

LEMMA GivenFacts ==
    ASSUME NEW op, NEW g, Given(op, g)
    PROVE  /\ Len(g) \in Nat \ {0} /\ DOMAIN g = 1 .. Len(g)
           /\ \A i \in 1 .. Len(g) : g[i] \in Numbers /\ g[i].d > 0
           /\ \A i \in 2 .. Len(g) : ~IsInt(g[i]) => ~IsInt(g[i - 1])
           /\ IsInt(g[1]) => \A i \in 1 .. Len(g) : IsInt(g[i])
<1>1. Len(g) \in Nat \ {0} /\ DOMAIN g = 1 .. Len(g) /\ \A i \in 1 .. Len(g) : g[i] \in Numbers
  BY DEF Given
<1>2. \A i \in 1 .. Len(g) : g[i].d > 0
  BY <1>1 DEF Given, Positive
<1>3. \A i, j \in 1 .. Len(g) : i < j /\ IsInt(g[i]) => IsInt(g[j])
  BY <1>1 DEF Given, RationalsFirst
<1>4. ASSUME NEW i \in 2 .. Len(g), ~IsInt(g[i]) PROVE ~IsInt(g[i - 1])
  <2>1. i \in 1 .. Len(g) /\ i - 1 \in 1 .. Len(g) /\ i - 1 < i
    BY <1>1
  <2> QED
    BY <1>3, <1>4, <2>1
<1>5. ASSUME IsInt(g[1]), NEW i \in 1 .. Len(g) PROVE IsInt(g[i])
  BY <1>1, <1>3, <1>5
<1> QED
  BY <1>1, <1>2, <1>4, <1>5

(* Sums and products.                                                      *)
LEMMA SumsAndProducts ==
    ASSUME NEW op \in {"+", "*"}, NEW g, Given(op, g)
    PROVE  Exactly(op, Applied(op, g), g)
<1> DEFINE s == IF op = "+" THEN InitAcc(0, Num(0, 0)) ELSE InitAcc(1, Num(1, 1))
           e == IF op = "+" THEN Num(0, 1) ELSE Num(1, 1)
           r == Ret(Loop(op, s, g))
<1>1. /\ Len(g) \in Nat \ {0} /\ DOMAIN g = 1 .. Len(g)
      /\ \A i \in 1 .. Len(g) : g[i] \in Numbers /\ g[i].d > 0
      /\ \A i \in 2 .. Len(g) : ~IsInt(g[i]) => ~IsInt(g[i - 1])
      /\ IsInt(g[1]) => \A i \in 1 .. Len(g) : IsInt(g[i])
      /\ g \in Seq(Numbers) /\ g # <<>> /\ op \in Arithmetic /\ op # "/"
  BY GivenFacts DEF Given
<1>2. Applied(op, g) = r
  BY DEF Applied, Builtin_add, Builtin_mul
<1>3. Expected(op, g) = Combined(op, FALSE, e, g)
  <2>1. CASE op = "+"
    BY <2>1 DEF Expected
  <2>2. CASE op = "*"
    BY <2>2 DEF Expected
  <2> QED
    BY <2>1, <2>2
<1>4. Unit(op, s, e) /\ NoZeroDivisor(op, g) /\ AllPositive(op, g)
  BY <1>1 DEF Unit, NoZeroDivisor, AllPositive
<1>5. CASE IsInt(g[1])
  <2>1. IntState(s, e)
    <3>1. s \in Accs /\ s.acc_type = "int" /\ ~s.error
      BY DEF InitAcc, Num, Accs
    <3>2. e = Num(s.acc, 1)
      BY DEF InitAcc
    <3> QED
      BY <3>1, <3>2 DEF IntState
  <2> HIDE DEF s, e
  <2>2. IntState(Loop(op, s, g), Combined(op, op = "/", e, g))
    BY <1>1, <1>4, <1>5, <2>1, IntegerLoop
  <2>3. (op = "/") = FALSE
    BY <1>1
  <2>4. IntState(Loop(op, s, g), Combined(op, FALSE, e, g))
    BY <2>2, <2>3
  <2>5. Gives(r, Combined(op, FALSE, e, g), TRUE)
    BY <2>4, RetInteger
  <2> HIDE DEF r
  <2> QED
    BY <1>1, <1>2, <1>3, <2>5, ExactlyGives
<1>6. CASE ~IsInt(g[1])
  <2> DEFINE l == Loop(op, s, g)
  <2>0. ~RatState(op, s, e)
    BY DEF RatState, InitAcc
  <2> HIDE DEF s, e
  <2>1. InOrder(op, s, e, g)
    BY <1>1, <1>4, <1>6 DEF InOrder
  <2>2. RatState(op, l, Combined(op, FALSE, e, g)) /\ l.racc.d > 0
    BY <1>1, <1>4, <2>0, <2>1, RationalLoop
  <2> HIDE DEF l
  <2>3. Gives(Ret(l), Combined(op, FALSE, e, g), l.racc.d > 0)
    BY <2>2, RetRational
  <2>4. Gives(Ret(l), Combined(op, FALSE, e, g), TRUE)
    BY <2>2, <2>3 DEF Gives
  <2> HIDE DEF r
  <2> QED
    BY <1>1, <1>2, <1>3, <2>4, ExactlyGives DEF r, l
<1> QED
  BY <1>5, <1>6

(* The first argument of - and / is the value so far.                      *)
LEMMA FirstArgument ==
    ASSUME NEW op \in {"-", "/"}, NEW x \in Numbers
    PROVE  /\ FirstAcc(x) \in Accs
           /\ IsInt(x) => IntState(FirstAcc(x), x) /\ FirstAcc(x).racc = Num(0, 0)
           /\ ~IsInt(x) => /\ RatState(op, FirstAcc(x), x) /\ FirstAcc(x).racc = x
                           /\ FirstAcc(x).cur_type = "rational"
<1> DEFINE i == InitAcc(0, Num(0, 0))
           u == SetAcc(i, x)
           s == FirstAcc(x)
<1>1. i \in Accs /\ i.acc_type = "int" /\ ~i.error /\ i.racc = Num(0, 0)
  BY DEF InitAcc, Num, Accs
<1>2. x.n \in Int /\ x.d \in Int \ {0} /\ x = Num(x.n, x.d) /\ x \in [n : Int, d : Int]
  BY DEF Numbers, Num
<1> HIDE DEF i
<1>3. /\ u \in Accs
      /\ u.racc = Started(i, x)
      /\ u.acc_type = IF IsInt(x) THEN i.acc_type ELSE "rational"
      /\ u.cur_type = IF IsInt(x) THEN "int" ELSE "rational"
      /\ u.error = i.error
  BY <1>1, SetAccFacts
<1>4. s = IF IsInt(x) THEN [u EXCEPT !.acc = x.n] ELSE [u EXCEPT !.racc = x]
  BY DEF FirstAcc, i
<1> HIDE DEF u
<1>5. CASE IsInt(x)
  <2>1. u.racc = Num(0, 0)
    BY <1>1, <1>3, <1>5 DEF Started
  <2>2. s = [u EXCEPT !.acc = x.n]
    BY <1>4, <1>5
  <2> HIDE DEF s
  <2>3. s \in Accs /\ s.acc_type = u.acc_type /\ s.error = u.error /\ s.racc = u.racc /\ s.acc = x.n
    BY <1>2, <1>3, <2>2 DEF Accs
  <2>4. x = Num(s.acc, 1)
    BY <1>2, <1>5, <2>3 DEF IsInt
  <2>5. IntState(s, x)
    BY <1>1, <1>3, <1>5, <2>3, <2>4 DEF IntState
  <2> QED
    BY <1>5, <2>1, <2>3, <2>5 DEF s
<1>6. CASE ~IsInt(x)
  <2>2. s = [u EXCEPT !.racc = x]
    BY <1>4, <1>6
  <2> HIDE DEF s
  <2>3. s \in Accs /\ s.acc_type = u.acc_type /\ s.error = u.error /\ s.racc = x
        /\ s.cur_type = u.cur_type
    BY <1>2, <1>3, <2>2 DEF Accs
  <2>5. RatState(op, s, x)
    BY <1>1, <1>3, <1>6, <2>3 DEF RatState
  <2> QED
    BY <1>3, <1>6, <2>3, <2>5 DEF s
<1> QED
  BY <1>5, <1>6

(* Differences and quotients of two numbers or more.                       *)
LEMMA DifferencesAndQuotients ==
    ASSUME NEW op \in {"-", "/"}, NEW g, Given(op, g), Len(g) > 1
    PROVE  Exactly(op, Applied(op, g), g)
<1> DEFINE x == g[1]
           t == Tail(g)
           s == FirstAcc(x)
           l == Loop(op, s, t)
<1>1. /\ Len(g) \in Nat \ {0} /\ DOMAIN g = 1 .. Len(g)
      /\ \A i \in 1 .. Len(g) : g[i] \in Numbers /\ g[i].d > 0
      /\ \A i \in 2 .. Len(g) : ~IsInt(g[i]) => ~IsInt(g[i - 1])
      /\ IsInt(g[1]) => \A i \in 1 .. Len(g) : IsInt(g[i])
      /\ g \in Seq(Numbers) /\ g # <<>> /\ op \in Arithmetic
  <2>1. op \in Arithmetic
    BY DEF Arithmetic
  <2> QED
    BY <2>1, GivenFacts DEF Given
<1>2. /\ t \in Seq(Numbers) /\ Len(t) = Len(g) - 1
      /\ \A i \in 1 .. Len(t) : i + 1 \in 2 .. Len(g) /\ t[i] = g[i + 1]
  BY <1>1
<1>3. Applied(op, g) = Ret(l)
  <2>1. g # <<>> /\ Len(g) > 1
    BY <1>1
  <2>2. CASE op = "-"
    BY <2>1, <2>2 DEF Applied, Builtin_sub
  <2>3. CASE op = "/"
    BY <2>1, <2>3 DEF Applied, Builtin_div
  <2> QED
    BY <2>2, <2>3
<1>4. Expected(op, g) = Combined(op, op = "/" /\ AllInts(g), x, t)
  <2>1. (op = "/" /\ AllInts(g) /\ Len(g) > 1) = (op = "/" /\ AllInts(g))
    OBVIOUS
  <2>2. Expected(op, g) = Combined(op, op = "/" /\ AllInts(g) /\ Len(g) > 1, x, t)
    BY DEF Expected
  <2> QED
    BY <2>1, <2>2
<1>5. x \in Numbers /\ x.d > 0
  BY <1>1
<1> HIDE DEF x
<1>6. /\ s \in Accs /\ (IsInt(x) => IntState(s, x))
      /\ ~IsInt(x) => RatState(op, s, x) /\ s.racc = x /\ s.cur_type = "rational"
  BY <1>5, FirstArgument
<1> HIDE DEF s, t, l
<1>7. CASE op = "/" /\ HasZeroDivisor(g)
  <2>1. PICK i \in 2 .. Len(g) : g[i].n = 0
    BY <1>7 DEF HasZeroDivisor, DivisorsFrom
  <2>2. i - 1 \in 1 .. Len(t) /\ t[i - 1] = g[i]
    <3>1. i - 1 \in 1 .. Len(t) /\ i - 1 + 1 = i
      BY <1>1, <1>2, <2>1
    <3> QED
      BY <1>2, <3>1
  <2>3. l.error
    <3>1. \E j \in 1 .. Len(t) : t[j].n = 0
      BY <2>1, <2>2
    <3> QED
      BY <1>2, <1>6, <1>7, <3>1, ErrorLoop DEF l
  <2>4. Ret(l) = Failure("error")
    BY <2>3 DEF Ret
  <2> QED
    BY <1>3, <1>7, <2>4 DEF Exactly
<1>8. CASE ~(op = "/" /\ HasZeroDivisor(g))
  <2>1. NoZeroDivisor(op, t)
    <3>1. ASSUME op = "/", NEW i \in 1 .. Len(t) PROVE t[i].n # 0
      <4>1. i + 1 \in DivisorsFrom(g) .. Len(g) /\ t[i] = g[i + 1]
        BY <1>2 DEF DivisorsFrom
      <4> QED
        BY <1>8, <3>1, <4>1 DEF HasZeroDivisor
    <3> QED
      BY <3>1 DEF NoZeroDivisor
  <2>2. CASE IsInt(x)
    <3>1. \A i \in 1 .. Len(t) : IsInt(t[i])
      BY <1>1, <1>2, <2>2 DEF x
    <3>2. IntState(l, Combined(op, op = "/", x, t))
      BY <1>1, <1>2, <1>6, <2>1, <2>2, <3>1, IntegerLoop DEF l
    <3>3. AllInts(g)
      BY <1>1, <2>2 DEF AllInts, x
    <3>4. (op = "/" /\ AllInts(g)) = (op = "/")
      BY <3>3
    <3>5. IntState(l, Expected(op, g))
      BY <1>4, <3>2, <3>4
    <3>6. Gives(Ret(l), Expected(op, g), TRUE)
      BY <3>5, RetInteger
    <3> QED
      BY <1>3, <1>8, <3>6, ExactlyGives
  <2>3. CASE ~IsInt(x)
    <3>1. InOrder(op, s, x, t)
      <4>1. \A i \in 2 .. Len(t) : ~IsInt(t[i]) => ~IsInt(t[i - 1])
        <5> SUFFICES ASSUME NEW i \in 2 .. Len(t), ~IsInt(t[i])
                     PROVE  ~IsInt(t[i - 1])
          OBVIOUS
        <5>1. i \in 1 .. Len(t) /\ i - 1 \in 1 .. Len(t) /\ i - 1 + 1 = i /\ i + 1 - 1 = i
          BY <1>2
        <5>2. t[i] = g[i + 1] /\ i + 1 \in 2 .. Len(g) /\ t[i - 1] = g[i]
          BY <1>2, <5>1
        <5> QED
          BY <1>1, <5>1, <5>2
      <4> QED
        BY <1>6, <2>3, <4>1 DEF InOrder
    <3>2. /\ RatState(op, l, Combined(op, FALSE, x, t))
          /\ AllPositive(op, t) /\ (RatState(op, s, x) => s.racc.d > 0) => l.racc.d > 0
      BY <1>1, <1>2, <2>1, <3>1, RationalLoop DEF l
    <3>3. ~AllInts(g)
      BY <1>1, <2>3 DEF AllInts, x
    <3>4. (op = "/" /\ AllInts(g)) = FALSE
      BY <3>3
    <3>5. RatState(op, l, Expected(op, g))
      BY <1>4, <3>2, <3>4
    <3>6. Gives(Ret(l), Expected(op, g), l.racc.d > 0)
      BY <3>5, RetRational
    <3>7. ~(l.racc.d > 0) => op = "/" /\ HasNegative(g)
      <4> SUFFICES ASSUME ~(op = "/" /\ HasNegative(g)) PROVE l.racc.d > 0
        OBVIOUS
      <4>1. AllPositive(op, t)
        <5> SUFFICES ASSUME NEW i \in 1 .. Len(t)
                     PROVE  t[i].d > 0 /\ (op = "/" => t[i].n > 0)
          BY DEF AllPositive
        <5>1. t[i] = g[i + 1] /\ i + 1 \in DOMAIN g
          BY <1>1, <1>2
        <5>2. t[i].d > 0 /\ t[i].n \in Int
          BY <1>1, <5>1 DEF Numbers
        <5>3. op = "/" => t[i].n # 0 /\ ~(t[i].n < 0)
          BY <2>1, <5>1 DEF NoZeroDivisor, HasNegative
        <5> QED
          BY <5>2, <5>3
      <4> QED
        BY <1>5, <1>6, <2>3, <3>2, <4>1
    <3> DEFINE low == l.racc.d > 0
    <3>8. low \in BOOLEAN /\ Gives(Ret(l), Expected(op, g), low)
          /\ (~low => op = "/" /\ HasNegative(g))
      BY <3>6, <3>7
    <3> HIDE DEF low
    <3> QED
      BY <1>3, <1>8, <3>8, ExactlyGives
  <2> QED
    BY <2>2, <2>3
<1> QED
  BY <1>7, <1>8

(* The negative of a number.                                               *)
LEMMA Negative ==
    ASSUME NEW g, Given("-", g), Len(g) = 1
    PROVE  Exactly("-", Applied("-", g), g)
<1> DEFINE x == g[1]
           s == FirstAcc(x)
           r == [s EXCEPT !.acc = -@, !.racc.n = -@]
           e == Num(-x.n, x.d)
<1>1. x \in Numbers /\ x.d > 0 /\ g # <<>>
  BY GivenFacts DEF Given
<1>2. x.n \in Int /\ x.d \in Int \ {0}
  BY <1>1 DEF Numbers
<1>3. Applied("-", g) = Ret(r)
  BY <1>1 DEF Applied, Builtin_sub
<1>4. Expected("-", g) = e
  <2>0. ("-" = "/" /\ AllInts(g) /\ Len(g) > 1) = FALSE /\ ~(Len(g) > 1)
    OBVIOUS
  <2>1. Expected("-", g) = Combined("-", FALSE, Num(0, 1), g)
    <3>1. Expected("-", g) =
            Combined("-", "-" = "/" /\ AllInts(g) /\ Len(g) > 1, Num(0, 1), g)
      BY <2>0 DEF Expected
    <3> QED
      BY <2>0, <3>1
  <2>2. @ = Fraction("-", Num(0, 1), x)
    <3>1. Combined("-", FALSE, Num(0, 1), g) = Step("-", FALSE, Num(0, 1), g[1])
      BY OneStep
    <3> QED
      BY <3>1 DEF Step
  <2>3. @ = Num(0 * x.d - x.n * 1, 1 * x.d)
    BY NumFacts DEF Fraction
  <2>4. 0 * x.d - x.n * 1 = -x.n /\ 1 * x.d = x.d
    BY <1>2
  <2> QED
    BY <2>1, <2>2, <2>3, <2>4
<1>5. e.n = -x.n /\ e.d = x.d /\ e \in Numbers
  <2>1. -x.n \in Int
    BY <1>2
  <2> QED
    BY <1>2, <2>1, NumFacts
<1> HIDE DEF x
<1>6. /\ s \in Accs /\ (IsInt(x) => IntState(s, x) /\ s.racc = Num(0, 0))
      /\ ~IsInt(x) => RatState("-", s, x) /\ s.racc = x
  BY <1>1, FirstArgument
<1> HIDE DEF s
<1>7. /\ r.acc_type = s.acc_type /\ r.error = s.error /\ r.acc = -s.acc
      /\ r.racc = [s.racc EXCEPT !.n = -@]
  BY <1>6 DEF Accs
<1>8. Gives(Ret(r), e, TRUE)
  <2>1. CASE IsInt(x)
    <3>1. s.acc_type = "int" /\ ~s.error /\ x = Num(s.acc, 1)
      BY <1>6, <2>1 DEF IntState
    <3>2. x.n = s.acc /\ x.d = 1
      BY <3>1, NumFacts
    <3> HIDE DEF r
    <3>3. Ret(r) = Value(Num(-x.n, 1))
      BY <1>7, <3>1, <3>2 DEF Ret
    <3>4. Ret(r).t = "value" /\ Ret(r).x = e
      BY <3>2, <3>3 DEF Value
    <3> HIDE DEF e
    <3>5. SameNumber(e, e) /\ LowestTerms(e)
      BY <1>2, <1>5, <3>2 DEF SameNumber, LowestTerms
    <3> QED
      BY <3>4, <3>5 DEF Gives
  <2>2. CASE ~IsInt(x)
    <3>1. s.acc_type = "rational" /\ ~s.error /\ s.racc = x
      BY <1>6, <2>2 DEF RatState
    <3>2. r.racc.n = e.n /\ r.racc.d = e.d
      BY <1>1, <1>5, <1>7, <3>1 DEF Numbers
    <3> HIDE DEF r, e
    <3>3. Ret(r) = Sv_new_rational(e.n, e.d)
      BY <1>7, <3>1, <3>2 DEF Ret
    <3>4. Gives(Ret(r), e, e.d > 0)
      BY <1>5, <3>3, ReducedGives
    <3> QED
      BY <1>1, <1>5, <3>4 DEF Gives
  <2> QED
    BY <2>1, <2>2
<1> HIDE DEF r, e
<1> QED
  BY <1>3, <1>4, <1>8, ExactlyGives

(* The inverse of an integer.                                              *)
LEMMA Inverted ==
    ASSUME NEW g, Given("/", g), Len(g) = 1
    PROVE  Exactly("/", Applied("/", g), g)
<1> DEFINE x == g[1]
           e == Num(1, x.n)
           low == x.n > 0
<1>1. x \in Numbers /\ g # <<>> /\ IsInt(x) /\ x.n # 0 /\ DOMAIN g = 1 .. 1
  BY GivenFacts DEF Given
<1>2. x.n \in Int /\ x.d = 1
  BY <1>1 DEF Numbers, IsInt
<1>3. Applied("/", g) = Sv_new_rational(1, x.n)
  BY <1>1 DEF Applied, Builtin_div
<1>4. Expected("/", g) = e
  <2>0. ("/" = "/" /\ AllInts(g) /\ Len(g) > 1) = FALSE /\ ~(Len(g) > 1)
    OBVIOUS
  <2>1. Expected("/", g) = Combined("/", FALSE, Num(1, 1), g)
    <3>1. Expected("/", g) =
            Combined("/", "/" = "/" /\ AllInts(g) /\ Len(g) > 1, Num(1, 1), g)
      BY <2>0 DEF Expected
    <3> QED
      BY <2>0, <3>1
  <2>2. @ = Fraction("/", Num(1, 1), x)
    <3>1. Combined("/", FALSE, Num(1, 1), g) = Step("/", FALSE, Num(1, 1), g[1])
      BY OneStep
    <3> QED
      BY <3>1 DEF Step
  <2>3. @ = Num(1 * x.d, 1 * x.n)
    BY NumFacts DEF Fraction
  <2>4. 1 * x.d = 1 /\ 1 * x.n = x.n
    BY <1>2
  <2> QED
    BY <2>1, <2>2, <2>3, <2>4
<1>5. e.n = 1 /\ e.d = x.n /\ e \in Numbers
  BY <1>1, <1>2, NumFacts
<1>6. Gives(Applied("/", g), e, low)
  <2> HIDE DEF e
  <2>1. Gives(Sv_new_rational(e.n, e.d), e, e.d > 0)
    BY <1>5, ReducedGives
  <2> QED
    BY <1>3, <1>5, <2>1
<1>7. ~HasZeroDivisor(g)
  BY <1>1 DEF HasZeroDivisor, DivisorsFrom
<1>8. ~low => HasNegative(g)
  BY <1>1, <1>2 DEF HasNegative
<1>9. low \in BOOLEAN
  OBVIOUS
<1> HIDE DEF e, low
<1> QED
  BY <1>4, <1>6, <1>7, <1>8, <1>9, ExactlyGives

(* All four, on any list of numbers in the order the code can do with.     *)
LEMMA AppliedExactly ==
    ASSUME NEW op, NEW g, Given(op, g)
    PROVE  Exactly(op, Applied(op, g), g)
<1>1. CASE op \in {"+", "*"}
  BY <1>1, SumsAndProducts
<1>2. CASE op \in {"-", "/"} /\ Len(g) > 1
  BY <1>2, DifferencesAndQuotients
<1>3. CASE op \in {"-", "/"} /\ ~(Len(g) > 1)
  <2>1. Len(g) = 1
    <3> DEFINE n == Len(g)
    <3>1. n \in Nat \ {0}
      BY GivenFacts
    <3>2. ~(n > 1)
      BY <1>3
    <3> HIDE DEF n
    <3>3. n = 1
      BY <3>1, <3>2
    <3> QED
      BY <3>3 DEF n
  <2> QED
    BY <1>3, <2>1, Negative, Inverted
<1> QED
  BY <1>1, <1>2, <1>3 DEF Given, Arithmetic
-----------------------------------------------------------------------------
(* The arithmetic is exact for any number of integers and rationals of any *)
(* size, given in one call or several: on integers, on rationals, and on   *)
(* rationals followed by integers (builtins.c:76-311).                     *)
THEOREM ArithmeticIsExact == BuiltinSpec => []ArithmeticExact
<1>1. IInv /\ GivenOK => ArithmeticExact
  <2> SUFFICES ASSUME IInv, GivenOK, IsCallOf(Arithmetic), called.given # <<>>,
                      Positive(called.given), RationalsFirst(called.given),
                      called.func = "/" /\ Len(called.given) = 1
                          => IsInt(called.given[1]) /\ called.given[1].n # 0
               PROVE  Exactly(called.func, Result, called.given)
    BY DEF ArithmeticExact
  <2>1. called.func \in Arithmetic /\ called.given \in Seq(Values)
    BY DEF IsCallOf, GivenOK
  <2>2. called.args[1] = called.given
    BY ListIsRead DEF IsCallOf
  <2>3. called.given \in Seq(Numbers)
    <3>1. Values \subseteq Numbers
      BY NumbersAssumption DEF Numbers
    <3> QED
      BY <2>1, <3>1, SeqMonotonic
  <2>4. Given(called.func, called.given)
    BY <2>1, <2>3 DEF Given
  <2> QED
    BY <2>2, <2>4, AppliedExactly DEF Result
<1>2. BuiltinInit => GivenOK
  BY DEF BuiltinInit, GivenOK
<1> QED
  BY <1>1, <1>2, BuiltinInvariance, GivenKept, PTL DEF BuiltinSpec
-----------------------------------------------------------------------------
(* Forms: the validator and the balance of brackets.                       *)

\* The states v of the validator, from the first to the last.
Checks(v, text) ==
    /\ v[0] = [valid |-> TRUE, stack |-> <<>>]
    /\ \A i \in 1 .. Len(text) : v[i] = Checked(v[i - 1], text[i])
    /\ CheckedAll(text) = v[Len(text)]

\* The recursive function of CheckedAll has a value for every prefix.
LEMMA ChecksExist ==
    ASSUME NEW text, Len(text) \in Nat
    PROVE  \E v : Checks(v, text)
<1> DEFINE s == [valid |-> TRUE, stack |-> <<>>]
           Is(f, n) == f = [i \in 0 .. n |-> IF i = 0 THEN s ELSE Checked(f[i - 1], text[i])]
           S == {n \in Nat : \E f : Is(f, n)}
<1>1. 0 \in S
  <2>1. Is([i \in 0 .. 0 |-> s], 0)
    OBVIOUS
  <2> QED
    BY <2>1
<1>2. ASSUME NEW n \in 1 .. Len(text), n - 1 \in S
      PROVE  n \in S
  <2>1. PICK f : Is(f, n - 1)
    BY <1>2
  <2> HIDE DEF s
  <2> DEFINE g == [i \in 0 .. n |-> IF i = n THEN Checked(f[n - 1], text[n]) ELSE f[i]]
             h == [i \in 0 .. n |-> IF i = 0 THEN s ELSE Checked(g[i - 1], text[i])]
  <2>2. ASSUME NEW i \in 0 .. n
        PROVE  g[i] = h[i]
    <3>1. h[i] = IF i = 0 THEN s ELSE Checked(g[i - 1], text[i])
      OBVIOUS
    <3>2. i # 0 => g[i - 1] = f[i - 1]
      OBVIOUS
    <3>3. i # n => i \in 0 .. n - 1 /\ g[i] = f[i]
      OBVIOUS
    <3>4. i = n => i # 0 /\ g[i] = Checked(f[i - 1], text[i])
      OBVIOUS
    <3>5. i # n => f[i] = IF i = 0 THEN s ELSE Checked(f[i - 1], text[i])
      BY <2>1, <3>3
    <3> HIDE DEF g, h
    <3> QED
      BY <3>1, <3>2, <3>3, <3>4, <3>5
  <2>3. g = h
    BY <2>2
  <2>4. Is(g, n)
    BY <2>3
  <2> HIDE DEF Is, g
  <2> QED
    BY <2>4
<1>3. PICK f : Is(f, Len(text))
  <2> HIDE DEF S
  <2>1. \A i \in 0 .. Len(text) : i \in S
    BY <1>1, <1>2, EveryTurn
  <2>2. Len(text) \in S
    BY <2>1
  <2> QED
    BY <2>2 DEF S
<1> DEFINE after == CHOOSE g : Is(g, Len(text))
<1>4. Is(after, Len(text))
  BY <1>3
<1>5. CheckedAll(text) = after[Len(text)]
  BY DEF CheckedAll
<1> HIDE DEF after, s
<1>6. after[0] = s /\ \A i \in 1 .. Len(text) : after[i] = Checked(after[i - 1], text[i])
  BY <1>4
<1> QED
  BY <1>5, <1>6 DEF Checks, s

\* What IsBalanced says of one span.
SpanIs(b, text, i, j) ==
    \/ i > j
    \/ ~IsBracket(text[i]) /\ b[<<i + 1, j>>]
    \/ \E k \in i + 1 .. j :
          <<text[i], text[k]>> \in Pairs /\ b[<<i + 1, k - 1>>] /\ b[<<k + 1, j>>]

Balances(b, text) ==
    /\ \A i \in 1 .. Len(text) + 1, j \in 0 .. Len(text) :
          b[<<i, j>>] = SpanIs(b, text, i, j)
    /\ IsBalanced(text) = b[<<1, Len(text)>>]

\* So has that of IsBalanced for every span.
LEMMA BalancesExist ==
    ASSUME NEW text, Len(text) \in Nat
    PROVE  \E b : Balances(b, text)
<1> DEFINE n == Len(text)
           Body(f, s) == SpanIs(f, text, s[1], s[2])
           Is(f, m) == /\ f = [s \in Spans(text) |-> f[s]]
                       /\ \A s \in Spans(text) : s[2] - s[1] + 1 <= m => f[s] = Body(f, s)
           S == {m \in Nat : \E f : Is(f, m)}
<1>0. \A s \in Spans(text) : /\ s[1] \in 1 .. n + 2 /\ s[2] \in 0 .. n /\ s = <<s[1], s[2]>>
                             /\ s[2] - s[1] + 1 <= n
  BY DEF Spans
<1>a. \A i \in 1 .. n + 2, j \in 0 .. n : /\ <<i, j>> \in Spans(text)
                                          /\ <<i, j>>[1] = i /\ <<i, j>>[2] = j
  BY DEF Spans
<1> HIDE DEF n
<1>n. n \in Nat
  BY DEF n
<1>b. ASSUME NEW f, NEW g, NEW m \in Nat, NEW s \in Spans(text), s[2] - s[1] + 1 <= m,
             \A t \in Spans(text) : t[2] - t[1] + 1 < m => f[t] = g[t]
      PROVE  Body(f, s) = Body(g, s)
  <2> DEFINE i == s[1]
             j == s[2]
  <2>1. i \in 1 .. n + 2 /\ j \in 0 .. n /\ j - i + 1 <= m
    BY <1>0, <1>b
  <2>2. ASSUME NEW p \in 1 .. n + 2, NEW q \in 0 .. n, q - p + 1 < m
        PROVE  f[<<p, q>>] = g[<<p, q>>]
    BY <1>a, <1>b, <2>2
  <2> HIDE DEF i, j
  <2>3. CASE i > j
    BY <2>3 DEF SpanIs, i, j
  <2>4. CASE i <= j
    <3>0. /\ i + 1 \in 1 .. n + 2 /\ j - (i + 1) + 1 < m
          /\ \A k \in i + 1 .. j :
                /\ k - 1 \in 0 .. n /\ k + 1 \in 1 .. n + 2
                /\ k - 1 - (i + 1) + 1 < m /\ j - (k + 1) + 1 < m
      BY <1>n, <2>1, <2>4
    <3>1. f[<<i + 1, j>>] = g[<<i + 1, j>>]
      BY <2>1, <2>2, <3>0
    <3>2. \A k \in i + 1 .. j : f[<<i + 1, k - 1>>] = g[<<i + 1, k - 1>>]
                                /\ f[<<k + 1, j>>] = g[<<k + 1, j>>]
      BY <2>1, <2>2, <3>0
    <3>3. SpanIs(f, text, i, j) = SpanIs(g, text, i, j)
      BY <3>1, <3>2 DEF SpanIs
    <3> QED
      BY <3>3 DEF i, j
  <2> QED
    BY <2>1, <2>3, <2>4
<1>1. 0 \in S
  <2> DEFINE f == [s \in Spans(text) |-> TRUE]
  <2>1. \A s \in Spans(text) : s[2] - s[1] + 1 <= 0 => f[s] = Body(f, s)
    <3> SUFFICES ASSUME NEW s \in Spans(text), s[2] - s[1] + 1 <= 0
                 PROVE  f[s] = Body(f, s)
      OBVIOUS
    <3>1. s[1] > s[2]
      BY <1>0, <1>n
    <3>2. Body(f, s) = TRUE
      BY <3>1 DEF SpanIs
    <3> QED
      BY <3>2
  <2>2. f = [s \in Spans(text) |-> f[s]]
    OBVIOUS
  <2>3. Is(f, 0)
    BY <2>1, <2>2
  <2> HIDE DEF Is, f
  <2> QED
    BY <2>3
<1>2. ASSUME NEW m \in 1 .. n, m - 1 \in S
      PROVE  m \in S
  <2>1. PICK f : Is(f, m - 1)
    BY <1>2
  <2> DEFINE g == [s \in Spans(text) |-> IF s[2] - s[1] + 1 = m THEN Body(f, s) ELSE f[s]]
  <2>2. \A s \in Spans(text) : g[s] = IF s[2] - s[1] + 1 = m THEN Body(f, s) ELSE f[s]
    OBVIOUS
  <2>3. g = [s \in Spans(text) |-> g[s]]
    OBVIOUS
  <2> HIDE DEF g
  <2>4. \A t \in Spans(text) : t[2] - t[1] + 1 < m => f[t] = g[t]
    BY <1>0, <1>n, <2>2
  <2>5. ASSUME NEW s \in Spans(text), s[2] - s[1] + 1 <= m
        PROVE  g[s] = Body(g, s)
    <3>1. Body(f, s) = Body(g, s)
      <4>1. m \in Nat
        BY <1>n
      <4> HIDE DEF Body
      <4> QED
        BY <1>b, <2>4, <2>5, <4>1
    <3>2. CASE s[2] - s[1] + 1 = m
      BY <2>2, <3>1, <3>2
    <3>3. CASE s[2] - s[1] + 1 # m
      <4>1. s[2] - s[1] + 1 <= m - 1
        <5>1. s[1] \in Int /\ s[2] \in Int
          BY <1>0, <1>n
        <5> QED
          BY <1>n, <2>5, <3>3, <5>1
      <4>2. f[s] = Body(f, s)
        BY <2>1, <4>1
      <4> HIDE DEF Body
      <4> QED
        BY <2>2, <3>1, <3>3, <4>2
    <3> QED
      BY <3>2, <3>3
  <2>6. Is(g, m)
    BY <2>3, <2>5
  <2> HIDE DEF Is
  <2> QED
    BY <1>n, <2>6
<1>3. PICK f : Is(f, n)
  <2> HIDE DEF S
  <2>1. \A i \in 0 .. n : i \in S
    BY <1>1, <1>2, <1>n, EveryTurn
  <2>2. n \in S
    BY <1>n, <2>1
  <2> QED
    BY <2>2 DEF S
<1> DEFINE Full(f1) == f1 = [s \in Spans(text) |->
                  \/ s[1] > s[2]
                  \/ ~IsBracket(text[s[1]]) /\ f1[<<s[1] + 1, s[2]>>]
                  \/ \E k \in s[1] + 1 .. s[2] :
                        /\ <<text[s[1]], text[k]>> \in Pairs
                        /\ f1[<<s[1] + 1, k - 1>>] /\ f1[<<k + 1, s[2]>>]]
<1>4. Full(f)
  <2>1. \A s \in Spans(text) : f[s] = Body(f, s)
    BY <1>0, <1>3
  <2>2. f = [s \in Spans(text) |-> Body(f, s)]
    BY <1>3, <2>1
  <2> QED
    BY <2>2 DEF SpanIs
<1> DEFINE balanced == CHOOSE b : Full(b)
<1>5. Full(balanced)
  BY <1>4
<1>6. IsBalanced(text) = balanced[<<1, Len(text)>>]
  BY DEF IsBalanced
<1> HIDE DEF balanced
<1>7. ASSUME NEW i \in 1 .. Len(text) + 1, NEW j \in 0 .. Len(text)
      PROVE  balanced[<<i, j>>] = SpanIs(balanced, text, i, j)
  <2> DEFINE s == <<i, j>>
  <2>1. s \in Spans(text) /\ s[1] = i /\ s[2] = j
    BY <1>a DEF n
  <2> HIDE DEF s
  <2>2. balanced[s] = SpanIs(balanced, text, s[1], s[2])
    BY <1>5, <2>1 DEF SpanIs
  <2> QED
    BY <2>1, <2>2 DEF s
<1> QED
  BY <1>6, <1>7 DEF Balances

-----------------------------------------------------------------------------
(* Forms: the run of the validator and the depth it counts.                *)

Openers == {"(", "["}
Closers == {")", "]"}
States == [valid : BOOLEAN, stack : Seq(Openers)]

\* From one state of the validator to the next, by token t.
Pushes(u, w, t) ==
    /\ t \in Openers /\ Len(u.stack) < VALIDATOR_STACK_SIZE
    /\ Len(w.stack) = Len(u.stack) + 1 /\ w.stack[Len(u.stack) + 1] = t
    /\ \A q \in 1 .. Len(u.stack) : w.stack[q] = u.stack[q]

Pops(u, w, t) ==
    /\ t \in Closers /\ Len(u.stack) > 0 /\ u.stack[Len(u.stack)] = Opposite(t)
    /\ Len(w.stack) = Len(u.stack) - 1
    /\ \A q \in 1 .. Len(w.stack) : w.stack[q] = u.stack[q]

Passes(u, w, t) == t \notin Openers \cup Closers /\ w.stack = u.stack

\* One token pushes, pops or is passed over, and each is valid when it may.
LEMMA CheckedFacts ==
    ASSUME NEW u \in States, NEW t \in Tokens
    PROVE  LET w == Checked(u, t)
           IN  /\ w \in States
               /\ w.valid => u.valid /\ (Pushes(u, w, t) \/ Pops(u, w, t) \/ Passes(u, w, t))
               /\ u.valid =>
                     /\ t \in Openers /\ Len(u.stack) < VALIDATOR_STACK_SIZE => w.valid
                     /\ t \in Closers /\ Len(u.stack) > 0
                           /\ u.stack[Len(u.stack)] = Opposite(t) => w.valid
                     /\ t \notin Openers \cup Closers => w.valid
<1> DEFINE w == Checked(u, t)
           s == u.stack
<1>1. s \in Seq(Openers) /\ Len(s) \in Nat /\ u.valid \in BOOLEAN /\ VALIDATOR_STACK_SIZE \in Nat
  BY FormsAssumption DEF States
<1>2. [u EXCEPT !.valid = FALSE] \in States /\ ~[u EXCEPT !.valid = FALSE].valid
  BY DEF States
<1>3. CASE ~u.valid
  BY <1>3 DEF Checked
<1>4. CASE u.valid /\ t \in Openers
  <2>0. t \in {"(", "["} /\ t \notin Closers
    BY <1>4 DEF Openers, Closers
  <2>1. CASE TooDeep(s)
    <3>1. w = [u EXCEPT !.valid = FALSE]
      BY <1>4, <2>0, <2>1 DEF Checked
    <3>2. ~(Len(s) < VALIDATOR_STACK_SIZE)
      BY <1>1, <2>1 DEF TooDeep
    <3> QED
      BY <1>2, <1>4, <2>0, <3>1, <3>2
  <2>2. CASE ~TooDeep(s)
    <3>1. w = [u EXCEPT !.stack = Append(s, t)]
      BY <1>4, <2>0, <2>2 DEF Checked
    <3>2. Append(s, t) \in Seq(Openers) /\ Len(Append(s, t)) = Len(s) + 1
          /\ Append(s, t)[Len(s) + 1] = t /\ \A q \in 1 .. Len(s) : Append(s, t)[q] = s[q]
      BY <1>1, <1>4
    <3>3. w \in States /\ w.valid /\ w.stack = Append(s, t)
      BY <1>4, <3>1, <3>2 DEF States
    <3>4. Len(s) < VALIDATOR_STACK_SIZE
      BY <1>1, <2>2 DEF TooDeep
    <3> HIDE DEF w
    <3>5. Pushes(u, w, t)
      BY <1>4, <3>2, <3>3, <3>4 DEF Pushes
    <3> QED
      BY <1>4, <2>0, <3>3, <3>5 DEF w
  <2> QED
    BY <2>1, <2>2
<1>5. CASE u.valid /\ t \in Closers
  <2>0. t \in {")", "]"} /\ t \notin {"(", "["} /\ t \notin Openers
    BY <1>5 DEF Openers, Closers
  <2>1. CASE s = <<>> \/ Last(s) # Opposite(t)
    <3>1. w = [u EXCEPT !.valid = FALSE]
      BY <1>5, <2>0, <2>1 DEF Checked
    <3>2. ~(Len(s) > 0 /\ s[Len(s)] = Opposite(t))
      BY <1>1, <2>1 DEF Last
    <3> QED
      BY <1>2, <1>5, <2>0, <3>1, <3>2
  <2>2. CASE ~(s = <<>> \/ Last(s) # Opposite(t))
    <3>1. w = [u EXCEPT !.stack = Front(s)]
      BY <1>5, <2>0, <2>2 DEF Checked
    <3>0. Len(s) > 0 /\ s[Len(s)] = Opposite(t)
      BY <1>1, <2>2 DEF Last
    <3>2. Front(s) \in Seq(Openers) /\ Len(Front(s)) = Len(s) - 1
          /\ \A q \in 1 .. Len(s) - 1 : Front(s)[q] = s[q]
      BY <1>1, <3>0 DEF Front
    <3>3. w \in States /\ w.valid /\ w.stack = Front(s)
      BY <1>5, <3>1, <3>2 DEF States
    <3> HIDE DEF w
    <3>5. Pops(u, w, t)
      BY <1>5, <3>0, <3>2, <3>3 DEF Pops
    <3> QED
      BY <1>5, <2>0, <3>3, <3>5 DEF w
  <2> QED
    BY <2>1, <2>2
<1>6. CASE u.valid /\ t \notin Openers \cup Closers
  <2>1. w = u
    BY <1>6 DEF Checked, Openers, Closers
  <2> QED
    BY <1>6, <2>1 DEF Passes
<1> QED
  BY <1>3, <1>4, <1>5, <1>6

\* The states v of the validator on the text, and what is so from each to the
\* next.
Machine(v, text) ==
    /\ v[0].valid /\ v[0].stack = <<>>
    /\ \A i \in 0 .. Len(text) : v[i] \in States
    /\ \A i \in 1 .. Len(text) :
          /\ v[i].valid => /\ v[i - 1].valid
                           /\ \/ Pushes(v[i - 1], v[i], text[i])
                              \/ Pops(v[i - 1], v[i], text[i])
                              \/ Passes(v[i - 1], v[i], text[i])
          /\ v[i - 1].valid =>
                /\ text[i] \in Openers /\ Len(v[i - 1].stack) < VALIDATOR_STACK_SIZE
                      => v[i].valid
                /\ text[i] \in Closers /\ Len(v[i - 1].stack) > 0
                      /\ v[i - 1].stack[Len(v[i - 1].stack)] = Opposite(text[i]) => v[i].valid
                /\ text[i] \notin Openers \cup Closers => v[i].valid

\* CheckedAll is such a run of the validator.
LEMMA MachineFacts ==
    ASSUME NEW text \in Seq(Tokens), NEW v, Checks(v, text)
    PROVE  Machine(v, text)
<1> DEFINE n == Len(text)
           S == {i \in 0 .. n : v[i] \in States}
<1>1. n \in Nat /\ (\A i \in 1 .. n : text[i] \in Tokens)
  OBVIOUS
<1>2. v[0] = [valid |-> TRUE, stack |-> <<>>]
  BY DEF Checks
<1>3. v[0] \in States /\ v[0].valid /\ v[0].stack = <<>>
  <2>1. <<>> \in Seq(Openers)
    OBVIOUS
  <2> QED
    BY <1>2, <2>1 DEF States
<1>4. \A i \in 1 .. n : v[i] = Checked(v[i - 1], text[i])
  BY DEF Checks
<1> HIDE DEF n
<1>5. 0 \in S
  BY <1>1, <1>3
<1>6. \A i \in 1 .. n : i - 1 \in S => i \in S
  <2> SUFFICES ASSUME NEW i \in 1 .. n, i - 1 \in S PROVE i \in S
    OBVIOUS
  <2>1. Checked(v[i - 1], text[i]) \in States
    BY <1>1, CheckedFacts
  <2> QED
    BY <1>1, <1>4, <2>1
<1>7. \A i \in 0 .. n : v[i] \in States
  <2> HIDE DEF S
  <2>1. \A i \in 0 .. n : i \in S
    BY <1>1, <1>5, <1>6, EveryTurn
  <2> QED
    BY <2>1 DEF S
<1>8. ASSUME NEW i \in 1 .. n
      PROVE  /\ v[i].valid => /\ v[i - 1].valid
                              /\ \/ Pushes(v[i - 1], v[i], text[i])
                                 \/ Pops(v[i - 1], v[i], text[i])
                                 \/ Passes(v[i - 1], v[i], text[i])
             /\ v[i - 1].valid =>
                   /\ text[i] \in Openers /\ Len(v[i - 1].stack) < VALIDATOR_STACK_SIZE
                         => v[i].valid
                   /\ text[i] \in Closers /\ Len(v[i - 1].stack) > 0
                         /\ v[i - 1].stack[Len(v[i - 1].stack)] = Opposite(text[i]) => v[i].valid
                   /\ text[i] \notin Openers \cup Closers => v[i].valid
  <2> DEFINE u == v[i - 1]
             t == text[i]
  <2>1. u \in States /\ t \in Tokens /\ v[i] = Checked(u, t)
    BY <1>1, <1>4, <1>7
  <2> HIDE DEF u, t
  <2>2. LET w == Checked(u, t)
        IN  /\ w \in States
            /\ w.valid => u.valid /\ (Pushes(u, w, t) \/ Pops(u, w, t) \/ Passes(u, w, t))
            /\ u.valid =>
                  /\ t \in Openers /\ Len(u.stack) < VALIDATOR_STACK_SIZE => w.valid
                  /\ t \in Closers /\ Len(u.stack) > 0
                        /\ u.stack[Len(u.stack)] = Opposite(t) => w.valid
                  /\ t \notin Openers \cup Closers => w.valid
    BY <2>1, CheckedFacts
  <2> QED
    BY <2>1, <2>2 DEF u, t
<1> QED
  BY <1>3, <1>7, <1>8 DEF Machine, n

\* What was refused once stays refused.
LEMMA ValidBefore ==
    ASSUME NEW text, Len(text) \in Nat, NEW v, Machine(v, text), NEW k \in 0 .. Len(text),
           v[k].valid
    PROVE  \A i \in 0 .. k : v[i].valid
<1> DEFINE S == {d \in 0 .. k : v[k - d].valid}
<1>1. 0 \in S
  OBVIOUS
<1>2. ASSUME NEW d \in 1 .. k, d - 1 \in S PROVE d \in S
  <2>1. k - (d - 1) \in 1 .. Len(text) /\ k - (d - 1) - 1 = k - d
    OBVIOUS
  <2>2. v[k - (d - 1)].valid
    BY <1>2
  <2> QED
    BY <2>1, <2>2 DEF Machine
<1> HIDE DEF S
<1>3. \A d \in 0 .. k : d \in S
  BY <1>1, <1>2, EveryTurn
<1>4. ASSUME NEW i \in 0 .. k PROVE v[i].valid
  <2>1. k - i \in 0 .. k /\ k - (k - i) = i
    OBVIOUS
  <2>2. k - i \in S
    BY <1>3, <2>1
  <2> QED
    BY <2>1, <2>2 DEF S
<1> QED
  BY <1>4

\* A prefix that is one token longer has that token more.
LEMMA CountStep ==
    ASSUME NEW text, NEW ts
    PROVE  /\ Count(text, 0, ts) = 0
           /\ \A n \in Nat : Count(text, n, ts) \in Nat
           /\ \A n \in Nat \ {0} :
                 Count(text, n, ts) = Count(text, n - 1, ts) + IF text[n] \in ts THEN 1 ELSE 0
<1> DEFINE C(n) == {i \in 1 .. n : text[i] \in ts}
<1>1. \A n \in Nat : IsFiniteSet(C(n))
  <2> SUFFICES ASSUME NEW n \in Nat PROVE IsFiniteSet(C(n))
    OBVIOUS
  <2>1. IsFiniteSet(1 .. n)
    BY FS_Interval
  <2>2. C(n) \in SUBSET (1 .. n)
    OBVIOUS
  <2> QED
    BY <2>1, <2>2, FS_Subset
<1>2. \A n \in Nat : Cardinality(C(n)) \in Nat
  BY <1>1, FS_CardinalityType
<1>3. ASSUME NEW n \in Nat \ {0}
      PROVE  Cardinality(C(n)) = Cardinality(C(n - 1)) + IF text[n] \in ts THEN 1 ELSE 0
  <2>0. n - 1 \in Nat /\ n \notin C(n - 1)
    OBVIOUS
  <2>1. CASE text[n] \in ts
    <3>1. C(n) = C(n - 1) \cup {n}
      BY <2>1
    <3>2. IsFiniteSet(C(n - 1))
      BY <1>1, <2>0
    <3> HIDE DEF C
    <3>3. Cardinality(C(n - 1) \cup {n}) = Cardinality(C(n - 1)) + 1
      BY <2>0, <3>2, FS_AddElement
    <3> QED
      BY <2>1, <3>1, <3>3
  <2>2. CASE text[n] \notin ts
    <3>1. C(n) = C(n - 1)
      BY <2>2
    <3>2. Cardinality(C(n - 1)) \in Nat
      BY <1>2, <2>0
    <3> HIDE DEF C
    <3> QED
      BY <2>2, <3>1, <3>2
  <2> QED
    BY <2>1, <2>2
<1>4. Cardinality(C(0)) = 0
  <2>1. C(0) = {}
    OBVIOUS
  <2> QED
    BY <2>1, FS_EmptySet
<1> QED
  BY <1>2, <1>3, <1>4 DEF Count

\* The depth goes up by an opening bracket and down by a closing one.
LEMMA DepthStep ==
    ASSUME NEW text
    PROVE  /\ Depth(text, 0) = 0
           /\ \A n \in Nat : Depth(text, n) \in Int
           /\ \A n \in Nat \ {0} :
                 Depth(text, n) = Depth(text, n - 1) +
                     (IF text[n] \in Openers THEN 1 ELSE IF text[n] \in Closers THEN -1 ELSE 0)
<1> DEFINE o(n) == Count(text, n, Openers)
           c(n) == Count(text, n, Closers)
<1>1. /\ o(0) = 0 /\ c(0) = 0 /\ \A n \in Nat : o(n) \in Nat /\ c(n) \in Nat
  BY CountStep
<1>2. \A n \in Nat \ {0} :
        /\ o(n) = o(n - 1) + IF text[n] \in Openers THEN 1 ELSE 0
        /\ c(n) = c(n - 1) + IF text[n] \in Closers THEN 1 ELSE 0
  <2>1. \A n \in Nat \ {0} : o(n) = o(n - 1) + IF text[n] \in Openers THEN 1 ELSE 0
    BY CountStep
  <2>2. \A n \in Nat \ {0} : c(n) = c(n - 1) + IF text[n] \in Closers THEN 1 ELSE 0
    BY CountStep
  <2> HIDE DEF o, c
  <2> QED
    BY <2>1, <2>2
<1>3. \A n : Depth(text, n) = o(n) - c(n)
  BY DEF Depth, Openers, Closers
<1> HIDE DEF o, c
<1>4. Depth(text, 0) = 0 /\ \A n \in Nat : Depth(text, n) \in Int
  BY <1>1, <1>3
<1>5. ASSUME NEW n \in Nat \ {0}
      PROVE  Depth(text, n) = Depth(text, n - 1) +
                 (IF text[n] \in Openers THEN 1 ELSE IF text[n] \in Closers THEN -1 ELSE 0)
  <2>1. n - 1 \in Nat /\ n \in Nat
    OBVIOUS
  <2>2. o(n - 1) \in Nat /\ c(n - 1) \in Nat
    BY <1>1, <2>1
  <2>3. text[n] \in Openers => text[n] \notin Closers
    BY DEF Openers, Closers
  <2> QED
    BY <1>2, <1>3, <2>2, <2>3
<1> QED
  BY <1>4, <1>5

(* The stack is as high as the brackets are deep.                          *)
LEMMA StackDepth ==
    ASSUME NEW text \in Seq(Tokens), NEW v, Machine(v, text), NEW k \in 0 .. Len(text), v[k].valid
    PROVE  /\ Len(v[k].stack) = Depth(text, k)
           /\ Len(v[k].stack) <= VALIDATOR_STACK_SIZE
<1> DEFINE S == {i \in 0 .. k : /\ Len(v[i].stack) = Depth(text, i)
                                /\ Len(v[i].stack) <= VALIDATOR_STACK_SIZE}
<1>0. Len(text) \in Nat /\ VALIDATOR_STACK_SIZE \in Nat /\ k \in Nat /\ 0 \in 0 .. k
  BY FormsAssumption
<1>1. 0 \in S
  <2>1. v[0].stack = <<>>
    BY DEF Machine
  <2>2. Len(v[0].stack) = 0
    BY <2>1
  <2>3. Depth(text, 0) = 0
    BY DepthStep
  <2>4. 0 <= VALIDATOR_STACK_SIZE
    BY <1>0
  <2> QED
    BY <1>0, <2>2, <2>3, <2>4
<1>2. ASSUME NEW i \in 1 .. k, i - 1 \in S PROVE i \in S
  <2> DEFINE u == v[i - 1]
             w == v[i]
             t == text[i]
             d == Depth(text, i - 1)
  <2>1. u \in States /\ w \in States /\ w.valid /\ i \in 1 .. Len(text)
    <3>1. w.valid
      BY <1>0, ValidBefore
    <3> QED
      BY <1>0, <3>1 DEF Machine
  <2>2. Pushes(u, w, t) \/ Pops(u, w, t) \/ Passes(u, w, t)
    BY <2>1 DEF Machine
  <2>3. Len(u.stack) = d /\ Len(u.stack) <= VALIDATOR_STACK_SIZE /\ Len(u.stack) \in Nat
    BY <1>2, <2>1 DEF States
  <2>4. Depth(text, i) = d + (IF t \in Openers THEN 1 ELSE IF t \in Closers THEN -1 ELSE 0)
    BY DepthStep
  <2>5. t \in Openers => t \notin Closers
    BY DEF Openers, Closers
  <2> HIDE DEF u, w, t, d
  <2>6. Len(w.stack) = Depth(text, i) /\ Len(w.stack) <= VALIDATOR_STACK_SIZE
    <3>1. CASE Pushes(u, w, t)
      BY <1>0, <2>3, <2>4, <3>1 DEF Pushes
    <3>2. CASE Pops(u, w, t)
      BY <1>0, <2>3, <2>4, <2>5, <3>2 DEF Pops
    <3>3. CASE Passes(u, w, t)
      BY <1>0, <2>3, <2>4, <3>3 DEF Passes
    <3> QED
      BY <2>2, <3>1, <3>2, <3>3
  <2> QED
    BY <1>0, <2>6 DEF w
<1> HIDE DEF S
<1>3. \A i \in 0 .. k : i \in S
  BY <1>0, <1>1, <1>2, EveryTurn
<1>4. k \in S
  BY <1>0, <1>3
<1> QED
  BY <1>4 DEF S

\* A pair is an opening bracket and the closing one it is the opposite of.
LEMMA PairFacts ==
    ASSUME NEW x, NEW y
    PROVE  /\ <<x, y>> \in Pairs => x \in Openers /\ y \in Closers /\ x = Opposite(y)
           /\ x \in Openers /\ y \in Closers /\ x = Opposite(y) => <<x, y>> \in Pairs
           /\ IsBracket(x) <=> x \in Openers \cup Closers
           /\ ~(x \in Openers /\ x \in Closers)
<1>1. <<x, y>> \in Pairs <=> (x = "(" /\ y = ")") \/ (x = "[" /\ y = "]")
  <2>1. <<x, y>> = <<"(", ")">> <=> x = "(" /\ y = ")"
    OBVIOUS
  <2>2. <<x, y>> = <<"[", "]">> <=> x = "[" /\ y = "]"
    OBVIOUS
  <2> QED
    BY <2>1, <2>2 DEF Pairs
<1>2. IsBracket(x) <=> x \in {"(", ")", "[", "]"}
  <2> DEFINE p == <<"(", ")">>
             q == <<"[", "]">>
  <2>1. p[1] = "(" /\ p[2] = ")" /\ q[1] = "[" /\ q[2] = "]"
    OBVIOUS
  <2>2. Pairs = {p, q}
    BY DEF Pairs
  <2> HIDE DEF p, q
  <2>3. IsBracket(x) <=> x \in {p[1], p[2]} \/ x \in {q[1], q[2]}
    BY <2>2 DEF IsBracket
  <2> QED
    BY <2>1, <2>3
<1> QED
  BY <1>1, <1>2 DEF Openers, Closers, Opposite

\* Equal stacks are equal on each level.
LEMMA SameStack ==
    ASSUME NEW s \in Seq(Openers), NEW t \in Seq(Openers), Len(s) = Len(t),
           \A q \in 1 .. Len(s) : s[q] = t[q]
    PROVE  s = t
  BY SeqEqual

(* A balanced span leaves the stack as it was, if there is room.           *)
LEMMA BalancedPasses ==
    ASSUME NEW text \in Seq(Tokens), NEW v, Machine(v, text), NEW b, Balances(b, text),
           IsShallow(text), NEW i \in 1 .. Len(text) + 1, NEW j \in i - 1 .. Len(text),
           b[<<i, j>>], v[i - 1].valid
    PROVE  v[j].valid /\ v[j].stack = v[i - 1].stack
<1> DEFINE n == Len(text)
           Good(p, q) == b[<<p, q>>] /\ v[p - 1].valid => v[q].valid /\ v[q].stack = v[p - 1].stack
           S == {m \in 0 .. n : \A p \in 1 .. n + 1, q \in 0 .. n :
                    q >= p - 1 /\ q - p + 1 <= m => Good(p, q)}
<1>0. n \in Nat /\ (\A p \in 1 .. n : text[p] \in Tokens)
  OBVIOUS
<1>1. 0 \in S
  <2>1. ASSUME NEW p \in 1 .. n + 1, NEW q \in 0 .. n, q >= p - 1, q - p + 1 <= 0
        PROVE  Good(p, q)
    <3>1. q = p - 1
      BY <1>0, <2>1
    <3> QED
      BY <3>1
  <2> HIDE DEF Good
  <2> QED
    BY <1>0, <2>1
<1>2. ASSUME NEW m \in 1 .. n, m - 1 \in S PROVE m \in S
  <2>0. m \in 0 .. n
    BY <1>0
  <2> SUFFICES ASSUME NEW p \in 1 .. n + 1, NEW q \in 0 .. n, q >= p - 1, q - p + 1 <= m,
                      b[<<p, q>>], v[p - 1].valid
               PROVE  v[q].valid /\ v[q].stack = v[p - 1].stack
    BY <2>0, Zenon
  <2>1. ASSUME NEW p1 \in 1 .. n + 1, NEW q1 \in 0 .. n, q1 >= p1 - 1, q1 - p1 + 1 <= m - 1,
               b[<<p1, q1>>], v[p1 - 1].valid
        PROVE  v[q1].valid /\ v[q1].stack = v[p1 - 1].stack
    BY <1>2, <2>1
  <2>a. ASSUME NEW p0 \in 0 .. n, NEW q1 \in 0 .. n, q1 >= p0, q1 - p0 <= m - 1,
               b[<<p0 + 1, q1>>], v[p0].valid
        PROVE  v[q1].valid /\ v[q1].stack = v[p0].stack
    <3>1. /\ p0 + 1 \in 1 .. n + 1 /\ q1 >= p0 + 1 - 1 /\ q1 - (p0 + 1) + 1 <= m - 1
          /\ p0 + 1 - 1 = p0
      BY <1>0, <2>a
    <3> QED
      BY <2>1, <2>a, <3>1
  <2>2. SpanIs(b, text, p, q)
    BY <1>0 DEF Balances
  <2>3. CASE p > q
    <3>1. q = p - 1
      BY <1>0, <2>3
    <3> QED
      BY <3>1
  <2>4. CASE p <= q /\ ~IsBracket(text[p]) /\ b[<<p + 1, q>>]
    <3>0. p \in 1 .. n /\ p \in 0 .. n /\ q >= p /\ q - p <= m - 1
      BY <1>0, <2>4
    <3>1. text[p] \notin Openers \cup Closers
      BY <2>4, PairFacts
    <3>2. v[p].valid /\ (Pushes(v[p - 1], v[p], text[p]) \/ Pops(v[p - 1], v[p], text[p])
                         \/ Passes(v[p - 1], v[p], text[p]))
      BY <3>0, <3>1 DEF Machine
    <3>3. v[p].stack = v[p - 1].stack
      BY <3>1, <3>2 DEF Pushes, Pops, Passes
    <3>4. v[q].valid /\ v[q].stack = v[p].stack
      BY <2>a, <2>4, <3>0, <3>2
    <3> QED
      BY <3>3, <3>4
  <2>5. ASSUME p <= q, NEW k \in p + 1 .. q, <<text[p], text[k]>> \in Pairs,
               b[<<p + 1, k - 1>>], b[<<k + 1, q>>]
        PROVE  v[q].valid /\ v[q].stack = v[p - 1].stack
    <3>0. /\ p \in 1 .. n /\ k \in 1 .. n /\ k - 1 \in 0 .. n
          /\ p \in 0 .. n /\ k \in 0 .. n /\ k - 1 >= p /\ k - 1 - p <= m - 1
          /\ q >= k /\ q - k <= m - 1 /\ p - 1 \in 0 .. n
      <4> HIDE DEF n
      <4>1. p \in Int /\ q \in Int /\ k \in Int /\ m \in Int /\ n \in Nat
            /\ 1 <= p /\ p + 1 <= k /\ k <= q /\ q <= n /\ q - p + 1 <= m
        BY <1>0, <2>5
      <4> QED
        BY <4>1
    <3>1. text[p] \in Openers /\ text[p] \notin Closers /\ text[k] \in Closers
          /\ text[k] \notin Openers /\ text[p] = Opposite(text[k])
      BY <2>5, PairFacts
    <3>2. Len(v[p - 1].stack) \in Nat /\ v[p - 1].stack \in Seq(Openers)
          /\ Len(v[p - 1].stack) < VALIDATOR_STACK_SIZE
      <4>1. Len(v[p - 1].stack) = Depth(text, p - 1)
        BY <3>0, StackDepth
      <4>2. Depth(text, p) = Depth(text, p - 1) + 1
        <5>1. p \in Nat \ {0}
          BY <3>0
        <5> QED
          BY <3>1, <5>1, DepthStep
      <4>3. Depth(text, p) <= VALIDATOR_STACK_SIZE
        BY <3>0 DEF IsShallow
      <4>4. v[p - 1].stack \in Seq(Openers)
        BY <3>0 DEF Machine, States
      <4>5. Len(v[p - 1].stack) \in Nat /\ VALIDATOR_STACK_SIZE \in Nat
        BY <4>4, FormsAssumption
      <4> QED
        BY <4>1, <4>2, <4>3, <4>4, <4>5
    <3>3. v[p].valid /\ Pushes(v[p - 1], v[p], text[p])
      <4>1. v[p].valid /\ (Pushes(v[p - 1], v[p], text[p]) \/ Pops(v[p - 1], v[p], text[p])
                           \/ Passes(v[p - 1], v[p], text[p]))
        BY <3>0, <3>1, <3>2 DEF Machine
      <4> QED
        BY <3>1, <4>1 DEF Pops, Passes
    <3>4. v[k - 1].valid /\ v[k - 1].stack = v[p].stack
      BY <2>a, <2>5, <3>0, <3>3
    <3>5. Len(v[p].stack) > 0 /\ v[p].stack[Len(v[p].stack)] = Opposite(text[k])
      BY <3>1, <3>2, <3>3 DEF Pushes
    <3>6. v[k].valid /\ Pops(v[k - 1], v[k], text[k])
      <4>1. v[k].valid /\ (Pushes(v[k - 1], v[k], text[k]) \/ Pops(v[k - 1], v[k], text[k])
                           \/ Passes(v[k - 1], v[k], text[k]))
        BY <3>0, <3>1, <3>4, <3>5 DEF Machine
      <4> QED
        BY <3>1, <4>1 DEF Pushes, Passes
    <3>7. v[k].stack = v[p - 1].stack
      <4> DEFINE s == v[k].stack
                 t == v[p - 1].stack
      <4>1. s \in Seq(Openers) /\ t \in Seq(Openers)
        <5>1. v[k] \in States
          BY <3>0 DEF Machine
        <5> QED
          BY <3>2, <5>1 DEF States
      <4>2. Len(s) = Len(t)
        BY <3>2, <3>3, <3>4, <3>6 DEF Pushes, Pops
      <4>3. \A x \in 1 .. Len(s) : s[x] = t[x]
        BY <3>2, <3>3, <3>4, <3>6, <4>2 DEF Pushes, Pops
      <4> HIDE DEF s, t
      <4>4. s = t
        BY <4>1, <4>2, <4>3, SameStack
      <4> QED
        BY <4>4 DEF s, t
    <3>8. v[q].valid /\ v[q].stack = v[k].stack
      BY <2>a, <2>5, <3>0, <3>6
    <3> QED
      BY <3>7, <3>8
  <2> QED
    <3>1. CASE p > q
      BY <2>3, <3>1
    <3>2. CASE ~(p > q) /\ ~IsBracket(text[p]) /\ b[<<p + 1, q>>]
      <4>1. p <= q
        BY <1>0, <3>2
      <4> QED
        BY <2>4, <3>2, <4>1
    <3>3. CASE ~(p > q) /\ ~(~IsBracket(text[p]) /\ b[<<p + 1, q>>])
      <4>1. p <= q
        BY <1>0, <3>3
      <4>2. PICK k \in p + 1 .. q :
                <<text[p], text[k]>> \in Pairs /\ b[<<p + 1, k - 1>>] /\ b[<<k + 1, q>>]
        BY <2>2, <3>3 DEF SpanIs
      <4> QED
        BY <2>5, <4>1, <4>2
    <3> QED
      BY <3>1, <3>2, <3>3
<1> HIDE DEF S
<1>3. \A m \in 0 .. n : m \in S
  BY <1>0, <1>1, <1>2, EveryTurn
<1>4. n \in S
  BY <1>0, <1>3
<1>5. j \in 0 .. n /\ j >= i - 1 /\ j - i + 1 <= n
  BY <1>0
<1> QED
  BY <1>4, <1>5 DEF S

\* The stack is nowhere lower than at a, from there to k.
Above(v, a, k) == \A m \in a .. k : Len(v[m].stack) >= Len(v[a].stack)

\* What is on the stack at a is still there at k.
StillThere(v, a, k) == \A q \in 1 .. Len(v[a].stack) : v[k].stack[q] = v[a].stack[q]

(* What lies under the top of the stack is untouched while the stack is    *)
(* not lower.                                                              *)
LEMMA StackBelow ==
    ASSUME NEW text \in Seq(Tokens), NEW v, Machine(v, text), NEW k \in 0 .. Len(text),
           v[k].valid, NEW a \in 0 .. k, Above(v, a, k)
    PROVE  StillThere(v, a, k)
<1> DEFINE h == Len(v[a].stack)
           Same(m) == \A q \in 1 .. h : v[m].stack[q] = v[a].stack[q]
           S == {d \in 0 .. k - a : Same(a + d)}
<1>0. Len(text) \in Nat /\ k \in Nat /\ a \in Nat /\ k - a \in Nat
  OBVIOUS
<1>1. \A m \in 0 .. k : v[m] \in States /\ v[m].valid /\ Len(v[m].stack) \in Nat
  <2>1. \A m \in 0 .. k : v[m] \in States
    BY <1>0 DEF Machine
  <2> QED
    BY <1>0, <2>1, ValidBefore DEF States
<1>2. 0 \in S
  BY <1>0
<1>3. ASSUME NEW d \in 1 .. k - a, d - 1 \in S PROVE d \in S
  <2> DEFINE u == v[a + d - 1]
             w == v[a + d]
             t == text[a + d]
  <2>0. a + d \in 1 .. Len(text) /\ a + d - 1 \in a .. k /\ a + d \in a .. k /\ a + (d - 1) = a + d - 1
        /\ a + d \in 0 .. k /\ a + d - 1 \in 0 .. k /\ a \in 0 .. k
    BY <1>0
  <2>1. w.valid /\ (Pushes(u, w, t) \/ Pops(u, w, t) \/ Passes(u, w, t))
    BY <1>1, <2>0 DEF Machine
  <2>2. Len(u.stack) >= h /\ Len(w.stack) >= h /\ h \in Nat /\ Len(u.stack) \in Nat
        /\ Len(w.stack) \in Nat
    BY <1>1, <2>0 DEF Above
  <2>3. \A q \in 1 .. h : u.stack[q] = v[a].stack[q]
    BY <1>3, <2>0
  <2> HIDE DEF u, w, t, h
  <2>4. \A q \in 1 .. h : w.stack[q] = u.stack[q]
    BY <2>1, <2>2 DEF Pushes, Pops, Passes
  <2>5. \A q \in 1 .. h : w.stack[q] = v[a].stack[q]
    BY <2>3, <2>4
  <2> QED
    BY <2>5 DEF w, h
<1> HIDE DEF S
<1>4. \A d \in 0 .. k - a : d \in S
  BY <1>0, <1>2, <1>3, EveryTurn
<1>5. k - a \in S /\ a + (k - a) = k
  BY <1>0, <1>4
<1> QED
  BY <1>5 DEF S, StillThere

(* A span that begins and ends with the stack at its lowest is balanced.   *)
LEMMA LowestBalanced ==
    ASSUME NEW text \in Seq(Tokens), NEW v, Machine(v, text), NEW b, Balances(b, text),
           NEW i \in 0 .. Len(text), NEW j \in i .. Len(text), v[j].valid,
           Len(v[j].stack) = Len(v[i].stack),
           \A m \in i .. j : Len(v[m].stack) >= Len(v[i].stack)
    PROVE  b[<<i + 1, j>>]
<1> DEFINE n == Len(text)
           Low(p, q) == /\ v[q].valid /\ Len(v[q].stack) = Len(v[p].stack)
                        /\ \A m \in p .. q : Len(v[m].stack) >= Len(v[p].stack)
           S == {d \in 0 .. n : \A p \in 0 .. n, q \in 0 .. n :
                    p <= q /\ q - p <= d /\ Low(p, q) => b[<<p + 1, q>>]}
<1>0. n \in Nat /\ (\A p \in 1 .. n : text[p] \in Tokens)
  OBVIOUS
<1>a. \A p, q \in 0 .. n : b[<<p + 1, q>>] = SpanIs(b, text, p + 1, q)
  <2> SUFFICES ASSUME NEW p \in 0 .. n, NEW q \in 0 .. n
               PROVE  b[<<p + 1, q>>] = SpanIs(b, text, p + 1, q)
    OBVIOUS
  <2>1. p + 1 \in 1 .. n + 1
    BY <1>0
  <2> QED
    BY <2>1 DEF Balances
<1>1. 0 \in S
  <2>1. ASSUME NEW p \in 0 .. n, NEW q \in 0 .. n, p <= q, q - p <= 0
        PROVE  b[<<p + 1, q>>]
    <3>1. p + 1 > q
      BY <1>0, <2>1
    <3> QED
      BY <1>a, <3>1 DEF SpanIs
  <2> HIDE DEF Low
  <2> QED
    BY <1>0, <2>1
<1>2. ASSUME NEW d \in 1 .. n, d - 1 \in S PROVE d \in S
  <2> SUFFICES ASSUME NEW p \in 0 .. n, NEW q \in 0 .. n, p <= q, q - p <= d, Low(p, q)
               PROVE  b[<<p + 1, q>>]
    BY <1>0
  <2>1. \A p1 \in 0 .. n, q1 \in 0 .. n :
            p1 <= q1 /\ q1 - p1 <= d - 1 /\ Low(p1, q1) => b[<<p1 + 1, q1>>]
    BY <1>2
  <2>2. \A m \in 0 .. q : v[m] \in States /\ v[m].valid /\ Len(v[m].stack) \in Nat
    <3>1. \A m \in 0 .. q : v[m] \in States
      BY <1>0 DEF Machine
    <3> QED
      BY <1>0, <3>1, ValidBefore DEF States
  <2>3. CASE p = q
    <3>1. p + 1 > q
      BY <1>0, <2>3
    <3> QED
      BY <1>a, <3>1 DEF SpanIs
  <2>4. CASE p < q
    <3> DEFINE h == Len(v[p].stack)
               t == text[p + 1]
    <3>0. /\ p + 1 \in 1 .. n /\ p + 1 - 1 = p /\ p \in 0 .. q /\ p + 1 \in 0 .. q /\ p + 1 \in p .. q
          /\ p + 1 \in 0 .. n /\ q \in 0 .. q /\ p + 1 <= q /\ q - (p + 1) <= d - 1
      BY <1>0, <2>4
    <3>1. h \in Nat /\ Len(v[p + 1].stack) \in Nat /\ Len(v[p + 1].stack) >= h
      BY <2>2, <3>0
    <3>2. \/ Pushes(v[p], v[p + 1], t)
          \/ Pops(v[p], v[p + 1], t)
          \/ Passes(v[p], v[p + 1], t)
      BY <2>2, <3>0 DEF Machine
    <3>3. ~Pops(v[p], v[p + 1], t)
      BY <3>1 DEF Pops
    <3>4. CASE Passes(v[p], v[p + 1], t)
      <4>1. Len(v[p + 1].stack) = h /\ ~IsBracket(t)
        BY <3>4, PairFacts DEF Passes
      <4>2. Low(p + 1, q)
        <5>1. \A m \in p + 1 .. q : m \in p .. q
          BY <1>0
        <5> QED
          BY <4>1, <5>1
      <4>3. b[<<p + 1 + 1, q>>]
        <5> HIDE DEF Low
        <5> QED
          BY <2>1, <3>0, <4>2
      <4>4. SpanIs(b, text, p + 1, q)
        BY <4>1, <4>3 DEF SpanIs
      <4> QED
        BY <1>a, <4>4
    <3>5. CASE Pushes(v[p], v[p + 1], t)
      <4> DEFINE K == {k \in p + 2 .. q : Len(v[k].stack) = h}
      <4>0. Len(v[p + 1].stack) = h + 1 /\ t \in Openers
        BY <3>5 DEF Pushes
      <4>1. q \in K
        <5>1. q # p + 1
          BY <3>1, <4>0
        <5>2. q \in p + 2 .. q
          BY <1>0, <3>0, <5>1
        <5> QED
          BY <5>2
      <4>2. PICK k \in K : \A y \in K : k <= y
        <5>1. K \in SUBSET Nat
          BY <1>0
        <5> HIDE DEF K
        <5> QED
          BY <4>1, <5>1, LeastNat
      <4>3. /\ k \in p + 2 .. q /\ Len(v[k].stack) = h
            /\ \A m \in p + 1 .. k - 1 : Len(v[m].stack) >= h + 1 /\ m \in p + 1 .. q
        <5>1. k \in p + 2 .. q /\ Len(v[k].stack) = h
          BY <4>2
        <5>2. ASSUME NEW m \in p + 1 .. k - 1
              PROVE  Len(v[m].stack) >= h + 1 /\ m \in p + 1 .. q
          <6>1. m \in p .. q /\ m \in 0 .. q /\ m \in p + 1 .. q /\ (m # p + 1 => m \in p + 2 .. q) /\ m < k
            BY <1>0, <5>1
          <6>2. m # p + 1 => m \notin K
            <7>1. k \in Int /\ m \in Int
              BY <1>0, <5>1
            <7> HIDE DEF K
            <7> QED
              BY <4>2, <6>1, <7>1
          <6>3. m # p + 1 => Len(v[m].stack) # h
            BY <6>1, <6>2
          <6>4. Len(v[m].stack) >= h /\ Len(v[m].stack) \in Nat
            BY <2>2, <6>1
          <6>5. CASE m = p + 1
            <7>1. Len(v[m].stack) = h + 1 /\ h \in Nat
              BY <3>1, <4>0, <6>5
            <7> HIDE DEF h
            <7> QED
              BY <6>1, <7>1
          <6>6. CASE m # p + 1
            <7>1. h \in Nat
              BY <3>1
            <7> DEFINE l == Len(v[m].stack)
            <7>2. l # h /\ l >= h /\ l \in Nat
              BY <6>3, <6>4, <6>6
            <7> HIDE DEF h, l
            <7>3. l >= h + 1
              BY <7>1, <7>2
            <7> QED
              BY <6>1, <7>3 DEF l
          <6> QED
            BY <6>5, <6>6
        <5> QED
          BY <5>1, <5>2
      <4> HIDE DEF K, h
      <4>4. /\ k \in 1 .. n /\ k - 1 \in p + 1 .. k - 1 /\ k - 1 \in 0 .. q /\ k \in 0 .. q /\ k \in 0 .. n
            /\ k - 1 \in 0 .. n /\ p + 1 <= k - 1 /\ k - 1 - (p + 1) <= d - 1 /\ k <= q /\ q - k <= d - 1
            /\ k - 1 + 1 = k /\ k \in p + 1 + 1 .. q /\ p + 1 \in 0 .. k - 1
        <5>1. p \in Nat /\ q \in Nat /\ n \in Nat /\ q <= n /\ k \in Int /\ p + 2 <= k /\ k <= q /\ q - p <= d
              /\ d \in Nat
          BY <1>0, <4>3
        <5> HIDE DEF n
        <5> QED
          BY <5>1
      <4>5. Pops(v[k - 1], v[k], text[k])
        <5>1. \/ Pushes(v[k - 1], v[k], text[k])
              \/ Pops(v[k - 1], v[k], text[k])
              \/ Passes(v[k - 1], v[k], text[k])
          BY <2>2, <4>4 DEF Machine
        <5>2. Len(v[k - 1].stack) >= h + 1 /\ Len(v[k].stack) = h /\ Len(v[k - 1].stack) \in Nat
          BY <2>2, <4>3, <4>4
        <5> DEFINE l == Len(v[k - 1].stack)
                   m == Len(v[k].stack)
        <5>3. l >= h + 1 /\ m = h /\ l \in Nat /\ h \in Nat
          BY <3>1, <5>2
        <5>4. m # l + 1 /\ m # l
          <6> HIDE DEF l, m
          <6> QED
            BY <5>3
        <5> QED
          BY <5>1, <5>4 DEF Pushes, Passes
      <4>6. Len(v[k - 1].stack) = h + 1
        <5>1. Len(v[k - 1].stack) \in Nat
          BY <2>2, <4>4
        <5> QED
          BY <4>3, <4>5, <5>1 DEF Pops
      <4>7. v[k - 1].stack[h + 1] = t
        <5>1. \A m \in p + 1 .. k - 1 : Len(v[m].stack) >= Len(v[p + 1].stack)
          BY <4>0, <4>3
        <5>2. v[k - 1].valid
          BY <2>2, <4>4
        <5>3. \A x \in 1 .. Len(v[p + 1].stack) : v[k - 1].stack[x] = v[p + 1].stack[x]
          <6> DEFINE e == k - 1
                     a == p + 1
          <6>1. e \in 0 .. Len(text) /\ a \in 0 .. e /\ v[e].valid
            BY <4>4, <5>2
          <6>2. Above(v, a, e)
            BY <5>1 DEF Above
          <6> HIDE DEF e, a, n, Low, S
          <6>3. StillThere(v, a, e)
            BY <6>1, <6>2, StackBelow
          <6> QED
            BY <6>3 DEF e, a, StillThere
        <5>4. v[p + 1].stack[h + 1] = t
          BY <3>5 DEF Pushes, h
        <5> QED
          BY <3>1, <4>0, <5>3, <5>4
      <4>8. <<t, text[k]>> \in Pairs
        <5>1. text[k] \in Closers /\ t = Opposite(text[k])
          BY <4>5, <4>6, <4>7 DEF Pops
        <5> QED
          BY <4>0, <5>1, PairFacts
      <4>9. b[<<p + 1 + 1, k - 1>>]
        <5>1. Low(p + 1, k - 1)
          <6>1. v[k - 1].valid
            BY <2>2, <4>4
          <6> QED
            BY <4>0, <4>3, <4>6, <6>1
        <5> HIDE DEF Low
        <5> QED
          BY <2>1, <3>0, <4>4, <5>1
      <4>10. b[<<k + 1, q>>]
        <5>1. Low(k, q)
          <6>1. \A m \in k .. q : m \in p .. q
            BY <1>0, <4>3
          <6> QED
            BY <4>3, <6>1 DEF h
        <5> HIDE DEF Low
        <5> QED
          BY <2>1, <4>4, <5>1
      <4>11. SpanIs(b, text, p + 1, q)
        BY <4>4, <4>8, <4>9, <4>10 DEF SpanIs
      <4> QED
        BY <1>a, <4>11
    <3> QED
      BY <3>2, <3>3, <3>4, <3>5
  <2> QED
    BY <1>0, <2>3, <2>4
<1> HIDE DEF S
<1>3. \A d \in 0 .. n : d \in S
  BY <1>0, <1>1, <1>2, EveryTurn
<1>4. n \in S
  BY <1>0, <1>3
<1>5. j \in 0 .. n /\ i <= j /\ j - i <= n
  BY <1>0
<1>6. Low(i, j)
  OBVIOUS
<1> QED
  BY <1>4, <1>5, <1>6 DEF S

(* No bracket is open at the end of a text without a fault exactly if the  *)
(* text is shallow and balanced.                                           *)
LEMMA ValidExactly ==
    ASSUME NEW text \in Seq(Tokens)
    PROVE  LET c == CheckedAll(text)
           IN  /\ c \in States
               /\ c.valid => IsShallow(text) /\ Len(c.stack) = Depth(text, Len(text))
               /\ c.valid /\ c.stack = <<>> => IsBalanced(text)
               /\ IsShallow(text) /\ IsBalanced(text) => c.valid /\ c.stack = <<>>
<1> DEFINE n == Len(text)
           c == CheckedAll(text)
<1>0. n \in Nat
  OBVIOUS
<1>1. PICK v : Checks(v, text)
  BY <1>0, ChecksExist
<1>2. Machine(v, text)
  BY <1>1, MachineFacts
<1>3. PICK b : Balances(b, text)
  BY <1>0, BalancesExist
<1>4. c = v[n] /\ c \in States /\ n \in 0 .. n /\ 0 \in 0 .. n
  <2>1. c = v[n]
    BY <1>1 DEF Checks
  <2>2. v[n] \in States
    BY <1>0, <1>2 DEF Machine
  <2> HIDE DEF c
  <2> QED
    BY <1>0, <2>1, <2>2
<1>5. IsBalanced(text) = b[<<1, n>>] /\ v[0].valid /\ v[0].stack = <<>>
  BY <1>2, <1>3 DEF Balances, Machine
<1> HIDE DEF c
<1>6. ASSUME c.valid
      PROVE  IsShallow(text) /\ Len(c.stack) = Depth(text, n)
  <2>1. \A m \in 0 .. n : v[m].valid
    BY <1>0, <1>2, <1>4, <1>6, ValidBefore
  <2>2. \A m \in 0 .. n : Len(v[m].stack) = Depth(text, m) /\ Len(v[m].stack) <= VALIDATOR_STACK_SIZE
    BY <1>2, <2>1, StackDepth
  <2>3. IsShallow(text)
    <3>1. ASSUME NEW m \in 1 .. n PROVE Depth(text, m) <= VALIDATOR_STACK_SIZE
      <4>1. m \in 0 .. n
        BY <1>0
      <4> QED
        BY <2>2, <4>1
    <3> QED
      BY <3>1 DEF IsShallow
  <2> QED
    BY <1>4, <2>2, <2>3
<1>7. ASSUME c.valid, c.stack = <<>>
      PROVE  IsBalanced(text)
  <2> DEFINE z == 0
  <2>1. z \in 0 .. Len(text) /\ n \in z .. Len(text) /\ v[n].valid /\ z + 1 = 1
    BY <1>0, <1>4, <1>7
  <2>2. Len(v[z].stack) = 0 /\ Len(v[n].stack) = 0
    BY <1>4, <1>5, <1>7
  <2>3. \A m \in z .. n : Len(v[m].stack) >= Len(v[z].stack)
    <3>1. ASSUME NEW m \in z .. n PROVE Len(v[m].stack) \in Nat
      <4>1. v[m] \in States
        BY <1>2 DEF Machine
      <4> QED
        BY <4>1 DEF States
    <3> HIDE DEF z
    <3>2. \A m \in z .. n : Len(v[m].stack) >= 0
      BY <3>1
    <3> QED
      BY <2>2, <3>2
  <2> HIDE DEF z, n
  <2>4. b[<<z + 1, n>>]
    BY <1>2, <1>3, <2>1, <2>2, <2>3, LowestBalanced
  <2> QED
    BY <1>5, <2>1, <2>4
<1>8. ASSUME IsShallow(text), IsBalanced(text)
      PROVE  c.valid /\ c.stack = <<>>
  <2> DEFINE e == 1
  <2>1. e \in 1 .. Len(text) + 1 /\ n \in e - 1 .. Len(text) /\ e - 1 = 0 /\ b[<<e, n>>] /\ v[e - 1].valid
    BY <1>0, <1>5, <1>8
  <2> HIDE DEF e, n
  <2>2. v[n].valid /\ v[n].stack = v[e - 1].stack
    BY <1>2, <1>3, <1>8, <2>1, BalancedPasses
  <2> QED
    BY <1>4, <1>5, <2>1, <2>2
<1> QED
  BY <1>4, <1>6, <1>7, <1>8 DEF c

\* The text with closing brackets after it.
LEMMA Joined ==
    ASSUME NEW text \in Seq(Tokens), NEW more \in Seq(Closers)
    PROVE  /\ text \o more \in Seq(Tokens)
           /\ Len(text \o more) = Len(text) + Len(more)
           /\ \A i \in 1 .. Len(text) : (text \o more)[i] = text[i]
           /\ \A i \in 1 .. Len(more) : (text \o more)[Len(text) + i] = more[i]
<1>1. Closers \subseteq Tokens
  BY DEF Closers, Tokens
<1>2. more \in Seq(Tokens)
  BY <1>1
<1> QED
  BY <1>2

\* The validator is where it was after the text, whatever follows.
LEMMA SamePrefix ==
    ASSUME NEW text \in Seq(Tokens), NEW more \in Seq(Closers),
           NEW v, Checks(v, text), NEW w, Checks(w, text \o more)
    PROVE  \A i \in 0 .. Len(text) : w[i] = v[i]
<1> DEFINE n == Len(text)
           S == {i \in 0 .. n : w[i] = v[i]}
<1>0. n \in Nat /\ Len(more) \in Nat
  OBVIOUS
<1>1. 0 \in S
  BY <1>0 DEF Checks
<1>2. ASSUME NEW i \in 1 .. n, i - 1 \in S PROVE i \in S
  <2>1. i \in 1 .. Len(text \o more) /\ (text \o more)[i] = text[i]
    BY <1>0, Joined
  <2>2. w[i] = Checked(w[i - 1], text[i]) /\ v[i] = Checked(v[i - 1], text[i])
    BY <2>1 DEF Checks
  <2> QED
    BY <1>0, <1>2, <2>2
<1> HIDE DEF S
<1>3. \A i \in 0 .. n : i \in S
  BY <1>0, <1>1, <1>2, EveryTurn
<1> QED
  BY <1>3 DEF S

\* There are no more brackets open than there are tokens.
LEMMA DepthBound ==
    ASSUME NEW text, NEW n \in Nat
    PROVE  Depth(text, n) <= n
<1> DEFINE S == {i \in 0 .. n : Depth(text, i) <= i}
<1>1. 0 \in S
  BY DepthStep
<1>2. ASSUME NEW i \in 1 .. n, i - 1 \in S PROVE i \in S
  <2> DEFINE d == Depth(text, i - 1)
  <2>1. d \in Int /\ d <= i - 1
    <3>1. i - 1 \in Nat
      OBVIOUS
    <3> QED
      BY <1>2, <3>1, DepthStep
  <2>2. Depth(text, i) = d + (IF text[i] \in Openers THEN 1 ELSE IF text[i] \in Closers THEN -1 ELSE 0)
    <3>1. i \in Nat \ {0}
      OBVIOUS
    <3> QED
      BY <3>1, DepthStep
  <2> HIDE DEF d
  <2>3. Depth(text, i) <= i
    BY <2>1, <2>2
  <2> QED
    BY <2>3
<1> HIDE DEF S
<1>3. \A i \in 0 .. n : i \in S
  BY <1>1, <1>2, EveryTurn
<1>4. n \in S
  BY <1>3
<1> QED
  BY <1>4 DEF S

\* Closing brackets add no depth.
LEMMA ShallowJoined ==
    ASSUME NEW text \in Seq(Tokens), Len(text) > 0, NEW more \in Seq(Closers), IsShallow(text)
    PROVE  IsShallow(text \o more)
<1> DEFINE n == Len(text)
           m == Len(more)
           long == text \o more
           S == {i \in 0 .. n : Depth(long, i) = Depth(text, i)}
           R == {i \in 0 .. m : Depth(long, n + i) <= VALIDATOR_STACK_SIZE}
<1>0. n \in Nat /\ m \in Nat /\ n \in 1 .. n /\ VALIDATOR_STACK_SIZE \in Nat /\ n \in 0 .. n
  BY FormsAssumption
<1>1. /\ Len(long) = n + m
      /\ \A i \in 1 .. n : long[i] = text[i]
      /\ \A i \in 1 .. m : long[n + i] = more[i]
  BY Joined
<1>m. \A i \in 1 .. m : more[i] \in Closers
  OBVIOUS
<1> HIDE DEF n, m, long
<1>2. 0 \in S
  BY <1>0, DepthStep
<1>3. ASSUME NEW i \in 1 .. n, i - 1 \in S PROVE i \in S
  <2>1. i \in Nat \ {0} /\ i \in 0 .. n
    BY <1>0
  <2> HIDE DEF S
  <2>2. /\ Depth(long, i) = Depth(long, i - 1) +
              (IF text[i] \in Openers THEN 1 ELSE IF text[i] \in Closers THEN -1 ELSE 0)
        /\ Depth(text, i) = Depth(text, i - 1) +
              (IF text[i] \in Openers THEN 1 ELSE IF text[i] \in Closers THEN -1 ELSE 0)
    <3>1. long[i] = text[i]
      BY <1>1
    <3> QED
      BY <2>1, <3>1, DepthStep
  <2>3. Depth(long, i - 1) = Depth(text, i - 1)
    BY <1>3 DEF S
  <2>4. Depth(long, i) = Depth(text, i)
    BY <2>2, <2>3
  <2> QED
    BY <2>1, <2>4 DEF S
<1>4. \A i \in 0 .. n : Depth(long, i) = Depth(text, i)
  <2> HIDE DEF S
  <2>1. \A i \in 0 .. n : i \in S
    BY <1>0, <1>2, <1>3, EveryTurn
  <2> QED
    BY <2>1 DEF S
<1>5. \A i \in 1 .. n : Depth(text, i) <= VALIDATOR_STACK_SIZE
  BY DEF IsShallow, n
<1>6. 0 \in R
  <2>1. Depth(long, n) <= VALIDATOR_STACK_SIZE /\ n + 0 = n
    BY <1>0, <1>4, <1>5
  <2> QED
    BY <1>0, <2>1
<1>7. ASSUME NEW i \in 1 .. m, i - 1 \in R PROVE i \in R
  <2>1. n + i \in Nat \ {0} /\ n + (i - 1) = n + i - 1 /\ n + i - 1 \in Nat /\ i \in 0 .. m
    BY <1>0
  <2>2. long[n + i] \in Closers /\ long[n + i] \notin Openers
    BY <1>1, <1>m DEF Closers, Openers
  <2> DEFINE e == n + i
  <2>3. Depth(long, e) = Depth(long, e - 1) - 1 /\ Depth(long, e - 1) \in Int
    <3>1. e \in Nat \ {0} /\ e - 1 \in Nat /\ long[e] \in Closers /\ long[e] \notin Openers
      BY <2>1, <2>2
    <3> HIDE DEF e
    <3>2. Depth(long, e) = Depth(long, e - 1) +
              (IF long[e] \in Openers THEN 1 ELSE IF long[e] \in Closers THEN -1 ELSE 0)
      BY <3>1, DepthStep
    <3>3. Depth(long, e - 1) \in Int
      BY <3>1, DepthStep
    <3> QED
      BY <3>1, <3>2, <3>3
  <2>4. Depth(long, e - 1) <= VALIDATOR_STACK_SIZE
    <3>1. n + (i - 1) = e - 1
      BY <1>0
    <3>2. Depth(long, n + (i - 1)) <= VALIDATOR_STACK_SIZE
      BY <1>7
    <3> HIDE DEF e
    <3> QED
      BY <3>1, <3>2
  <2>5. Depth(long, e) <= VALIDATOR_STACK_SIZE
    <3> HIDE DEF e
    <3> QED
      BY <1>0, <2>3, <2>4
  <2> QED
    BY <2>1, <2>5
<1>8. \A i \in 0 .. m : Depth(long, n + i) <= VALIDATOR_STACK_SIZE
  <2> HIDE DEF R
  <2>1. \A i \in 0 .. m : i \in R
    BY <1>0, <1>6, <1>7, EveryTurn
  <2> QED
    BY <2>1 DEF R
<1>9. ASSUME NEW i \in 1 .. Len(long) PROVE Depth(long, i) <= VALIDATOR_STACK_SIZE
  <2>1. CASE i <= n
    <3>1. i \in 1 .. n /\ i \in 0 .. n
      BY <1>0, <2>1
    <3> QED
      BY <1>4, <1>5, <3>1
  <2>2. CASE i > n
    <3>1. i - n \in 0 .. m /\ n + (i - n) = i
      BY <1>0, <1>1, <2>2
    <3> QED
      BY <1>8, <3>1
  <2> QED
    BY <1>0, <2>1, <2>2
<1> QED
  BY <1>9 DEF IsShallow, long

-----------------------------------------------------------------------------
(* Forms: brackets that close what is open.                                *)

CloserOf(t) == IF t = "(" THEN ")" ELSE "]"

\* The brackets that close what is open on the stack s.
ClosersOf(s) == [i \in 1 .. Len(s) |-> CloserOf(s[Len(s) + 1 - i])]

\* The brackets that close what is on a stack, in order.
LEMMA ClosersOfFacts ==
    ASSUME NEW s \in Seq(Openers)
    PROVE  /\ ClosersOf(s) \in Seq(Closers) /\ Len(ClosersOf(s)) = Len(s)
           /\ \A i \in 1 .. Len(s) : ClosersOf(s)[i] \in Closers
                                     /\ Opposite(ClosersOf(s)[i]) = s[Len(s) + 1 - i]
<1>0. Len(s) \in Nat
  OBVIOUS
<1>1. ASSUME NEW i \in 1 .. Len(s)
      PROVE  /\ CloserOf(s[Len(s) + 1 - i]) \in Closers
             /\ Opposite(CloserOf(s[Len(s) + 1 - i])) = s[Len(s) + 1 - i]
  <2> DEFINE e == Len(s) + 1 - i
  <2>1. e \in 1 .. Len(s)
    BY <1>0
  <2> HIDE DEF e
  <2>2. s[e] \in Openers
    BY <2>1
  <2>3. s[e] \in {"(", "["}
    BY <2>2 DEF Openers
  <2>4. CloserOf(s[e]) \in Closers /\ Opposite(CloserOf(s[e])) = s[e]
    BY <2>3 DEF CloserOf, Closers, Opposite
  <2> QED
    BY <2>4 DEF e
<1>2. \A i \in 1 .. Len(s) : ClosersOf(s)[i] = CloserOf(s[Len(s) + 1 - i])
  BY DEF ClosersOf
<1>3. ClosersOf(s) \in [1 .. Len(s) -> Closers]
  BY <1>1 DEF ClosersOf
<1>4. ClosersOf(s) \in Seq(Closers) /\ Len(ClosersOf(s)) = Len(s)
  BY <1>0, <1>3
<1> QED
  BY <1>1, <1>2, <1>4

(* These brackets, one by one, empty the stack.                            *)
LEMMA ClosersClose ==
    ASSUME NEW text \in Seq(Tokens), CheckedAll(text).valid
    PROVE  LET c == CheckedAll(text \o ClosersOf(CheckedAll(text).stack))
           IN  c.valid /\ c.stack = <<>>
<1> DEFINE n == Len(text)
           s == CheckedAll(text).stack
           l == Len(s)
           more == ClosersOf(s)
           long == text \o more
<1>1. s \in Seq(Openers) /\ CheckedAll(text) \in States
  BY ValidExactly DEF States
<1>2. PICK v : Checks(v, text)
  BY ChecksExist
<1>3. /\ ClosersOf(s) \in Seq(Closers) /\ Len(ClosersOf(s)) = l
      /\ \A i \in 1 .. l : ClosersOf(s)[i] \in Closers
                           /\ Opposite(ClosersOf(s)[i]) = s[l + 1 - i]
  BY <1>1, ClosersOfFacts
<1>4. /\ long \in Seq(Tokens) /\ Len(long) = n + l
      /\ \A i \in 1 .. l : long[n + i] = ClosersOf(s)[i]
  <2>1. more \in Seq(Closers) /\ Len(more) = l
    BY <1>3
  <2> HIDE DEF more, l
  <2>2. /\ long \in Seq(Tokens) /\ Len(long) = n + l
        /\ \A i \in 1 .. l : long[n + i] = more[i]
    BY <2>1, Joined
  <2> QED
    BY <2>2 DEF more
<1>5. PICK w : Checks(w, long)
  <2> HIDE DEF long
  <2>1. Len(long) \in Nat
    BY <1>4
  <2> QED
    BY <2>1, ChecksExist
<1>6. Machine(w, long)
  BY <1>4, <1>5, MachineFacts
<1>7. n \in Nat /\ l \in Nat
  BY <1>1
<1>8. w[n] = CheckedAll(text)
  <2>1. \A i \in 0 .. n : w[i] = v[i]
    BY <1>2, <1>3, <1>5, SamePrefix
  <2> QED
    BY <1>7, <2>1, <1>2 DEF Checks
<1>9. CheckedAll(long) = w[n + l]
  BY <1>4, <1>5 DEF Checks
<1> DEFINE Left(i) == /\ w[n + i].valid /\ Len(w[n + i].stack) = l - i
                      /\ \A q \in 1 .. l - i : w[n + i].stack[q] = s[q]
           S == {i \in 0 .. l : Left(i)}
<1>a. \A i \in 1 .. l : long[n + i] \in Closers /\ Opposite(long[n + i]) = s[l + 1 - i]
  BY <1>3, <1>4
<1>b. w[n].stack = s /\ w[n].valid
  BY <1>8
<1>c. \A i \in 1 .. n + l :
          /\ w[i].valid => /\ w[i - 1].valid
                           /\ \/ Pushes(w[i - 1], w[i], long[i])
                              \/ Pops(w[i - 1], w[i], long[i])
                              \/ Passes(w[i - 1], w[i], long[i])
          /\ w[i - 1].valid /\ long[i] \in Closers /\ Len(w[i - 1].stack) > 0
                /\ w[i - 1].stack[Len(w[i - 1].stack)] = Opposite(long[i]) => w[i].valid
  BY <1>4, <1>6 DEF Machine
<1> HIDE DEF n, s, l, long, more
<1>10. 0 \in S
  <2>1. n + 0 = n /\ l - 0 = l /\ 0 \in 0 .. l
    BY <1>7
  <2> QED
    BY <1>b, <2>1 DEF l
<1>11. ASSUME NEW i \in 1 .. l, i - 1 \in S PROVE i \in S
  <2> DEFINE e == n + i
             k == l - i
             u == w[e - 1]
             x == w[e]
             t == long[e]
  <2>0. e \in 1 .. n + l /\ n + (i - 1) = e - 1 /\ l - (i - 1) = k + 1 /\ k \in Nat
        /\ l + 1 - i = k + 1 /\ i \in 0 .. l
    BY <1>7
  <2>1. u.valid /\ Len(u.stack) = k + 1 /\ \A q \in 1 .. k + 1 : u.stack[q] = s[q]
    BY <1>11, <2>0
  <2>2. t \in Closers /\ Opposite(t) = s[k + 1]
    BY <1>a, <2>0
  <2>3. u.stack[k + 1] = Opposite(t)
    <3>1. k + 1 \in 1 .. k + 1
      BY <2>0
    <3> QED
      BY <2>1, <2>2, <3>1
  <2>4. x.valid /\ (Pushes(u, x, t) \/ Pops(u, x, t) \/ Passes(u, x, t))
    <3>1. Len(u.stack) > 0
      BY <2>0, <2>1
    <3>2. u.stack[Len(u.stack)] = Opposite(t)
      BY <2>1, <2>3
    <3>3. x.valid
      BY <1>c, <2>0, <2>1, <2>2, <3>1, <3>2
    <3> QED
      BY <1>c, <2>0, <3>3
  <2> HIDE DEF e, k, u, x, t
  <2>5. Pops(u, x, t)
    BY <2>2, <2>4, PairFacts DEF Pushes, Passes
  <2>6. Len(x.stack) = k /\ \A q \in 1 .. k : x.stack[q] = s[q]
    <3>1. Len(x.stack) = k
      BY <2>0, <2>1, <2>5 DEF Pops
    <3> QED
      BY <2>0, <2>1, <2>5, <3>1 DEF Pops
  <2>7. Left(i)
    BY <2>4, <2>6 DEF e, k, x
  <2> QED
    BY <2>0, <2>7
<1>12. l \in S
  <2> HIDE DEF S
  <2>1. \A i \in 0 .. l : i \in S
    BY <1>7, <1>10, <1>11, EveryTurn
  <2> QED
    BY <1>7, <2>1
<1>13. w[n + l].valid /\ Len(w[n + l].stack) = 0
  BY <1>7, <1>12
<1>14. w[n + l] \in States
  <2>1. n + l \in 0 .. Len(long)
    BY <1>4, <1>7 DEF long, n, l
  <2> QED
    BY <1>6, <2>1 DEF Machine
<1>15. w[n + l].stack = <<>>
  <2>1. w[n + l].stack \in Seq(Openers)
    BY <1>14 DEF States
  <2> QED
    BY <1>13, <2>1
<1> QED
  BY <1>9, <1>13, <1>15 DEF long, s, more

(* Brackets are open at the end of a text without a fault exactly if the   *)
(* text is shallow and some closing brackets would balance it.             *)
LEMMA PartialExactly ==
    ASSUME NEW text \in Seq(Tokens)
    PROVE  LET c == CheckedAll(text)
           IN  /\ c.valid /\ c.stack # <<>> => IsPartial(text)
               /\ IsShallow(text) /\ IsPartial(text) => c.valid /\ c.stack # <<>>
<1> DEFINE n == Len(text)
           c == CheckedAll(text)
           s == c.stack
<1>0. n \in Nat /\ s \in Seq(Openers) /\ Len(s) \in Nat
  BY ValidExactly DEF States
<1>1. ASSUME c.valid, s # <<>>
      PROVE  IsPartial(text)
  <2>1. Len(s) \in 1 .. n
    <3>1. Len(s) # 0
      <4> HIDE DEF s
      <4> QED
        BY <1>0, <1>1
    <3>2. Len(s) = Depth(text, n)
      BY <1>1, ValidExactly
    <3>3. Depth(text, n) <= n
      BY <1>0, DepthBound
    <3> HIDE DEF s, n
    <3> QED
      BY <1>0, <3>1, <3>2, <3>3
  <2>2. ~IsBalanced(text)
    <3>1. IsShallow(text)
      BY <1>1, ValidExactly
    <3>2. ~(IsShallow(text) /\ IsBalanced(text))
      BY <1>1, ValidExactly
    <3> QED
      BY <3>1, <3>2
  <2>3. IsBalanced(text \o ClosersOf(s))
    <3> DEFINE long == text \o ClosersOf(s)
    <3>1. long \in Seq(Tokens)
      BY <1>0, ClosersOfFacts, Joined
    <3>2. CheckedAll(long).valid /\ CheckedAll(long).stack = <<>>
      BY <1>1, ClosersClose
    <3> HIDE DEF long
    <3>3. IsBalanced(long)
      BY <3>1, <3>2, ValidExactly
    <3> QED
      BY <3>3 DEF long
  <2> HIDE DEF s
  <2> DEFINE cs == ClosersOf(s)
             closing == [i \in 1 .. n |-> IF i <= Len(s) THEN cs[i] ELSE ")"]
  <2>4. cs \in Seq(Closers) /\ Len(cs) = Len(s)
    BY <1>0, ClosersOfFacts
  <2> HIDE DEF cs
  <2>5. closing \in [1 .. n -> {")", "]"}]
    <3>1. \A i \in 1 .. n : (IF i <= Len(s) THEN cs[i] ELSE ")") \in {")", "]"}
      <4> SUFFICES ASSUME NEW i \in 1 .. n, i <= Len(s) PROVE cs[i] \in {")", "]"}
        OBVIOUS
      <4>1. i \in 1 .. Len(cs)
        BY <1>0, <2>4
      <4>2. cs[i] \in Closers
        BY <2>4, <4>1
      <4> QED
        BY <4>2 DEF Closers
    <3> QED
      BY <3>1
  <2>6. SubSeq(closing, 1, Len(s)) = cs
    <3> DEFINE sub == SubSeq(closing, 1, Len(s))
    <3>1. closing \in Seq({")", "]"}) /\ Len(closing) = n
      BY <1>0, <2>5
    <3>2. \A i \in 1 .. Len(s) : closing[i] = cs[i]
      BY <1>0, <2>1
    <3> HIDE DEF closing
    <3>3. sub \in Seq({")", "]"}) /\ Len(sub) = Len(s) /\ \A i \in 1 .. Len(s) : sub[i] = closing[i]
      BY <1>0, <2>1, <3>1
    <3> HIDE DEF sub
    <3>4. sub = cs
      <4>1. cs \in Seq({")", "]"})
        BY <2>4 DEF Closers
      <4> QED
        BY <2>4, <3>2, <3>3, <4>1, SeqEqual
    <3> QED
      BY <3>4 DEF sub
  <2>7. IsBalanced(text \o SubSeq(closing, 1, Len(s)))
    BY <2>3, <2>6 DEF cs
  <2> HIDE DEF closing
  <2> QED
    BY <2>1, <2>2, <2>5, <2>7 DEF IsPartial
<1>2. ASSUME IsShallow(text), IsPartial(text)
      PROVE  c.valid /\ s # <<>>
  <2>1. PICK closing \in [1 .. n -> {")", "]"}], m \in 1 .. n :
            IsBalanced(text \o SubSeq(closing, 1, m))
    BY <1>2 DEF IsPartial
  <2>2. ~IsBalanced(text)
    BY <1>2 DEF IsPartial
  <2> DEFINE more == SubSeq(closing, 1, m)
             long == text \o more
  <2>3. more \in Seq(Closers) /\ n > 0
    <3>1. closing \in Seq(Closers) /\ Len(closing) = n
      BY <1>0 DEF Closers
    <3> QED
      BY <1>0, <3>1
  <2> HIDE DEF more
  <2>4. long \in Seq(Tokens) /\ Len(long) = n + Len(more) /\ Len(more) \in Nat
    BY <2>3, Joined
  <2>5. IsShallow(long) /\ IsBalanced(long)
    BY <1>2, <2>1, <2>3, ShallowJoined DEF more
  <2>6. PICK v : Checks(v, text)
    BY <1>0, ChecksExist
  <2>7. PICK w : Checks(w, long)
    <3> HIDE DEF long
    <3>1. Len(long) \in Nat
      BY <1>0, <2>4
    <3> QED
      BY <3>1, ChecksExist
  <2>8. w[n] = v[n]
    BY <1>0, <2>3, <2>6, <2>7, SamePrefix
  <2> HIDE DEF long
  <2>9. w[Len(long)].valid
    <3>1. CheckedAll(long).valid
      BY <2>4, <2>5, ValidExactly
    <3> QED
      BY <2>7, <3>1 DEF Checks
  <2>10. w[n].valid
    <3>1. Machine(w, long)
      BY <2>4, <2>7, MachineFacts
    <3>2. Len(long) \in 0 .. Len(long) /\ n \in 0 .. Len(long) /\ Len(long) \in Nat
      BY <1>0, <2>4
    <3> QED
      BY <2>9, <3>1, <3>2, ValidBefore
  <2>11. c = v[n]
    BY <2>6 DEF Checks
  <2>12. c.valid
    BY <2>8, <2>10, <2>11
  <2>13. s # <<>>
    BY <2>2, <2>12, ValidExactly
  <2> QED
    BY <2>12, <2>13
<1> QED
  BY <1>1, <1>2

(* Stu_is_valid_form says of every text what VerdictExact says of the      *)
(* form.                                                                   *)
LEMMA VerdictOf ==
    ASSUME NEW text \in Seq(Tokens)
    PROVE  Stu_is_valid_form(text) =
               CASE IsShallow(text) /\ IsBalanced(text) -> "valid"
                 [] IsShallow(text) /\ IsPartial(text) -> "partial"
                 [] OTHER -> "invalid"
<1> DEFINE c == CheckedAll(text)
<1>1. c.valid \in BOOLEAN
  BY ValidExactly DEF States
<1>2. c.valid /\ c.stack = <<>> <=> IsShallow(text) /\ IsBalanced(text)
  <2>1. c.valid => IsShallow(text)
    BY ValidExactly
  <2>2. c.valid /\ c.stack = <<>> => IsBalanced(text)
    BY ValidExactly
  <2>3. IsShallow(text) /\ IsBalanced(text) => c.valid /\ c.stack = <<>>
    BY ValidExactly
  <2> QED
    BY <2>1, <2>2, <2>3
<1>3. c.valid /\ c.stack # <<>> <=> IsShallow(text) /\ IsPartial(text)
  <2>1. c.valid => IsShallow(text)
    BY ValidExactly
  <2>2. c.valid /\ c.stack # <<>> => IsPartial(text)
    BY PartialExactly
  <2>3. IsShallow(text) /\ IsPartial(text) => c.valid /\ c.stack # <<>>
    BY PartialExactly
  <2> QED
    BY <2>1, <2>2, <2>3
<1> HIDE DEF c
<1>4. Stu_is_valid_form(text) = CASE ~c.valid -> "invalid"
                                  [] c.valid /\ c.stack # <<>> -> "partial"
                                  [] c.valid /\ c.stack = <<>> -> "valid"
  BY DEF Stu_is_valid_form, c
<1>5. CASE c.valid /\ c.stack = <<>>
  BY <1>2, <1>3, <1>4, <1>5
<1>6. CASE c.valid /\ c.stack # <<>>
  BY <1>2, <1>3, <1>4, <1>6
<1>7. CASE ~c.valid
  BY <1>2, <1>3, <1>4, <1>7
<1> QED
  BY <1>5, <1>6, <1>7

-----------------------------------------------------------------------------
(* Forms: the session at the prompt.                                       *)

(* What is typed in the state of main's loop: outside the reading of a     *)
(* form nothing is asked for, and between two forms nothing has been read. *)
FormsInv ==
    /\ control \in {"read", "submit", "over"}
    /\ form \in Seq(Tokens) /\ typed \in Seq(Tokens) /\ submitted \in Seq(Tokens)
    /\ __cont \in BOOLEAN /\ ended \in BOOLEAN
    /\ typed = submitted \o (IF control = "read" THEN form ELSE <<>>)
    /\ __cont => control = "read"
    /\ control = "read" => (__cont <=> Stu_is_valid_form(form) = "partial")
    /\ control = "read" /\ ~__cont => form = <<>>
    /\ control = "over" => form = <<>>
    /\ control = "submit" /\ ~ended => Stu_is_valid_form(form) # "partial"

\* More is asked for exactly when closing brackets would complete the text.
LEMMA PartialIs ==
    ASSUME NEW text \in Seq(Tokens)
    PROVE  Stu_is_valid_form(text) = "partial" <=> IsShallow(text) /\ IsPartial(text)
<1>1. IsPartial(text) => ~IsBalanced(text)
  BY DEF IsPartial
<1>2. CASE IsShallow(text) /\ IsBalanced(text)
  <2>1. ~IsPartial(text)
    BY <1>1, <1>2
  <2> QED
    BY <1>2, <2>1, VerdictOf
<1>3. CASE ~(IsShallow(text) /\ IsBalanced(text)) /\ IsShallow(text) /\ IsPartial(text)
  BY <1>3, VerdictOf
<1>4. CASE ~(IsShallow(text) /\ IsBalanced(text)) /\ ~(IsShallow(text) /\ IsPartial(text))
  BY <1>4, VerdictOf
<1> QED
  BY <1>2, <1>3, <1>4

\* An empty text asks for nothing.
LEMMA NothingIsWhole ==
    <<>> \in Seq(Tokens) /\ Stu_is_valid_form(<<>>) # "partial"
<1>1. <<>> \in Seq(Tokens) /\ Len(<<>>) = 0
  OBVIOUS
<1>2. ~IsPartial(<<>>)
  <2>1. 1 .. Len(<<>>) = {}
    BY <1>1
  <2> QED
    BY <2>1 DEF IsPartial
<1> QED
  BY <1>1, <1>2, PartialIs

\* Every line is a text.
LEMMA LinesAreTexts == \A n \in Nat : Texts(n) \subseteq Seq(Tokens)
<1> SUFFICES ASSUME NEW n \in Nat, NEW k \in 0 .. n, NEW line \in [1 .. k -> Tokens]
             PROVE  line \in Seq(Tokens)
  BY DEF Texts
<1> QED
  OBVIOUS

\* The inductive invariant holds at first.
LEMMA FormsInvInit == Init => FormsInv
<1>1. <<>> \in Seq(Tokens) /\ <<>> = <<>> \o <<>>
  OBVIOUS
<1> QED
  BY <1>1, NothingIsWhole DEF Init, FormsInv

(* Every step of the session keeps it.                                     *)
LEMMA FormsInvNext == FormsInv /\ [Next]_vars => FormsInv'
<1> SUFFICES ASSUME FormsInv, [Next]_vars PROVE FormsInv'
  OBVIOUS
<1>0. <<>> \in Seq(Tokens) /\ \A s \in Seq(Tokens) : s \o <<>> = s /\ <<>> \o s = s
  OBVIOUS
<1>1. ASSUME NEW line \in Texts(LineLength), ReadLine(line) PROVE FormsInv'
  <2>1. line \in Seq(Tokens)
    BY LinesAreTexts, FormsAssumption
  <2>2. form' = form \o line /\ typed' = typed \o line /\ control = "read" /\ typed = submitted \o form
        /\ ended' = FALSE
    BY <1>1 DEF ReadLine, FormsInv
  <2>3. form' \in Seq(Tokens) /\ typed' \in Seq(Tokens) /\ submitted \in Seq(Tokens)
        /\ typed' = submitted \o form'
    <3>1. form \in Seq(Tokens) /\ typed \in Seq(Tokens) /\ submitted \in Seq(Tokens)
      BY DEF FormsInv
    <3>2. (submitted \o form) \o line = submitted \o (form \o line)
      BY <2>1, <3>1
    <3> QED
      BY <2>1, <2>2, <3>1, <3>2
  <2>4. CASE AsksForMore(form', line)
    <3>1. __cont' = TRUE /\ control' = "read" /\ submitted' = submitted
      BY <1>1, <2>2, <2>4 DEF ReadLine
    <3>2. Stu_is_valid_form(form') = "partial"
      BY <2>4 DEF AsksForMore
    <3> QED
      BY <2>2, <2>3, <3>1, <3>2 DEF FormsInv
  <2>5. CASE ~AsksForMore(form', line)
    <3>1. __cont' = FALSE /\ control' = "submit" /\ submitted' = submitted \o form'
      BY <1>1, <2>2, <2>5 DEF ReadLine
    <3>2. Stu_is_valid_form(form') # "partial"
      BY <2>5 DEF AsksForMore
    <3>3. submitted' \in Seq(Tokens) /\ typed' = submitted' \o <<>>
      BY <1>0, <2>3, <3>1
    <3> QED
      BY <2>2, <2>3, <3>1, <3>2, <3>3 DEF FormsInv
  <2> QED
    BY <2>4, <2>5
<1>2. ASSUME EndInForm PROVE FormsInv'
  <2>1. submitted' \in Seq(Tokens) /\ typed' = submitted' \o <<>>
    <3>1. submitted' = submitted \o form /\ typed' = typed /\ typed = submitted \o form
      BY <1>2 DEF EndInForm, FormsInv
    <3>2. submitted \o form \in Seq(Tokens)
      BY DEF FormsInv
    <3> QED
      BY <1>0, <3>1, <3>2
  <2> QED
    BY <1>2, <2>1 DEF EndInForm, FormsInv
<1>3. ASSUME Bye PROVE FormsInv'
  <2>1. form = <<>> /\ form' = <<>> /\ control' = "over"
    BY <1>3 DEF Bye, FormsInv
  <2> QED
    BY <1>0, <1>3, <2>1 DEF Bye, FormsInv
<1>4. ASSUME Eval PROVE FormsInv'
  BY <1>0, <1>4, NothingIsWhole DEF Eval, FormsInv
<1>5. ASSUME Restart PROVE FormsInv'
  BY <1>0, <1>5, NothingIsWhole DEF Restart, FormsInv
<1>6. ASSUME UNCHANGED vars PROVE FormsInv'
  BY <1>6 DEF vars, FormsInv
<1> QED
  BY <1>1, <1>2, <1>3, <1>4, <1>5, <1>6 DEF Next

(* In every state of a session, what has been typed is what was submitted  *)
(* and the form being read, and the prompt continues (__cont) exactly      *)
(* while Stu_is_valid_form says "partial" of the form.                     *)
THEOREM FormsInductive == Spec => []FormsInv
  BY FormsInvInit, FormsInvNext, PTL DEF Spec

(* Stu_is_valid_form decides balance: for every text of every length and   *)
(* every VALIDATOR_STACK_SIZE, it says "valid" exactly of balanced text,   *)
(* "partial" exactly of text that some closing brackets would balance, as  *)
(* long as the text is not nested deeper than its stack.                   *)
THEOREM VerdictIsExact == Spec => []VerdictExact
<1>1. FormsInv => VerdictExact
  BY VerdictOf DEF FormsInv, VerdictExact
<1> QED
  BY <1>1, FormsInductive, PTL

(* Prompt_readline hands on every token typed once, in order, and cuts the *)
(* input only where no bracket is open, unless it ends there.              *)
THEOREM InputIsCutBetweenForms == Spec => []CutsBetweenForms
<1>1. FormsInv => CutsBetweenForms
  BY PartialIs DEF FormsInv, CutsBetweenForms
<1> QED
  BY <1>1, FormsInductive, PTL

-----------------------------------------------------------------------------
(* Forms: what the grammar derives.                                        *)

Nonterminals == {"form", "forms"}

\* What the grammar says of one span, by what d says of smaller ones.
DerivedBy(d, text, what, i, j) ==
    IF what = "forms"
    THEN i > j \/ \E k \in i .. j : d[<<"form", <<i, k>>>>] /\ d[<<"forms", <<k + 1, j>>>>]
    ELSE /\ i <= j
         /\ \/ text[i] = "a" /\ i = j
            \/ text[i] = "'" /\ d[<<"form", <<i + 1, j>>>>]
            \/ <<text[i], text[j]>> \in Pairs /\ d[<<"forms", <<i + 1, j - 1>>>>]

Derives(d, text) ==
    /\ \A what \in Nonterminals, i \in 1 .. Len(text) + 1, j \in 0 .. Len(text) :
          d[<<what, <<i, j>>>>] = DerivedBy(d, text, what, i, j)
    /\ \A what \in Nonterminals : InGrammar(what, text) = d[<<what, <<1, Len(text)>>>>]

\* Forms come last among the spans of a length, for they begin with a form.
Rank(what, i, j) == 2 * (j - i + 1) + IF what = "forms" THEN 1 ELSE 0

SameBelow(f, g, n, what, i, j) ==
    \A w \in Nonterminals, p \in 1 .. n + 2, q \in 0 .. n :
        Rank(w, p, q) < Rank(what, i, j) => f[<<w, <<p, q>>>>] = g[<<w, <<p, q>>>>]

\* What the grammar says of a span depends on what is of a lower rank only.
LEMMA RankDecides ==
    ASSUME NEW n \in Nat, NEW text, NEW f, NEW g, NEW what \in Nonterminals,
           NEW i \in 1 .. n + 2, NEW j \in 0 .. n,
           SameBelow(f, g, n, what, i, j)
    PROVE  DerivedBy(f, text, what, i, j) = DerivedBy(g, text, what, i, j)
<1>1. ASSUME NEW w \in Nonterminals, NEW p \in 1 .. n + 2, NEW q \in 0 .. n,
             Rank(w, p, q) < Rank(what, i, j)
      PROVE  f[<<w, <<p, q>>>>] = g[<<w, <<p, q>>>>]
  BY <1>1 DEF SameBelow
<1>2. CASE what = "forms"
  <2>1. ASSUME NEW k \in i .. j
        PROVE  /\ f[<<"form", <<i, k>>>>] = g[<<"form", <<i, k>>>>]
               /\ f[<<"forms", <<k + 1, j>>>>] = g[<<"forms", <<k + 1, j>>>>]
    <3>1. /\ k \in 0 .. n /\ k + 1 \in 1 .. n + 2
          /\ Rank("form", i, k) < Rank(what, i, j) /\ Rank("forms", k + 1, j) < Rank(what, i, j)
      BY <1>2 DEF Rank
    <3>2. "form" \in Nonterminals /\ "forms" \in Nonterminals
      BY DEF Nonterminals
    <3>3. f[<<"form", <<i, k>>>>] = g[<<"form", <<i, k>>>>]
      BY <1>1, <3>1, <3>2
    <3>4. f[<<"forms", <<k + 1, j>>>>] = g[<<"forms", <<k + 1, j>>>>]
      BY <1>1, <3>1, <3>2
    <3> QED
      BY <3>3, <3>4
  <2> QED
    BY <1>2, <2>1 DEF DerivedBy
<1>3. CASE what # "forms" /\ i <= j
  <2>1. /\ i + 1 \in 1 .. n + 2 /\ j - 1 \in 0 .. n
        /\ Rank("form", i + 1, j) < Rank(what, i, j) /\ Rank("forms", i + 1, j - 1) < Rank(what, i, j)
    BY <1>3 DEF Rank
  <2>2. "form" \in Nonterminals /\ "forms" \in Nonterminals
    BY DEF Nonterminals
  <2>3. f[<<"form", <<i + 1, j>>>>] = g[<<"form", <<i + 1, j>>>>]
    BY <1>1, <2>1, <2>2
  <2>4. f[<<"forms", <<i + 1, j - 1>>>>] = g[<<"forms", <<i + 1, j - 1>>>>]
    BY <1>1, <2>1, <2>2
  <2> QED
    BY <1>3, <2>3, <2>4 DEF DerivedBy
<1>4. CASE what # "forms" /\ ~(i <= j)
  BY <1>4 DEF DerivedBy
<1> QED
  BY <1>2, <1>3, <1>4

\* The recursive function of InGrammar has a value for every span.
LEMMA GrammarExists ==
    ASSUME NEW text, Len(text) \in Nat
    PROVE  \E d : Derives(d, text)
<1> DEFINE n == Len(text)
           D == Nonterminals \X Spans(text)
           RankOf(s) == Rank(s[1], s[2][1], s[2][2])
           Body(f, s) == DerivedBy(f, text, s[1], s[2][1], s[2][2])
           Is(f, m) == /\ f = [s \in D |-> f[s]]
                       /\ \A s \in D : RankOf(s) < m => f[s] = Body(f, s)
           S == {m \in Nat : \E f : Is(f, m)}
<1>a. \A w \in Nonterminals, i \in 1 .. n + 2, j \in 0 .. n :
          /\ <<w, <<i, j>>>> \in D /\ <<w, <<i, j>>>>[1] = w
          /\ <<w, <<i, j>>>>[2][1] = i /\ <<w, <<i, j>>>>[2][2] = j
  BY DEF Spans
<1>b. \A s \in D : /\ s[1] \in Nonterminals /\ s[2][1] \in 1 .. n + 2 /\ s[2][2] \in 0 .. n
                   /\ s = <<s[1], <<s[2][1], s[2][2]>>>>
  BY DEF Spans
<1>n. n \in Nat
  OBVIOUS
<1>c. \A s \in D : RankOf(s) \in Int /\ RankOf(s) <= 2 * n + 1
  <2> SUFFICES ASSUME NEW s \in D PROVE RankOf(s) \in Int /\ RankOf(s) <= 2 * n + 1
    OBVIOUS
  <2> DEFINE i == s[2][1]
             j == s[2][2]
  <2>1. i \in 1 .. n + 2 /\ j \in 0 .. n
    BY <1>b
  <2> HIDE DEF i, j, n, D
  <2>2. Rank(s[1], i, j) \in Int /\ Rank(s[1], i, j) <= 2 * n + 1
    BY <1>n, <2>1 DEF Rank
  <2> QED
    BY <2>2 DEF i, j
<1> HIDE DEF n, D
<1>d. ASSUME NEW f, NEW g, NEW s \in D, \A t \in D : RankOf(t) < RankOf(s) => f[t] = g[t]
      PROVE  Body(f, s) = Body(g, s)
  <2> DEFINE what == s[1]
             i == s[2][1]
             j == s[2][2]
  <2>1. what \in Nonterminals /\ i \in 1 .. n + 2 /\ j \in 0 .. n
    BY <1>b
  <2>2. ASSUME NEW w \in Nonterminals, NEW p \in 1 .. n + 2, NEW q \in 0 .. n,
               Rank(w, p, q) < Rank(what, i, j)
        PROVE  f[<<w, <<p, q>>>>] = g[<<w, <<p, q>>>>]
    <3> DEFINE t == <<w, <<p, q>>>>
    <3>1. t \in D /\ t[1] = w /\ t[2][1] = p /\ t[2][2] = q
      BY <1>a
    <3> HIDE DEF t
    <3>2. f[t] = g[t]
      BY <1>d, <2>2, <3>1
    <3> QED
      BY <3>2 DEF t
  <2> HIDE DEF what, i, j
  <2>3. DerivedBy(f, text, what, i, j) = DerivedBy(g, text, what, i, j)
    <3>1. SameBelow(f, g, n, what, i, j)
      BY <2>2 DEF SameBelow
    <3> QED
      BY <1>n, <2>1, <3>1, RankDecides
  <2> QED
    BY <2>3 DEF what, i, j
<1> HIDE DEF RankOf, Body
\* There are spans of negative rank, beyond the end of the text.
<1>0. 0 \in S
  <2> DEFINE f == [s \in D |-> s[1] = "forms"]
  <2>1. f = [s \in D |-> f[s]]
    OBVIOUS
  <2>2. ASSUME NEW s \in D, RankOf(s) < 0 PROVE f[s] = Body(f, s)
    <3>1. s[2][1] > s[2][2]
      <4> DEFINE i == s[2][1]
                 j == s[2][2]
      <4>1. i \in 1 .. n + 2 /\ j \in 0 .. n /\ Rank(s[1], i, j) < 0
        BY <1>b, <2>2 DEF RankOf
      <4> HIDE DEF i, j
      <4>2. i > j
        BY <1>n, <4>1 DEF Rank
      <4> QED
        BY <4>2 DEF i, j
    <3>2. ~(s[2][1] <= s[2][2])
      <4>1. s[2][1] \in Int /\ s[2][2] \in Int
        BY <1>b, <1>n
      <4> QED
        BY <3>1, <4>1
    <3>3. Body(f, s) = (s[1] = "forms")
      BY <3>1, <3>2 DEF Body, DerivedBy
    <3> QED
      BY <3>3
  <2>3. Is(f, 0)
    BY <2>1, <2>2
  <2> HIDE DEF Is, f
  <2> QED
    BY <2>3
<1>2. ASSUME NEW m \in 1 .. 2 * n + 2, m - 1 \in S
      PROVE  m \in S
  <2>1. PICK f : Is(f, m - 1)
    BY <1>2
  <2> DEFINE g == [s \in D |-> IF RankOf(s) = m - 1 THEN Body(f, s) ELSE f[s]]
  <2>2. \A s \in D : g[s] = IF RankOf(s) = m - 1 THEN Body(f, s) ELSE f[s]
    OBVIOUS
  <2>3. g = [s \in D |-> g[s]]
    OBVIOUS
  <2> HIDE DEF g
  <2>4. \A t \in D : RankOf(t) < m - 1 => f[t] = g[t]
    BY <1>c, <1>n, <2>2
  <2>5. ASSUME NEW s \in D, RankOf(s) < m
        PROVE  g[s] = Body(g, s)
    <3>0. RankOf(s) \in Int /\ m \in Int
      BY <1>c, <1>n
    <3>1. Body(f, s) = Body(g, s)
      <4>1. \A t \in D : RankOf(t) < RankOf(s) => f[t] = g[t]
        <5> SUFFICES ASSUME NEW t \in D, RankOf(t) < RankOf(s) PROVE f[t] = g[t]
          OBVIOUS
        <5>1. RankOf(t) < m - 1
          BY <1>c, <2>5, <3>0
        <5> QED
          BY <2>4, <5>1
      <4> QED
        BY <1>d, <4>1
    <3>2. CASE RankOf(s) = m - 1
      BY <2>2, <3>1, <3>2
    <3>3. CASE RankOf(s) # m - 1
      <4>1. RankOf(s) < m - 1
        BY <2>5, <3>0, <3>3
      <4>2. f[s] = Body(f, s)
        BY <2>1, <4>1
      <4> QED
        BY <2>2, <3>1, <3>3, <4>2
    <3> QED
      BY <3>2, <3>3
  <2>6. Is(g, m)
    BY <2>3, <2>5
  <2> HIDE DEF Is
  <2> QED
    BY <1>n, <2>6
<1>3. PICK f : Is(f, 2 * n + 2)
  <2> HIDE DEF S
  <2>1. 2 * n + 2 \in Nat
    BY <1>n
  <2> DEFINE k == 2 * n + 2
  <2>2. k \in Nat /\ \A m \in 1 .. k : m - 1 \in S => m \in S
    BY <1>2, <2>1
  <2> HIDE DEF k
  <2>3. \A m \in 0 .. k : m \in S
    BY <1>0, <2>2, EveryTurn
  <2>4. k \in S
    BY <2>2, <2>3
  <2> QED
    BY <2>4 DEF S, k
<1> DEFINE Full(f1) == f1 = [s \in Nonterminals \X Spans(text) |->
                  LET i == s[2][1]
                      j == s[2][2]
                  IN  IF s[1] = "forms"
                      THEN i > j \/ \E k \in i .. j :
                              f1[<<"form", <<i, k>>>>] /\ f1[<<"forms", <<k + 1, j>>>>]
                      ELSE /\ i <= j
                           /\ \/ text[i] = "a" /\ i = j
                              \/ text[i] = "'" /\ f1[<<"form", <<i + 1, j>>>>]
                              \/ <<text[i], text[j]>> \in Pairs
                                    /\ f1[<<"forms", <<i + 1, j - 1>>>>]]
<1>4. Full(f)
  <2>1. \A s \in D : f[s] = Body(f, s)
    <3> SUFFICES ASSUME NEW s \in D PROVE f[s] = Body(f, s)
      OBVIOUS
    <3>1. RankOf(s) < 2 * n + 2
      BY <1>c, <1>n
    <3> QED
      BY <1>3, <3>1
  <2>2. f = [s \in D |-> Body(f, s)]
    BY <1>3, <2>1
  <2> QED
    BY <2>2, Zenon DEF Body, DerivedBy, D
<1> DEFINE derives == CHOOSE d : Full(d)
<1>5. Full(derives)
  BY <1>4
<1>6. \A what \in Nonterminals : InGrammar(what, text) = derives[<<what, <<1, Len(text)>>>>]
  BY Zenon DEF InGrammar, Nonterminals
<1> HIDE DEF derives
<1>7. derives = [s \in D |-> Body(derives, s)]
  BY <1>5, Zenon DEF Body, DerivedBy, D
<1>8. ASSUME NEW what \in Nonterminals, NEW i \in 1 .. Len(text) + 1, NEW j \in 0 .. Len(text)
      PROVE  derives[<<what, <<i, j>>>>] = DerivedBy(derives, text, what, i, j)
  <2> DEFINE s == <<what, <<i, j>>>>
  <2>0. i \in 1 .. n + 2 /\ j \in 0 .. n
    BY <1>n DEF n
  <2>1. s \in D /\ s[1] = what /\ s[2][1] = i /\ s[2][2] = j
    BY <1>a, <2>0
  <2> HIDE DEF s
  <2>2. derives[s] = Body(derives, s)
    BY <1>7, <2>1
  <2> QED
    BY <2>1, <2>2 DEF s, Body
<1> QED
  BY <1>6, <1>8 DEF Derives

\* What the grammar says of a span is what it says of the text cut out there.
SameSpan(e, d, a, what, i, j) == e[<<what, <<i, j>>>>] = d[<<what, <<a + i, a + j>>>>]

\* What the grammar says of a span is what it says of the span as a text.
LEMMA GrammarLocal ==
    ASSUME NEW text \in Seq(Tokens), NEW a \in 0 .. Len(text), NEW b \in a .. Len(text),
           NEW d, Derives(d, text), NEW what \in Nonterminals
    PROVE  InGrammar(what, SubSeq(text, a + 1, b)) = d[<<what, <<a + 1, b>>>>]
<1> DEFINE n == Len(text)
           m == b - a
           cut == SubSeq(text, a + 1, b)
<1>0. n \in Nat /\ m \in Nat /\ a \in Nat /\ a + m \in Nat /\ a + m <= n /\ b = a + m
  OBVIOUS
<1>1. Len(cut) = m /\ \A i \in 1 .. m : cut[i] = text[a + i]
  <2>1. Len(cut) = m
    BY <1>0
  <2>2. ASSUME NEW i \in 1 .. m PROVE cut[i] = text[a + i]
    <3>1. i \in 1 .. b - (a + 1) + 1 /\ a + 1 \in Int /\ b \in Int /\ a + 1 + i - 1 = a + i
      BY <1>0
    <3> QED
      BY <3>1
  <2> QED
    BY <2>1, <2>2
<1> HIDE DEF cut, m, n
<1>2. PICK e : Derives(e, cut)
  BY <1>0, <1>1, GrammarExists
<1>3. ASSUME NEW w \in Nonterminals, NEW i \in 1 .. m + 1, NEW j \in 0 .. m
      PROVE  /\ e[<<w, <<i, j>>>>] = DerivedBy(e, cut, w, i, j)
             /\ d[<<w, <<a + i, a + j>>>>] = DerivedBy(d, text, w, a + i, a + j)
  <2>1. a + i \in 1 .. n + 1 /\ a + j \in 0 .. n
    BY <1>0
  <2>2. e[<<w, <<i, j>>>>] = DerivedBy(e, cut, w, i, j)
    BY <1>1, <1>2 DEF Derives
  <2>3. d[<<w, <<a + i, a + j>>>>] = DerivedBy(d, text, w, a + i, a + j)
    BY <2>1 DEF Derives, n
  <2> QED
    BY <2>2, <2>3
<1> DEFINE S == {x \in 0 .. 2 * m + 2 :
                    \A w \in Nonterminals, i \in 1 .. m + 1, j \in 0 .. m :
                        Rank(w, i, j) < x => SameSpan(e, d, a, w, i, j)}
<1>4. ASSUME NEW w \in Nonterminals, NEW i \in 1 .. m + 1, NEW j \in 0 .. m, i > j
      PROVE  SameSpan(e, d, a, w, i, j)
  <2>1. a + i > a + j /\ ~(i <= j) /\ ~(a + i <= a + j)
    BY <1>0, <1>4
  <2>2. DerivedBy(e, cut, w, i, j) = (w = "forms")
    BY <1>4, <2>1 DEF DerivedBy
  <2>3. DerivedBy(d, text, w, a + i, a + j) = (w = "forms")
    BY <2>1 DEF DerivedBy
  <2>4. /\ e[<<w, <<i, j>>>>] = DerivedBy(e, cut, w, i, j)
        /\ d[<<w, <<a + i, a + j>>>>] = DerivedBy(d, text, w, a + i, a + j)
    BY <1>3
  <2> QED
    BY <2>2, <2>3, <2>4 DEF SameSpan
<1>5. 0 \in S
  <2>1. ASSUME NEW w \in Nonterminals, NEW i \in 1 .. m + 1, NEW j \in 0 .. m, Rank(w, i, j) < 0
        PROVE  SameSpan(e, d, a, w, i, j)
    <3>1. i > j
      BY <1>0, <2>1 DEF Rank
    <3> QED
      BY <1>4, <3>1
  <2> QED
    BY <1>0, <2>1
<1>6. ASSUME NEW x \in 1 .. 2 * m + 2, x - 1 \in S PROVE x \in S
  <2>1. ASSUME NEW w \in Nonterminals, NEW i \in 1 .. m + 1, NEW j \in 0 .. m, Rank(w, i, j) < x - 1
        PROVE  SameSpan(e, d, a, w, i, j)
    BY <1>6, <2>1
  <2> HIDE DEF S
  <2>2. ASSUME NEW w \in Nonterminals, NEW i \in 1 .. m + 1, NEW j \in 0 .. m, Rank(w, i, j) < x, i <= j
        PROVE  SameSpan(e, d, a, w, i, j)
    <3>1. i \in 1 .. m /\ j \in 1 .. m /\ a + i <= a + j /\ i + 1 \in 1 .. m + 1 /\ j - 1 \in 0 .. m
      BY <1>0, <2>2
    <3>2. cut[i] = text[a + i] /\ cut[j] = text[a + j]
      BY <1>1, <3>1
    <3>n. "form" \in Nonterminals /\ "forms" \in Nonterminals
      BY DEF Nonterminals
    <3>3. CASE w = "forms"
      <4>1. ASSUME NEW k \in i .. j
            PROVE  /\ e[<<"form", <<i, k>>>>] = d[<<"form", <<a + i, a + k>>>>]
                   /\ e[<<"forms", <<k + 1, j>>>>] = d[<<"forms", <<a + k + 1, a + j>>>>]
        <5>1. k \in 0 .. m /\ k + 1 \in 1 .. m + 1 /\ a + (k + 1) = a + k + 1
              /\ Rank("form", i, k) < x - 1 /\ Rank("forms", k + 1, j) < x - 1
          BY <1>0, <2>2, <3>1, <3>3 DEF Rank
        <5>2. SameSpan(e, d, a, "form", i, k) /\ SameSpan(e, d, a, "forms", k + 1, j)
          BY <2>1, <3>n, <5>1
        <5> QED
          BY <5>1, <5>2 DEF SameSpan
      <4>2. ASSUME NEW l \in a + i .. a + j PROVE l - a \in i .. j /\ a + (l - a) = l
        BY <1>0
      <4>3. ASSUME NEW k \in i .. j PROVE a + k \in a + i .. a + j
        BY <1>0
      <4>4. DerivedBy(e, cut, w, i, j) = \E k \in i .. j : e[<<"form", <<i, k>>>>] /\ e[<<"forms", <<k + 1, j>>>>]
        <5>1. ~(i > j)
          BY <1>0, <3>1
        <5> QED
          BY <3>3, <5>1 DEF DerivedBy
      <4>5. DerivedBy(d, text, w, a + i, a + j) =
                \E l \in a + i .. a + j : d[<<"form", <<a + i, l>>>>] /\ d[<<"forms", <<l + 1, a + j>>>>]
        <5>1. ~(a + i > a + j)
          BY <1>0, <3>1
        <5> QED
          BY <3>3, <5>1 DEF DerivedBy
      <4>6. ASSUME NEW k \in i .. j, e[<<"form", <<i, k>>>>], e[<<"forms", <<k + 1, j>>>>]
            PROVE  \E l \in a + i .. a + j : d[<<"form", <<a + i, l>>>>] /\ d[<<"forms", <<l + 1, a + j>>>>]
        BY <4>1, <4>3, <4>6
      <4>7. ASSUME NEW l \in a + i .. a + j, d[<<"form", <<a + i, l>>>>], d[<<"forms", <<l + 1, a + j>>>>]
            PROVE  \E k \in i .. j : e[<<"form", <<i, k>>>>] /\ e[<<"forms", <<k + 1, j>>>>]
        <5> DEFINE k == l - a
        <5>1. k \in i .. j /\ a + k = l
          BY <4>2
        <5> HIDE DEF k
        <5>2. e[<<"form", <<i, k>>>>] /\ e[<<"forms", <<k + 1, j>>>>]
          BY <4>1, <4>7, <5>1
        <5> QED
          BY <5>1, <5>2
      <4>8. (\E k \in i .. j : e[<<"form", <<i, k>>>>] /\ e[<<"forms", <<k + 1, j>>>>]) =
            (\E l \in a + i .. a + j : d[<<"form", <<a + i, l>>>>] /\ d[<<"forms", <<l + 1, a + j>>>>])
        BY <4>6, <4>7
      <4>9. /\ e[<<w, <<i, j>>>>] = DerivedBy(e, cut, w, i, j)
            /\ d[<<w, <<a + i, a + j>>>>] = DerivedBy(d, text, w, a + i, a + j)
        BY <1>3
      <4> QED
        BY <4>4, <4>5, <4>8, <4>9 DEF SameSpan
    <3>4. CASE w = "form"
      <4>1. /\ e[<<"form", <<i + 1, j>>>>] = d[<<"form", <<a + i + 1, a + j>>>>]
            /\ e[<<"forms", <<i + 1, j - 1>>>>] = d[<<"forms", <<a + i + 1, a + j - 1>>>>]
        <5>1. a + (i + 1) = a + i + 1 /\ a + (j - 1) = a + j - 1
              /\ Rank("form", i + 1, j) < x - 1 /\ Rank("forms", i + 1, j - 1) < x - 1
          BY <1>0, <2>2, <3>1, <3>4 DEF Rank
        <5>2. SameSpan(e, d, a, "form", i + 1, j) /\ SameSpan(e, d, a, "forms", i + 1, j - 1)
          BY <2>1, <3>n, <3>1, <5>1
        <5> QED
          BY <5>1, <5>2 DEF SameSpan
      <4>2. i = j <=> a + i = a + j
        BY <1>0
      <4>3. DerivedBy(e, cut, w, i, j) = DerivedBy(d, text, w, a + i, a + j)
        BY <2>2, <3>1, <3>2, <3>4, <4>1, <4>2 DEF DerivedBy
      <4>4. /\ e[<<w, <<i, j>>>>] = DerivedBy(e, cut, w, i, j)
            /\ d[<<w, <<a + i, a + j>>>>] = DerivedBy(d, text, w, a + i, a + j)
        BY <1>3
      <4> QED
        BY <4>3, <4>4 DEF SameSpan
    <3> QED
      BY <3>3, <3>4 DEF Nonterminals
  <2>3. ASSUME NEW w \in Nonterminals, NEW i \in 1 .. m + 1, NEW j \in 0 .. m, Rank(w, i, j) < x
        PROVE  SameSpan(e, d, a, w, i, j)
    <3>1. CASE i > j
      BY <1>4, <3>1
    <3>2. CASE i <= j
      BY <2>2, <2>3, <3>2
    <3> QED
      BY <1>0, <3>1, <3>2
  <2>4. x \in 0 .. 2 * m + 2
    BY <1>0
  <2> QED
    BY <2>3, <2>4 DEF S
<1>7. SameSpan(e, d, a, what, 1, m)
  <2>1. 2 * m + 2 \in Nat /\ 1 \in 1 .. m + 1 /\ m \in 0 .. m /\ Rank(what, 1, m) < 2 * m + 2
    BY <1>0 DEF Rank
  <2> DEFINE k == 2 * m + 2
  <2>2. k \in Nat /\ \A x \in 1 .. k : x - 1 \in S => x \in S
    BY <1>6, <2>1
  <2>3. k \in S
    <3> HIDE DEF k, S
    <3>1. \A x \in 0 .. k : x \in S
      BY <1>5, <2>2, EveryTurn
    <3> QED
      BY <2>2, <3>1
  <2> QED
    BY <2>1, <2>3
<1> QED
  BY <1>0, <1>1, <1>2, <1>7 DEF SameSpan, Derives, cut

(* A balanced span of a text whose quotes all have something to quote is a *)
(* list of forms, if no quote ends it.                                     *)
LEMMA BalancedIsForms ==
    ASSUME NEW text \in Seq(Tokens), NEW b, Balances(b, text), NEW d, Derives(d, text),
           QuotesApply(text), NEW i \in 1 .. Len(text) + 1, NEW j \in i - 1 .. Len(text),
           b[<<i, j>>], i <= j => text[j] # "'"
    PROVE  d[<<"forms", <<i, j>>>>]
<1> DEFINE n == Len(text)
           Fit(p, q) == b[<<p, q>>] /\ (p <= q => text[q] # "'") => d[<<"forms", <<p, q>>>>]
           S == {x \in 0 .. n : \A p \in 1 .. n + 1, q \in 0 .. n :
                    q >= p - 1 /\ q - p + 1 <= x => Fit(p, q)}
<1>0. n \in Nat /\ (\A p \in 1 .. n : text[p] \in Tokens) /\ DOMAIN text = 1 .. n
  OBVIOUS
<1>1. \A p \in 1 .. n + 1, q \in 0 .. n :
          d[<<"forms", <<p, q>>>>] = DerivedBy(d, text, "forms", p, q)
  BY DEF Derives, Nonterminals
<1>2. \A p \in 1 .. n + 1, q \in 0 .. n :
          d[<<"form", <<p, q>>>>] = DerivedBy(d, text, "form", p, q)
  BY DEF Derives, Nonterminals
<1>3. \A p \in 1 .. n + 1, q \in 0 .. n : b[<<p, q>>] = SpanIs(b, text, p, q)
  BY DEF Balances
<1>4. \A p \in 1 .. n : text[p] = "'" => p < n /\ text[p + 1] \notin Closers
  BY <1>0 DEF QuotesApply, Closers
<1> HIDE DEF n
\* An empty span, and a form before a list of forms.
<1>5. \A p \in 1 .. n + 1, q \in 0 .. n : p > q => d[<<"forms", <<p, q>>>>]
  BY <1>1 DEF DerivedBy
<1>6. ASSUME NEW p \in 1 .. n + 1, NEW q \in 0 .. n, NEW k \in p .. q,
             d[<<"form", <<p, k>>>>], d[<<"forms", <<k + 1, q>>>>]
      PROVE  d[<<"forms", <<p, q>>>>]
  BY <1>1, <1>6 DEF DerivedBy
<1>7. 0 \in S
  <2>1. ASSUME NEW p \in 1 .. n + 1, NEW q \in 0 .. n, q >= p - 1, q - p + 1 <= 0
        PROVE  d[<<"forms", <<p, q>>>>]
    <3>1. p > q
      BY <1>0, <2>1
    <3> QED
      BY <1>5, <3>1
  <2>2. \A p \in 1 .. n + 1, q \in 0 .. n : q >= p - 1 /\ q - p + 1 <= 0 => Fit(p, q)
    BY <2>1
  <2> HIDE DEF Fit
  <2> QED
    BY <1>0, <2>2
<1>8. ASSUME NEW x \in 1 .. n, x - 1 \in S PROVE x \in S
  <2>0. x \in 0 .. n
    BY <1>0
  <2> DEFINE Shorter(p, q) == /\ p \in 1 .. n + 1 /\ q \in 0 .. n
                              /\ q >= p - 1 /\ q - p + 1 <= x - 1
  <2>1. ASSUME NEW p, NEW q, Shorter(p, q), b[<<p, q>>], p <= q => text[q] # "'"
        PROVE  d[<<"forms", <<p, q>>>>]
    BY <1>8, <2>1
  <2> SUFFICES ASSUME NEW p \in 1 .. n + 1, NEW q \in 0 .. n, q >= p - 1, q - p + 1 <= x,
                      b[<<p, q>>], p <= q => text[q] # "'"
               PROVE  d[<<"forms", <<p, q>>>>]
    BY <2>0, Zenon
  <2> HIDE DEF S, Shorter
  <2>2. SpanIs(b, text, p, q)
    BY <1>3
  <2>3. CASE p > q
    BY <1>5, <2>3
  <2>4. CASE p <= q /\ ~IsBracket(text[p]) /\ b[<<p + 1, q>>]
    <3>0. p \in 1 .. n /\ p + 1 \in 1 .. n + 1 /\ q >= p /\ q >= p + 1 - 1 /\ q - (p + 1) + 1 <= x - 1
          /\ p \in p .. q /\ p \in 0 .. n /\ p <= p /\ (p + 1 <= q => p <= q) /\ q <= n
      BY <1>0, <2>4
    <3>1. d[<<"forms", <<p + 1, q>>>>]
      <4>1. Shorter(p + 1, q)
        BY <3>0 DEF Shorter
      <4> QED
        BY <2>1, <2>4, <3>0, <4>1
    <3>2. text[p] = "a" \/ text[p] = "'"
      <4>1. text[p] \in Tokens /\ text[p] \notin Openers \cup Closers
        BY <1>0, <2>4, <3>0, PairFacts
      <4> QED
        BY <4>1 DEF Tokens, Openers, Closers
    <3>3. CASE text[p] = "a"
      <4>1. d[<<"form", <<p, p>>>>]
        BY <1>2, <3>0, <3>3 DEF DerivedBy
      <4> QED
        BY <1>6, <3>0, <3>1, <4>1
    <3>4. CASE text[p] = "'"
      <4>1. p # q
        BY <2>4, <3>4
      <4>2. ~(p + 1 > q)
        BY <1>0, <3>0, <4>1
      <4>3. PICK k \in p + 1 .. q : d[<<"form", <<p + 1, k>>>>] /\ d[<<"forms", <<k + 1, q>>>>]
        BY <1>1, <3>0, <3>1, <4>2 DEF DerivedBy
      <4>4. k \in 0 .. n /\ k \in p .. q /\ p <= k
        <5>1. p \in Int /\ q \in Int /\ n \in Int /\ 1 <= p /\ q <= n
          BY <1>0, <3>0
        <5> QED
          BY <5>1
      <4>5. d[<<"form", <<p, k>>>>]
        BY <1>2, <3>0, <3>4, <4>3, <4>4 DEF DerivedBy
      <4> QED
        BY <1>6, <4>3, <4>4, <4>5
    <3> QED
      BY <3>2, <3>3, <3>4
  <2>5. ASSUME p <= q, NEW k \in p + 1 .. q, <<text[p], text[k]>> \in Pairs,
               b[<<p + 1, k - 1>>], b[<<k + 1, q>>]
        PROVE  d[<<"forms", <<p, q>>>>]
    <3>0. /\ p \in 1 .. n /\ k \in 1 .. n /\ k - 1 \in 0 .. n /\ k \in 0 .. n /\ k + 1 \in 1 .. n + 1
          /\ p + 1 \in 1 .. n + 1 /\ k - 1 >= p + 1 - 1 /\ k - 1 - (p + 1) + 1 <= x - 1
          /\ q >= k + 1 - 1 /\ q - (k + 1) + 1 <= x - 1 /\ p <= k /\ k \in p .. q
          /\ (k - 1 \in 1 .. n \/ k - 1 = 0) /\ k - 1 + 1 = k /\ (p + 1 <= k - 1 => k - 1 \in 1 .. n)
      <4>1. p \in Int /\ q \in Int /\ k \in Int /\ x \in Int /\ n \in Nat
            /\ 1 <= p /\ p + 1 <= k /\ k <= q /\ q <= n /\ q - p + 1 <= x
        BY <1>0, <2>5
      <4> QED
        BY <4>1
    <3>1. d[<<"forms", <<p + 1, k - 1>>>>]
      <4>1. p + 1 <= k - 1 => text[k - 1] # "'"
        <5>1. text[k] \in Closers
          BY <2>5, PairFacts
        <5>2. k - 1 \in 1 .. n => text[k - 1] # "'"
          BY <1>4, <3>0, <5>1
        <5> QED
          BY <3>0, <5>2
      <4>2. Shorter(p + 1, k - 1)
        BY <3>0 DEF Shorter
      <4> QED
        BY <2>1, <2>5, <4>1, <4>2
    <3>2. d[<<"form", <<p, k>>>>]
      BY <1>2, <2>5, <3>0, <3>1 DEF DerivedBy
    <3>3. d[<<"forms", <<k + 1, q>>>>]
      <4>1. k + 1 <= q => text[q] # "'"
        BY <2>5
      <4>2. Shorter(k + 1, q)
        BY <3>0 DEF Shorter
      <4> QED
        BY <2>1, <2>5, <4>1, <4>2
    <3> QED
      BY <1>6, <3>0, <3>2, <3>3
  <2> QED
    <3>1. CASE p > q
      BY <2>3, <3>1
    <3>2. CASE ~(p > q) /\ ~IsBracket(text[p]) /\ b[<<p + 1, q>>]
      <4>1. p <= q
        BY <1>0, <3>2
      <4> QED
        BY <2>4, <3>2, <4>1
    <3>3. CASE ~(p > q) /\ ~(~IsBracket(text[p]) /\ b[<<p + 1, q>>])
      <4>1. p <= q
        BY <1>0, <3>3
      <4>2. PICK k \in p + 1 .. q :
                <<text[p], text[k]>> \in Pairs /\ b[<<p + 1, k - 1>>] /\ b[<<k + 1, q>>]
        BY <2>2, <3>3 DEF SpanIs
      <4> QED
        BY <2>5, <4>1, <4>2
    <3> QED
      BY <3>1, <3>2, <3>3
<1> HIDE DEF S
<1>9. n \in S
  <2>1. \A x \in 0 .. n : x \in S
    BY <1>0, <1>7, <1>8, EveryTurn
  <2> QED
    BY <1>0, <2>1
<1>10. j \in 0 .. n /\ j >= i - 1 /\ j - i + 1 <= n /\ i \in 1 .. n + 1
  BY <1>0 DEF n
<1> QED
  BY <1>9, <1>10 DEF S

-----------------------------------------------------------------------------
(* Forms: the run of the parser.                                           *)

Openings == Openers \cup {"'"}

\* u is s without the quotes at its end.
WithoutQuotes(u, s) ==
    /\ u \in Seq(Openings) /\ Len(u) <= Len(s)
    /\ \A q \in 1 .. Len(u) : u[q] = s[q]
    /\ Len(u) > 0 => u[Len(u)] # "'"
    /\ \A q \in Len(u) + 1 .. Len(s) : s[q] = "'"

\* Max picks the greatest of a set of numbers.
LEMMA GreatestOf ==
    ASSUME NEW n \in Nat, NEW T \in SUBSET (1 .. n), T # {}
    PROVE  Max(T) \in T /\ \A y \in T : Max(T) >= y
<1> DEFINE R == {n - y : y \in T}
<1>0. \A y \in T : n - y \in Nat
  <2> SUFFICES ASSUME NEW y \in T PROVE n - y \in Nat
    OBVIOUS
  <2>1. y \in 1 .. n
    OBVIOUS
  <2> QED
    BY <2>1
<1>1. R \in SUBSET Nat /\ R # {}
  <2>1. \A z \in R : z \in Nat
    BY <1>0
  <2>2. PICK y : y \in T
    OBVIOUS
  <2>3. n - y \in R
    BY <2>2
  <2> HIDE DEF R
  <2> QED
    BY <2>1, <2>3
<1> HIDE DEF R
<1>2. PICK r \in R : \A z \in R : r <= z
  BY <1>1, LeastNat
<1>3. PICK x \in T : r = n - x
  BY DEF R
<1>4. ASSUME NEW y \in T PROVE x >= y
  <2>1. r <= n - y
    BY <1>2 DEF R
  <2>2. x \in 1 .. n /\ y \in 1 .. n
    OBVIOUS
  <2> QED
    BY <1>3, <2>1, <2>2
<1>5. \E z \in T : \A y \in T : z >= y
  BY <1>4
<1> QED
  BY <1>5 DEF Max

\* Unquoted takes the quotes at the end away and no more.
LEMMA UnquotedFacts ==
    ASSUME NEW s \in Seq(Openings)
    PROVE  WithoutQuotes(Unquoted(s), s)
<1> DEFINE I == {i \in 1 .. Len(s) : s[i] # "'"}
           m == SelectLastInSeq(s, LAMBDA t : t # "'")
<1>0. Len(s) \in Nat
  OBVIOUS
<1>1. m = IF I # {} THEN Max(I) ELSE 0
  BY DEF SelectLastInSeq
<1>2. Unquoted(s) = SubSeq(s, 1, m)
  BY DEF Unquoted
<1> HIDE DEF m
<1>3. m \in 0 .. Len(s) /\ (m > 0 => s[m] # "'") /\ \A q \in m + 1 .. Len(s) : s[q] = "'"
  <2>1. CASE I = {}
    <3>1. m = 0
      BY <1>1, <2>1
    <3> QED
      BY <1>0, <2>1, <3>1
  <2>2. CASE I # {}
    <3>1. I \in SUBSET (1 .. Len(s))
      OBVIOUS
    <3>2. m = Max(I)
      BY <1>1, <2>2
    <3>3. m \in I /\ \A y \in I : m >= y
      <4> HIDE DEF I
      <4> QED
        BY <1>0, <2>2, <3>1, <3>2, GreatestOf
    <3>4. m \in 1 .. Len(s) /\ s[m] # "'"
      BY <3>3
    <3>5. ASSUME NEW q \in m + 1 .. Len(s) PROVE s[q] = "'"
      <4>1. q \in 1 .. Len(s) /\ ~(m >= q)
        BY <1>0, <3>4
      <4>2. q \notin I
        <5> HIDE DEF I
        <5> QED
          BY <3>3, <4>1
      <4> QED
        BY <4>1, <4>2
    <3> QED
      BY <1>0, <3>4, <3>5
  <2> QED
    BY <2>1, <2>2
<1>4. SubSeq(s, 1, m) \in Seq(Openings) /\ Len(SubSeq(s, 1, m)) = m
      /\ \A q \in 1 .. m : SubSeq(s, 1, m)[q] = s[q]
  BY <1>0, <1>3
<1> QED
  BY <1>0, <1>2, <1>3, <1>4 DEF WithoutQuotes

\* It is the only sequence that is that.
LEMMA UnquotedIs ==
    ASSUME NEW s \in Seq(Openings), NEW u, WithoutQuotes(u, s)
    PROVE  Unquoted(s) = u
<1> DEFINE w == Unquoted(s)
           l == Len(u)
           m == Len(w)
           n == Len(s)
<1>1. WithoutQuotes(w, s)
  BY UnquotedFacts
<1>2. l \in Nat /\ m \in Nat /\ n \in Nat /\ l <= n /\ m <= n
  BY <1>1 DEF WithoutQuotes
<1>3. /\ \A q \in 1 .. l : u[q] = s[q]
      /\ \A q \in 1 .. m : w[q] = s[q]
      /\ l > 0 => u[l] # "'"
      /\ m > 0 => w[m] # "'"
      /\ \A q \in l + 1 .. n : s[q] = "'"
      /\ \A q \in m + 1 .. n : s[q] = "'"
      /\ u \in Seq(Openings) /\ w \in Seq(Openings)
  BY <1>1 DEF WithoutQuotes
<1> HIDE DEF l, m, n, w
<1>4. ~(l < m)
  BY <1>2, <1>3
<1>5. ~(m < l)
  BY <1>2, <1>3
<1>6. l = m
  BY <1>2, <1>4, <1>5
<1>7. \A q \in 1 .. l : u[q] = w[q]
  BY <1>3, <1>6
<1>8. u = w
  BY <1>3, <1>6, <1>7, SeqEqual DEF l, m
<1> QED
  BY <1>8 DEF w

\* What Unquoted does to a sequence and to one of its elements more.
LEMMA UnquotedCases ==
    ASSUME NEW s \in Seq(Openings), NEW t \in Openings
    PROVE  /\ s = <<>> => Unquoted(s) = s
           /\ t # "'" => Unquoted(Append(s, t)) = Append(s, t)
           /\ Unquoted(Append(s, "'")) = Unquoted(s)
           /\ Unquoted(Unquoted(s)) = Unquoted(s)
<1>0. Len(s) \in Nat
  OBVIOUS
<1>1. s = <<>> => Unquoted(s) = s
  <2>1. s = <<>> => WithoutQuotes(s, s)
    BY DEF WithoutQuotes
  <2> QED
    BY <2>1, UnquotedIs
<1>2. t # "'" => Unquoted(Append(s, t)) = Append(s, t)
  <2> DEFINE a == Append(s, t)
  <2>1. a \in Seq(Openings) /\ Len(a) = Len(s) + 1 /\ a[Len(s) + 1] = t
    OBVIOUS
  <2> HIDE DEF a
  <2>2. t # "'" => WithoutQuotes(a, a)
    BY <1>0, <2>1 DEF WithoutQuotes
  <2>3. t # "'" => Unquoted(a) = a
    BY <2>1, <2>2, UnquotedIs
  <2> QED
    BY <2>3 DEF a
<1>3. Unquoted(Append(s, "'")) = Unquoted(s)
  <2> DEFINE a == Append(s, "'")
             u == Unquoted(s)
  <2>1. /\ a \in Seq(Openings) /\ Len(a) = Len(s) + 1 /\ a[Len(s) + 1] = "'"
        /\ \A q \in 1 .. Len(s) : a[q] = s[q]
    BY DEF Openings
  <2>2. WithoutQuotes(u, s)
    BY UnquotedFacts
  <2> HIDE DEF a, u
  <2>3. Len(u) \in Nat
    BY <2>2 DEF WithoutQuotes
  <2>4. \A q \in Len(u) + 1 .. Len(a) : a[q] = "'"
    <3> SUFFICES ASSUME NEW q \in Len(u) + 1 .. Len(a) PROVE a[q] = "'"
      OBVIOUS
    <3>1. CASE q = Len(s) + 1
      BY <2>1, <3>1
    <3>2. CASE q # Len(s) + 1
      <4>1. q \in Len(u) + 1 .. Len(s) /\ q \in 1 .. Len(s)
        BY <1>0, <2>1, <2>3, <3>2
      <4> QED
        BY <2>1, <2>2, <4>1 DEF WithoutQuotes
    <3> QED
      BY <3>1, <3>2
  <2>5. WithoutQuotes(u, a)
    <3>1. Len(u) <= Len(s)
      BY <2>2 DEF WithoutQuotes
    <3>2. Len(u) <= Len(a)
      BY <1>0, <2>1, <2>3, <3>1
    <3>3. \A q \in 1 .. Len(u) : u[q] = a[q]
      <4> SUFFICES ASSUME NEW q \in 1 .. Len(u) PROVE u[q] = a[q]
        OBVIOUS
      <4>1. q \in 1 .. Len(s)
        BY <1>0, <2>3, <3>1
      <4> QED
        BY <2>1, <2>2, <4>1 DEF WithoutQuotes
    <3> QED
      BY <2>2, <2>4, <3>2, <3>3 DEF WithoutQuotes
  <2>6. Unquoted(a) = u
    BY <2>1, <2>5, UnquotedIs
  <2> QED
    BY <2>6 DEF a, u
<1>4. Unquoted(Unquoted(s)) = Unquoted(s)
  <2> DEFINE u == Unquoted(s)
  <2>1. WithoutQuotes(u, s)
    BY UnquotedFacts
  <2> HIDE DEF u
  <2>2. u \in Seq(Openings) /\ Len(u) \in Nat
    BY <2>1 DEF WithoutQuotes
  <2>3. WithoutQuotes(u, u)
    BY <2>1, <2>2 DEF WithoutQuotes
  <2>4. Unquoted(u) = u
    BY <2>2, <2>3, UnquotedIs
  <2> QED
    BY <2>4 DEF u
<1> QED
  BY <1>1, <1>2, <1>3, <1>4

ParserStates == [open : Seq(Openings), cur : Seq(Tokens), last : Seq(Seq(Tokens)),
                 list : Seq(Seq(Tokens)), error : BOOLEAN]

\* The next state q after p: one more is open, or the form is complete and o
\* is left open, or there is a syntax error.
Opened(p, q, t) ==
    /\ q.open = Append(p.open, t) /\ q.cur = Append(p.cur, t)
    /\ q.last = p.last /\ q.list = p.list /\ ~q.error

Ended(p, q, t, o) ==
    /\ q.open = Unquoted(o) /\ ~q.error
    /\ Unquoted(o) # <<>> => q.cur = Append(p.cur, t) /\ q.last = p.last /\ q.list = p.list
    /\ Unquoted(o) = <<>> => q.cur = <<>> /\ q.last = <<Append(p.cur, t)>>
                             /\ q.list = p.last \o p.list

Failed(p, q) ==
    /\ q.open = p.open /\ q.cur = p.cur /\ q.last = p.last /\ q.list = p.list /\ q.error

ClosesLast(p, t) == p.open # <<>> /\ Last(p.open) = Opposite(t)

ParserStep(p, q, t) ==
    /\ p.error => q = p
    /\ ~p.error /\ t \in Openings => Opened(p, q, t)
    /\ ~p.error /\ t = "a" => Ended(p, q, t, p.open)
    /\ ~p.error /\ t \in Closers /\ ClosesLast(p, t) => Ended(p, q, t, Front(p.open))
    /\ ~p.error /\ t \in Closers /\ ~ClosesLast(p, t) => Failed(p, q)

\* A completed form is handled as Ended says.
LEMMA CompletedFacts ==
    ASSUME NEW p \in ParserStates, ~p.error, NEW t \in Tokens, NEW o \in Seq(Openings)
    PROVE  LET q == Completed([p EXCEPT !.cur = Append(@, t)], o)
           IN  q \in ParserStates /\ Ended(p, q, t, o)
<1> DEFINE c == Append(p.cur, t)
           r == [p EXCEPT !.cur = c]
           u == Unquoted(o)
<1>1. /\ c \in Seq(Tokens) /\ r \in ParserStates /\ r.cur = c /\ r.open = p.open
      /\ r.last = p.last /\ r.list = p.list /\ r.error = p.error
  <2>1. c \in Seq(Tokens)
    BY DEF ParserStates
  <2> HIDE DEF c
  <2> QED
    BY <2>1 DEF ParserStates
<1>2. u \in Seq(Openings)
  BY UnquotedFacts DEF WithoutQuotes
<1>3. [p EXCEPT !.cur = Append(@, t)] = r
  OBVIOUS
<1> HIDE DEF r, u, c
<1>4. CASE u # <<>>
  <2> DEFINE q == [r EXCEPT !.open = u]
  <2>1. Completed(r, o) = q
    BY <1>4 DEF Completed, u
  <2>2. q \in ParserStates /\ q.open = u /\ q.cur = c /\ q.last = p.last /\ q.list = p.list /\ ~q.error
    BY <1>1, <1>2 DEF ParserStates
  <2> HIDE DEF q
  <2>3. q \in ParserStates /\ Ended(p, q, t, o)
    BY <1>4, <2>2 DEF Ended, c, u
  <2> QED
    BY <1>3, <2>1, <2>3
<1>5. CASE u = <<>>
  <2> DEFINE q == [r EXCEPT !.open = <<>>, !.cur = <<>>, !.last = <<r.cur>>, !.list = r.last \o @]
  <2>1. Completed(r, o) = q
    BY <1>5 DEF Completed, u
  <2>2. /\ <<c>> \in Seq(Seq(Tokens)) /\ p.last \o p.list \in Seq(Seq(Tokens))
        /\ <<>> \in Seq(Openings) /\ <<>> \in Seq(Tokens)
    BY <1>1 DEF ParserStates
  <2>3. q \in ParserStates /\ q.open = <<>> /\ q.cur = <<>> /\ q.last = <<c>>
        /\ q.list = p.last \o p.list /\ ~q.error
    BY <1>1, <2>2 DEF ParserStates
  <2> HIDE DEF q
  <2>4. q \in ParserStates /\ Ended(p, q, t, o)
    BY <1>5, <2>3 DEF Ended, c, u
  <2> QED
    BY <1>3, <2>1, <2>4
<1> QED
  BY <1>4, <1>5

\* Each token takes the parser one ParserStep.
LEMMA ParsedFacts ==
    ASSUME NEW p \in ParserStates, NEW t \in Tokens
    PROVE  Parsed(p, t) \in ParserStates /\ ParserStep(p, Parsed(p, t), t)
<1> DEFINE q == Parsed(p, t)
           r == [p EXCEPT !.cur = Append(@, t)]
<1>0. p.open \in Seq(Openings) /\ p.error \in BOOLEAN
  BY DEF ParserStates
<1>1. /\ t = "a" => t \notin {")", "]"} /\ t \notin Openings /\ t \notin Closers
      /\ t \in Openings => t # "a" /\ t \notin {")", "]"} /\ t \notin Closers
      /\ t \in Closers => t # "a" /\ t \in {")", "]"} /\ t \notin Openings
      /\ t = "a" \/ t \in Openings \/ t \in Closers
  BY DEF Tokens, Openings, Openers, Closers
<1>2. CASE p.error
  <2>1. q = p
    BY <1>2 DEF Parsed
  <2> QED
    BY <1>2, <2>1 DEF ParserStep
<1>3. CASE ~p.error /\ t = "a"
  <2>1. q = Completed(r, p.open)
    BY <1>3 DEF Parsed
  <2>2. q \in ParserStates /\ Ended(p, q, t, p.open)
    BY <1>0, <1>3, <2>1, CompletedFacts
  <2> HIDE DEF q
  <2> QED
    BY <1>1, <1>3, <2>2 DEF ParserStep, q
<1>4. CASE ~p.error /\ t \in Openings
  <2>1. q = [r EXCEPT !.open = Append(@, t)]
    BY <1>1, <1>4 DEF Parsed
  <2>2. Append(p.open, t) \in Seq(Openings) /\ Append(p.cur, t) \in Seq(Tokens)
    BY <1>4 DEF ParserStates
  <2>3. q \in ParserStates /\ Opened(p, q, t)
    <3> DEFINE o == Append(p.open, t)
               c == Append(p.cur, t)
    <3>1. q = [p EXCEPT !.cur = c, !.open = o]
      BY <2>1
    <3>2. o \in Seq(Openings) /\ c \in Seq(Tokens)
      BY <2>2
    <3> HIDE DEF q, o, c
    <3>3. q \in ParserStates /\ q.open = o /\ q.cur = c /\ q.last = p.last /\ q.list = p.list /\ ~q.error
      BY <1>4, <3>1, <3>2 DEF ParserStates
    <3> QED
      BY <3>3 DEF Opened, o, c
  <2> HIDE DEF q
  <2> QED
    BY <1>1, <1>4, <2>3 DEF ParserStep, q
<1>5. CASE ~p.error /\ t \in Closers /\ ClosesLast(p, t)
  <2>1. q = Completed(r, Front(p.open))
    BY <1>1, <1>5 DEF Parsed, ClosesLast
  <2>2. Front(p.open) \in Seq(Openings)
    <3>1. p.open # <<>>
      BY <1>5 DEF ClosesLast
    <3> DEFINE s == p.open
    <3>2. s \in Seq(Openings) /\ s # <<>>
      BY <1>0, <3>1
    <3> HIDE DEF s
    <3>3. SubSeq(s, 1, Len(s) - 1) \in Seq(Openings)
      BY <3>2
    <3> QED
      BY <3>3 DEF Front, s
  <2>3. q \in ParserStates /\ Ended(p, q, t, Front(p.open))
    BY <1>5, <2>1, <2>2, CompletedFacts
  <2> HIDE DEF q
  <2> QED
    BY <1>1, <1>5, <2>3 DEF ParserStep, q
<1>6. CASE ~p.error /\ t \in Closers /\ ~ClosesLast(p, t)
  <2>1. q = [p EXCEPT !.error = TRUE]
    BY <1>1, <1>6 DEF Parsed, ClosesLast
  <2>2. q \in ParserStates /\ Failed(p, q)
    BY <2>1 DEF ParserStates, Failed
  <2> HIDE DEF q
  <2> QED
    BY <1>1, <1>6, <2>2 DEF ParserStep, q
<1> QED
  BY <1>0, <1>1, <1>2, <1>3, <1>4, <1>5, <1>6

\* The states v of the parser on the text.
Parses(v, text) ==
    /\ v[0] = ParserInit
    /\ \A i \in 0 .. Len(text) : v[i] \in ParserStates
    /\ \A i \in 1 .. Len(text) : ParserStep(v[i - 1], v[i], text[i])
    /\ ParsedAll(text) = v[Len(text)]

\* ParsedAll is such a run of the parser.
LEMMA ParsesExist ==
    ASSUME NEW text \in Seq(Tokens)
    PROVE  \E v : Parses(v, text)
<1> DEFINE Is(f, n) == f = [i \in 0 .. n |-> IF i = 0 THEN ParserInit ELSE Parsed(f[i - 1], text[i])]
           S == {n \in Nat : \E f : Is(f, n)}
<1>0. Len(text) \in Nat /\ \A i \in 1 .. Len(text) : text[i] \in Tokens
  OBVIOUS
<1>1. 0 \in S
  <2>1. Is([i \in 0 .. 0 |-> ParserInit], 0)
    OBVIOUS
  <2> QED
    BY <2>1
<1>2. ASSUME NEW n \in 1 .. Len(text), n - 1 \in S
      PROVE  n \in S
  <2>1. PICK f : Is(f, n - 1)
    BY <1>2
  <2> DEFINE g == [i \in 0 .. n |-> IF i = n THEN Parsed(f[n - 1], text[n]) ELSE f[i]]
             h == [i \in 0 .. n |-> IF i = 0 THEN ParserInit ELSE Parsed(g[i - 1], text[i])]
  <2>2. ASSUME NEW i \in 0 .. n
        PROVE  g[i] = h[i]
    <3>1. h[i] = IF i = 0 THEN ParserInit ELSE Parsed(g[i - 1], text[i])
      OBVIOUS
    <3>2. i # 0 => g[i - 1] = f[i - 1]
      OBVIOUS
    <3>3. i # n => i \in 0 .. n - 1 /\ g[i] = f[i]
      OBVIOUS
    <3>4. i = n => i # 0 /\ g[i] = Parsed(f[i - 1], text[i])
      OBVIOUS
    <3>5. i # n => f[i] = IF i = 0 THEN ParserInit ELSE Parsed(f[i - 1], text[i])
      BY <2>1, <3>3
    <3> HIDE DEF g, h
    <3> QED
      BY <3>1, <3>2, <3>3, <3>4, <3>5
  <2>3. g = h
    BY <2>2
  <2>4. Is(g, n)
    BY <2>3
  <2> HIDE DEF Is, g
  <2> QED
    BY <2>4
<1>3. PICK f : Is(f, Len(text))
  <2> HIDE DEF S
  <2>1. \A i \in 0 .. Len(text) : i \in S
    BY <1>0, <1>1, <1>2, EveryTurn
  <2>2. Len(text) \in S
    BY <1>0, <2>1
  <2> QED
    BY <2>2 DEF S
<1> DEFINE after == CHOOSE g : Is(g, Len(text))
<1>4. Is(after, Len(text))
  BY <1>3
<1>5. ParsedAll(text) = after[Len(text)]
  BY DEF ParsedAll
<1> HIDE DEF after
<1>6. after[0] = ParserInit /\ \A i \in 1 .. Len(text) : after[i] = Parsed(after[i - 1], text[i])
  BY <1>0, <1>4
<1> HIDE DEF Is, S
<1>7. ParserInit \in ParserStates
  <2>1. <<>> \in Seq(Openings) /\ <<>> \in Seq(Tokens) /\ <<>> \in Seq(Seq(Tokens))
    OBVIOUS
  <2> QED
    BY <2>1 DEF ParserInit, ParserStates
<1> DEFINE R == {i \in 0 .. Len(text) : after[i] \in ParserStates}
<1>8. \A i \in 0 .. Len(text) : i \in R
  <2>1. 0 \in R
    BY <1>0, <1>6, <1>7
  <2>2. ASSUME NEW i \in 1 .. Len(text), i - 1 \in R PROVE i \in R
    <3>1. Parsed(after[i - 1], text[i]) \in ParserStates
      BY <1>0, <2>2, ParsedFacts
    <3> QED
      BY <1>0, <1>6, <3>1
  <2> HIDE DEF R
  <2> QED
    BY <1>0, <2>1, <2>2, EveryTurn
<1>9. ASSUME NEW i \in 1 .. Len(text) PROVE ParserStep(after[i - 1], after[i], text[i])
  <2>1. i - 1 \in 0 .. Len(text)
    BY <1>0
  <2>2. after[i - 1] \in ParserStates
    BY <1>8, <2>1
  <2> QED
    BY <1>0, <1>6, <2>2, ParsedFacts
<1>10. Parses(after, text)
  BY <1>5, <1>6, <1>8, <1>9 DEF Parses
<1> QED
  BY <1>10

\* Front drops the last element.
LEMMA FrontFacts ==
    ASSUME NEW s \in Seq(Openings), s # <<>>
    PROVE  /\ Front(s) \in Seq(Openings) /\ Len(Front(s)) = Len(s) - 1 /\ Len(s) \in Nat \ {0}
           /\ \A q \in 1 .. Len(s) - 1 : Front(s)[q] = s[q]
<1>1. Len(s) \in Nat \ {0}
  OBVIOUS
<1> DEFINE m == Len(s) - 1
<1>2. m \in 0 .. Len(s)
  BY <1>1
<1> HIDE DEF m
<1>3. /\ SubSeq(s, 1, m) \in Seq(Openings) /\ Len(SubSeq(s, 1, m)) = m
      /\ \A q \in 1 .. m : SubSeq(s, 1, m)[q] = s[q]
  BY <1>1, <1>2
<1> QED
  BY <1>1, <1>3 DEF Front, m

\* A step without an error, and what was open and stays open.
LEMMA OpenStep ==
    ASSUME NEW p \in ParserStates, NEW q \in ParserStates, NEW t \in Tokens,
           ParserStep(p, q, t), ~q.error
    PROVE  /\ ~p.error
           /\ \/ t \in Openings /\ Opened(p, q, t)
              \/ t = "a" /\ Ended(p, q, t, p.open)
              \/ t \in Closers /\ ClosesLast(p, t) /\ Ended(p, q, t, Front(p.open))
           /\ \A x \in 1 .. Len(q.open) : x <= Len(p.open) => q.open[x] = p.open[x]
<1>0. p.open \in Seq(Openings) /\ q.open \in Seq(Openings) /\ p.error \in BOOLEAN
  BY DEF ParserStates
<1>1. ~p.error
  BY <1>0 DEF ParserStep
<1>2. t = "a" \/ t \in Openings \/ t \in Closers
  BY DEF Tokens, Openings, Openers, Closers
<1>3. \/ t \in Openings /\ Opened(p, q, t)
      \/ t = "a" /\ Ended(p, q, t, p.open)
      \/ t \in Closers /\ ClosesLast(p, t) /\ Ended(p, q, t, Front(p.open))
  BY <1>1, <1>2 DEF ParserStep, Failed
<1>4. ASSUME NEW x \in 1 .. Len(q.open), x <= Len(p.open)
      PROVE  q.open[x] = p.open[x]
  <2>0. Len(p.open) \in Nat /\ Len(q.open) \in Nat
    BY <1>0
  <2>1. CASE t \in Openings /\ Opened(p, q, t)
    <3>1. q.open = Append(p.open, t)
      BY <2>1 DEF Opened
    <3>2. x \in 1 .. Len(p.open)
      BY <1>4, <2>0
    <3> QED
      BY <1>0, <3>1, <3>2
  <2>2. CASE Ended(p, q, t, p.open)
    <3>1. WithoutQuotes(q.open, p.open)
      BY <1>0, <2>2, UnquotedFacts DEF Ended
    <3> QED
      BY <3>1 DEF WithoutQuotes
  <2>3. CASE ClosesLast(p, t) /\ Ended(p, q, t, Front(p.open))
    <3> DEFINE f == Front(p.open)
    <3>1. /\ f \in Seq(Openings) /\ Len(f) = Len(p.open) - 1
          /\ \A y \in 1 .. Len(p.open) - 1 : f[y] = p.open[y]
      BY <1>0, <2>3, FrontFacts DEF ClosesLast
    <3> HIDE DEF f
    <3>2. WithoutQuotes(q.open, f)
      BY <2>3, <3>1, UnquotedFacts DEF Ended, f
    <3>3. q.open[x] = f[x] /\ x <= Len(f)
      BY <2>0, <3>1, <3>2 DEF WithoutQuotes
    <3>4. x \in 1 .. Len(p.open) - 1
      BY <2>0, <3>1, <3>3
    <3> QED
      BY <3>1, <3>3, <3>4
  <2> QED
    BY <1>3, <2>1, <2>2, <2>3
<1> QED
  BY <1>1, <1>3, <1>4

\* A syntax error is never undone.
LEMMA NoErrorBefore ==
    ASSUME NEW text \in Seq(Tokens), NEW v, Parses(v, text), NEW k \in 0 .. Len(text), ~v[k].error
    PROVE  \A i \in 0 .. k : ~v[i].error
<1> DEFINE S == {d \in 0 .. k : ~v[k - d].error}
<1>0. Len(text) \in Nat /\ k \in Nat
  OBVIOUS
<1>1. 0 \in S
  OBVIOUS
<1>2. ASSUME NEW d \in 1 .. k, d - 1 \in S PROVE d \in S
  <2>1. k - (d - 1) \in 1 .. Len(text) /\ k - (d - 1) - 1 = k - d /\ k - d \in 0 .. Len(text)
        /\ k - (d - 1) \in 0 .. Len(text) /\ d \in 0 .. k
    OBVIOUS
  <2>2. ~v[k - (d - 1)].error
    BY <1>2
  <2> DEFINE e == k - (d - 1)
  <2>3. e \in 1 .. Len(text) /\ e - 1 = k - d /\ e \in 0 .. Len(text) /\ e - 1 \in 0 .. Len(text) /\ ~v[e].error
    BY <2>1, <2>2
  <2> HIDE DEF e
  <2>4. v[e - 1] \in ParserStates /\ v[e] \in ParserStates /\ text[e] \in Tokens
        /\ ParserStep(v[e - 1], v[e], text[e])
    BY <2>3 DEF Parses
  <2>5. ~v[e - 1].error
    BY <2>3, <2>4, OpenStep
  <2> QED
    BY <2>1, <2>3, <2>5
<1> HIDE DEF S
<1>3. \A d \in 0 .. k : d \in S
  BY <1>0, <1>1, <1>2, EveryTurn
<1>4. ASSUME NEW i \in 0 .. k PROVE ~v[i].error
  <2>1. k - i \in 0 .. k /\ k - (k - i) = i
    OBVIOUS
  <2>2. k - i \in S
    BY <1>3, <2>1
  <2> QED
    BY <2>1, <2>2 DEF S
<1> QED
  BY <1>4

\* No less is open than at a, from there to k.
NoLessOpen(v, a, k) == \A m \in a .. k : Len(v[m].open) >= Len(v[a].open)

\* What is open at a is still open at k.
StillOpen(v, a, k) == \A q \in 1 .. Len(v[a].open) : v[k].open[q] = v[a].open[q]

\* What is open under the top stays while no less is open.
LEMMA OpenBelow ==
    ASSUME NEW text \in Seq(Tokens), NEW v, Parses(v, text), NEW k \in 0 .. Len(text),
           ~v[k].error, NEW a \in 0 .. k, NoLessOpen(v, a, k)
    PROVE  StillOpen(v, a, k)
<1> DEFINE h == Len(v[a].open)
           Same(m) == \A q \in 1 .. h : v[m].open[q] = v[a].open[q]
           S == {d \in 0 .. k - a : Same(a + d)}
<1>0. Len(text) \in Nat /\ k \in Nat /\ a \in Nat /\ k - a \in Nat
  OBVIOUS
<1>1. \A m \in 0 .. k : v[m] \in ParserStates /\ ~v[m].error /\ Len(v[m].open) \in Nat
  <2>1. \A m \in 0 .. k : v[m] \in ParserStates
    BY <1>0 DEF Parses
  <2> QED
    BY <1>0, <2>1, NoErrorBefore DEF ParserStates
<1>2. 0 \in S
  BY <1>0
<1>3. ASSUME NEW d \in 1 .. k - a, d - 1 \in S PROVE d \in S
  <2> DEFINE e == a + d
             u == v[e - 1]
             w == v[e]
             t == text[e]
  <2>0. e \in 1 .. Len(text) /\ e - 1 \in a .. k /\ e \in a .. k /\ a + (d - 1) = e - 1
        /\ e \in 0 .. k /\ e - 1 \in 0 .. k /\ a \in 0 .. k /\ d \in 0 .. k - a
    BY <1>0
  <2> HIDE DEF e
  <2>1. \A x \in 1 .. Len(w.open) : x <= Len(u.open) => w.open[x] = u.open[x]
    <3>1. u \in ParserStates /\ w \in ParserStates /\ ~w.error
      BY <1>1, <2>0
    <3>2. t \in Tokens /\ ParserStep(u, w, t)
      BY <2>0 DEF Parses
    <3> HIDE DEF u, w, t
    <3> QED
      BY <3>1, <3>2, OpenStep
  <2>2. Len(u.open) >= h /\ Len(w.open) >= h /\ h \in Nat /\ Len(u.open) \in Nat
        /\ Len(w.open) \in Nat
    BY <1>1, <2>0 DEF NoLessOpen
  <2>3. \A q \in 1 .. h : u.open[q] = v[a].open[q]
    BY <1>3, <2>0
  <2> HIDE DEF u, w, t, h
  <2>4. \A q \in 1 .. h : w.open[q] = u.open[q]
    BY <2>1, <2>2
  <2>5. \A q \in 1 .. h : w.open[q] = v[a].open[q]
    BY <2>3, <2>4
  <2> QED
    BY <2>0, <2>5 DEF w, h, e
<1> HIDE DEF S
<1>4. \A d \in 0 .. k - a : d \in S
  BY <1>0, <1>2, <1>3, EveryTurn
<1>5. k - a \in S /\ a + (k - a) = k
  BY <1>0, <1>4
<1> QED
  BY <1>5 DEF S, StillOpen

-----------------------------------------------------------------------------
(* Forms: the parser reads what the grammar derives, and nothing else.     *)

\* The parser has read the span from i to j as one form, or as any number.
Read(v, i, j) == ~v[j].error /\ v[j].open = Unquoted(v[i].open)

(* What the grammar derives the parser reads.                              *)
LEMMA DerivedIsRead ==
    ASSUME NEW text \in Seq(Tokens), NEW v, Parses(v, text), NEW d, Derives(d, text),
           NEW what \in Nonterminals, NEW i \in 0 .. Len(text), NEW j \in i .. Len(text),
           d[<<what, <<i + 1, j>>>>], ~v[i].error,
           what = "forms" => Unquoted(v[i].open) = v[i].open
    PROVE  Read(v, i, j)
<1> DEFINE n == Len(text)
           Fit(w, p, q) == d[<<w, <<p + 1, q>>>>] /\ ~v[p].error
                           /\ (w = "forms" => Unquoted(v[p].open) = v[p].open) => Read(v, p, q)
           S == {x \in 0 .. 2 * n + 2 : \A w \in Nonterminals, p \in 0 .. n, q \in 0 .. n :
                    p <= q /\ Rank(w, p + 1, q) < x => Fit(w, p, q)}
<1>0. n \in Nat /\ (\A p \in 1 .. n : text[p] \in Tokens) /\ 2 * n + 2 \in Nat
  OBVIOUS
<1>1. ASSUME NEW w \in Nonterminals, NEW p \in 0 .. n, NEW q \in 0 .. n
      PROVE  d[<<w, <<p + 1, q>>>>] = DerivedBy(d, text, w, p + 1, q)
  <2>1. p + 1 \in 1 .. n + 1
    BY <1>0
  <2> QED
    BY <2>1 DEF Derives
<1>2. \A p \in 0 .. n : v[p] \in ParserStates /\ v[p].open \in Seq(Openings)
  BY DEF Parses, ParserStates
<1>3. ASSUME NEW p \in 0 .. n - 1
      PROVE  ParserStep(v[p], v[p + 1], text[p + 1]) /\ text[p + 1] \in Tokens
  <2>1. p + 1 \in 1 .. n /\ p + 1 - 1 = p
    BY <1>0
  <2> QED
    BY <1>0, <2>1 DEF Parses
<1> HIDE DEF n
<1>4. 0 \in S
  <2>1. ASSUME NEW w \in Nonterminals, NEW p \in 0 .. n, NEW q \in 0 .. n, p <= q
        PROVE  ~(Rank(w, p + 1, q) < 0)
    BY <1>0, <2>1 DEF Rank
  <2> HIDE DEF Fit
  <2> QED
    BY <1>0, <2>1
<1>5. ASSUME NEW x \in 1 .. 2 * n + 2, x - 1 \in S PROVE x \in S
  <2> DEFINE Lower(w, p, q) == /\ w \in Nonterminals /\ p \in 0 .. n /\ q \in 0 .. n /\ p <= q
                               /\ Rank(w, p + 1, q) < x - 1
  <2>1. ASSUME NEW w, NEW p, NEW q, Lower(w, p, q), d[<<w, <<p + 1, q>>>>], ~v[p].error,
               w = "forms" => Unquoted(v[p].open) = v[p].open
        PROVE  Read(v, p, q)
    BY <1>5, <2>1
  <2>0. x \in 0 .. 2 * n + 2
    BY <1>0
  <2> SUFFICES ASSUME NEW w \in Nonterminals, NEW p \in 0 .. n, NEW q \in 0 .. n, p <= q,
                      Rank(w, p + 1, q) < x, d[<<w, <<p + 1, q>>>>], ~v[p].error,
                      w = "forms" => Unquoted(v[p].open) = v[p].open
               PROVE  Read(v, p, q)
    BY <2>0, Zenon
  <2> HIDE DEF S, Fit, Lower
  <2> DEFINE o == v[p].open
  <2>2. DerivedBy(d, text, w, p + 1, q)
    BY <1>1
  <2>3. o \in Seq(Openings) /\ v[p] \in ParserStates
    BY <1>2
  <2> HIDE DEF o
  <2>n. "form" \in Nonterminals /\ "forms" \in Nonterminals
    BY DEF Nonterminals
  <2>4. CASE w = "forms"
    <3>1. CASE p = q
      BY <2>4, <3>1 DEF Read
    <3>2. CASE p # q
      <4>1. ~(p + 1 > q)
        BY <1>0, <3>2
      <4>2. PICK k \in p + 1 .. q : d[<<"form", <<p + 1, k>>>>] /\ d[<<"forms", <<k + 1, q>>>>]
        BY <2>2, <2>4, <4>1 DEF DerivedBy
      <4>3. Lower("form", p, k) /\ Lower("forms", k, q)
        <5>1. k \in p + 1 .. q
          BY <4>2
        <5>2. p \in Int /\ q \in Int /\ k \in Int /\ x \in Int /\ n \in Int /\ 0 <= p /\ p + 1 <= k /\ k <= q /\ q <= n
          BY <1>0, <5>1
        <5>3. 2 * (q - (p + 1) + 1) + 1 < x
          BY <2>4 DEF Rank
        <5> QED
          BY <2>n, <5>2, <5>3 DEF Lower, Rank
      <4>4. Read(v, p, k)
        BY <2>1, <4>2, <4>3
      <4>5. v[k].open = o /\ ~v[k].error /\ Unquoted(o) = o
        BY <2>4, <4>4 DEF Read, o
      <4>6. Read(v, k, q)
        BY <2>1, <4>2, <4>3, <4>5
      <4> QED
        BY <4>5, <4>6 DEF Read, o
    <3> QED
      BY <3>1, <3>2
  <2>5. CASE w = "form"
    <3> DEFINE t == text[p + 1]
    <3>1. p + 1 <= q
      BY <2>2, <2>5 DEF DerivedBy
    <3>0. p \in 0 .. n - 1 /\ p + 1 \in 0 .. n /\ p + 1 <= q /\ p \in Int /\ q \in Int /\ q <= n
      BY <1>0, <3>1
    <3>2. ParserStep(v[p], v[p + 1], t) /\ t \in Tokens
      BY <1>3, <3>0
    <3>3. \/ t = "a" /\ p + 1 = q
          \/ t = "'" /\ d[<<"form", <<p + 1 + 1, q>>>>]
          \/ <<t, text[q]>> \in Pairs /\ d[<<"forms", <<p + 1 + 1, q - 1>>>>]
      BY <2>2, <2>5 DEF DerivedBy
    <3>r. 2 * (q - (p + 1) + 1) < x /\ x \in Int
      BY <1>0, <2>5 DEF Rank
    <3> HIDE DEF t
    <3>4. CASE t = "a" /\ p + 1 = q
      <4>1. Ended(v[p], v[q], t, o)
        BY <3>2, <3>4 DEF ParserStep, o
      <4> QED
        BY <4>1 DEF Ended, Read, o
    <3>5. CASE t = "'" /\ d[<<"form", <<p + 1 + 1, q>>>>]
      <4>1. Opened(v[p], v[p + 1], t)
        BY <3>2, <3>5 DEF ParserStep, Openings
      <4>2. v[p + 1].open = Append(o, "'") /\ ~v[p + 1].error
        BY <3>5, <4>1 DEF Opened, o
      <4>3. Lower("form", p + 1, q)
        <5>1. 2 * (q - (p + 1 + 1) + 1) + 0 < x - 1
          BY <3>0, <3>r
        <5>2. Rank("form", p + 1 + 1, q) < x - 1
          BY <5>1 DEF Rank
        <5> QED
          BY <2>n, <3>0, <5>2 DEF Lower
      <4>4. Read(v, p + 1, q)
        BY <2>1, <3>5, <4>2, <4>3
      <4>5. Unquoted(Append(o, "'")) = Unquoted(o)
        <5>1. "'" \in Openings
          BY DEF Openings
        <5> QED
          BY <2>3, <5>1, UnquotedCases
      <4> QED
        BY <4>2, <4>4, <4>5 DEF Read, o
    <3>6. CASE <<t, text[q]>> \in Pairs /\ d[<<"forms", <<p + 1 + 1, q - 1>>>>]
      <4>1. t \in Openers /\ t \notin Closers /\ text[q] \in Closers /\ t = Opposite(text[q])
        BY <3>6, PairFacts
      <4>2. t \in Openings /\ t # "'" /\ text[q] # "a" /\ text[q] \notin Openings
        BY <4>1 DEF Openings, Openers, Closers
      <4>3. p + 1 # q
        BY <4>1 DEF t
      <4>4. q - 1 \in 0 .. n /\ p + 1 <= q - 1 /\ q - 1 \in 0 .. n - 1 /\ q - 1 + 1 = q
            /\ Lower("forms", p + 1, q - 1)
        BY <1>0, <2>n, <3>0, <3>r, <4>3 DEF Lower, Rank
      <4>5. v[p + 1].open = Append(o, t) /\ ~v[p + 1].error
        BY <3>2, <4>2 DEF ParserStep, Opened, o
      <4>6. Unquoted(Append(o, t)) = Append(o, t)
        BY <2>3, <4>2, UnquotedCases
      <4>7. Read(v, p + 1, q - 1)
        BY <2>1, <3>6, <4>4, <4>5, <4>6
      <4>8. v[q - 1].open = Append(o, t) /\ ~v[q - 1].error
        BY <4>5, <4>6, <4>7 DEF Read
      <4>9. ParserStep(v[q - 1], v[q], text[q])
        BY <1>3, <4>4
      <4>10. /\ Append(o, t) # <<>> /\ Last(Append(o, t)) = t
             /\ Front(Append(o, t)) = o
        <5> DEFINE a == Append(o, t)
        <5>1. a \in Seq(Openings) /\ Len(a) = Len(o) + 1 /\ a[Len(o) + 1] = t /\ Len(o) \in Nat
              /\ \A y \in 1 .. Len(o) : a[y] = o[y]
          BY <2>3, <4>2
        <5> HIDE DEF a
        <5>2. a # <<>>
          BY <5>1
        <5>3. Last(a) = t
          BY <5>1 DEF Last
        <5>4. /\ Front(a) \in Seq(Openings) /\ Len(Front(a)) = Len(a) - 1
              /\ \A y \in 1 .. Len(a) - 1 : Front(a)[y] = a[y]
          BY <5>1, <5>2, FrontFacts
        <5>5. Len(Front(a)) = Len(o) /\ \A y \in 1 .. Len(o) : Front(a)[y] = o[y]
          BY <5>1, <5>4
        <5>6. Front(a) = o
          BY <2>3, <5>4, <5>5, SeqEqual
        <5> QED
          BY <5>2, <5>3, <5>6 DEF a
      <4>11. ClosesLast(v[q - 1], text[q]) /\ Front(v[q - 1].open) = o
        BY <4>1, <4>8, <4>10 DEF ClosesLast
      <4>12. Ended(v[q - 1], v[q], text[q], o)
        BY <4>1, <4>8, <4>9, <4>11 DEF ParserStep
      <4> QED
        BY <4>12 DEF Ended, Read, o
    <3> QED
      BY <3>3, <3>4, <3>5, <3>6
  <2> QED
    BY <2>4, <2>5 DEF Nonterminals
<1>6. 2 * n + 2 \in S
  <2> DEFINE k == 2 * n + 2
  <2>1. k \in Nat /\ \A x \in 1 .. k : x - 1 \in S => x \in S
    BY <1>0, <1>5
  <2> HIDE DEF k, S
  <2>2. \A x \in 0 .. k : x \in S
    BY <1>4, <2>1, EveryTurn
  <2>3. k \in S
    BY <2>1, <2>2
  <2> QED
    BY <2>3 DEF k
<1>7. j \in 0 .. n /\ i \in 0 .. n /\ i <= j /\ Rank(what, i + 1, j) < 2 * n + 2
  BY <1>0 DEF Rank, n
<1>8. Fit(what, i, j)
  <2> HIDE DEF Fit
  <2> QED
    BY <1>6, <1>7
<1> QED
  BY <1>8

(* From i to j the parser has read one form: what was open at i stays open *)
(* until j, but for quotes.                                                *)
ReadsForm(v, i, j) ==
    /\ i < j /\ ~v[j].error
    /\ \A m \in i + 1 .. j - 1 : Len(v[m].open) > Len(v[i].open)
    /\ Len(v[j].open) <= Len(v[i].open)
    /\ Len(v[j].open) >= Len(Unquoted(v[i].open))

(* From i to j it has read a list of forms: it ends where it began.        *)
ReadsForms(v, i, j) ==
    /\ ~v[j].error
    /\ Unquoted(v[i].open) = v[i].open
    /\ NoLessOpen(v, i, j)
    /\ Len(v[j].open) = Len(v[i].open)

ReadsAs(v, what, i, j) == IF what = "forms" THEN ReadsForms(v, i, j) ELSE ReadsForm(v, i, j)

\* An opening bracket stays open until a step that closes it.
LEMMA OpenUntilClosed ==
    ASSUME NEW p \in ParserStates, NEW q \in ParserStates, NEW t \in Tokens,
           ParserStep(p, q, t), ~q.error, NEW o \in Seq(Openings), NEW b \in Openers,
           Len(p.open) >= Len(o) + 1,
           \A x \in 1 .. Len(o) + 1 : p.open[x] = Append(o, b)[x],
           Len(q.open) <= Len(o)
    PROVE  <<b, t>> \in Pairs /\ Len(p.open) = Len(o) + 1 /\ q.open = Unquoted(o)
<1> DEFINE h == Len(o)
           s == p.open
<1>0. h \in Nat /\ s \in Seq(Openings) /\ Len(s) \in Nat /\ q.open \in Seq(Openings) /\ Len(q.open) \in Nat
  BY DEF ParserStates
<1>1. /\ \A x \in 1 .. h : s[x] = o[x]
      /\ s[h + 1] = b
  <2> DEFINE a == Append(o, b)
  <2>1. a[h + 1] = b /\ \A x \in 1 .. h : a[x] = o[x]
    OBVIOUS
  <2>2. h + 1 \in 1 .. h + 1 /\ \A x \in 1 .. h : x \in 1 .. h + 1
    BY <1>0
  <2> HIDE DEF a
  <2> QED
    BY <2>1, <2>2 DEF a
<1>2. b # "'"
  BY DEF Openers
<1>3. \/ t \in Openings /\ Opened(p, q, t)
      \/ t = "a" /\ Ended(p, q, t, p.open)
      \/ t \in Closers /\ ClosesLast(p, t) /\ Ended(p, q, t, Front(p.open))
  BY OpenStep
<1> HIDE DEF h, s
<1>4. ~Opened(p, q, t)
  <2>1. Opened(p, q, t) => Len(q.open) = Len(s) + 1
    BY <1>0 DEF Opened, s
  <2> QED
    BY <1>0, <2>1 DEF h, s
\* What is left without quotes holds the bracket.
<1>5. ASSUME NEW f \in Seq(Openings), Len(f) >= h + 1, f[h + 1] = b
      PROVE  Len(Unquoted(f)) >= h + 1
  <2> DEFINE u == Unquoted(f)
  <2>1. WithoutQuotes(u, f)
    BY UnquotedFacts
  <2> HIDE DEF u
  <2>2. Len(u) \in Nat /\ Len(f) \in Nat /\ \A x \in Len(u) + 1 .. Len(f) : f[x] = "'"
    BY <2>1 DEF WithoutQuotes
  <2>3. ~(h + 1 \in Len(u) + 1 .. Len(f))
    BY <1>2, <1>5, <2>2
  <2>4. Len(u) >= h + 1
    BY <1>0, <1>5, <2>2, <2>3
  <2> QED
    BY <2>4 DEF u
<1>6. ~Ended(p, q, t, s)
  <2>1. Ended(p, q, t, s) => Len(q.open) >= h + 1
    <3>1. Len(s) >= h + 1
      BY DEF h, s
    <3> QED
      BY <1>0, <1>1, <1>5, <3>1 DEF Ended
  <2> QED
    BY <1>0, <2>1 DEF h
<1>7. t \in Closers /\ ClosesLast(p, t) /\ Ended(p, q, t, Front(s))
  BY <1>3, <1>4, <1>6 DEF s
<1>8. s # <<>>
  BY <1>7 DEF ClosesLast, s
<1>9. /\ Front(s) \in Seq(Openings) /\ Len(Front(s)) = Len(s) - 1
      /\ \A x \in 1 .. Len(s) - 1 : Front(s)[x] = s[x]
  BY <1>0, <1>8, FrontFacts
<1>10. Len(s) = h + 1
  <2>1. Len(s) >= h + 1
    BY DEF h, s
  <2>2. CASE Len(s) > h + 1
    <3>1. Len(Front(s)) >= h + 1 /\ h + 1 \in 1 .. Len(s) - 1
      BY <1>0, <1>9, <2>2
    <3>2. Front(s)[h + 1] = b
      BY <1>1, <1>9, <3>1
    <3>3. Len(Unquoted(Front(s))) >= h + 1
      BY <1>5, <1>9, <3>1, <3>2
    <3>4. Len(q.open) >= h + 1 /\ Len(q.open) <= h
      BY <1>7, <3>3 DEF Ended, h
    <3> QED
      BY <1>0, <3>4
  <2> QED
    BY <1>0, <2>1, <2>2
<1>11. Front(s) = o
  <2>1. Len(Front(s)) = Len(o) /\ \A x \in 1 .. Len(o) : Front(s)[x] = o[x]
    BY <1>0, <1>1, <1>9, <1>10 DEF h
  <2> QED
    BY <1>9, <2>1, SeqEqual
<1>12. <<b, t>> \in Pairs
  <2>1. s[h + 1] = Opposite(t)
    BY <1>7, <1>10 DEF ClosesLast, Last, s
  <2> QED
    BY <1>1, <1>7, <2>1, PairFacts
<1>13. q.open = Unquoted(o)
  BY <1>7, <1>11 DEF Ended
<1> QED
  BY <1>10, <1>12, <1>13 DEF s, h

Begins(s, a, h) == \A x \in 1 .. h : s[x] = a[x]

\* The same, with its last hypothesis as a predicate.
LEMMA ClosedByItsPair ==
    ASSUME NEW p \in ParserStates, NEW q \in ParserStates, NEW t \in Tokens,
           ParserStep(p, q, t), ~q.error, NEW o \in Seq(Openings), NEW b \in Openers,
           Len(p.open) >= Len(o) + 1, Begins(p.open, Append(o, b), Len(o) + 1),
           Len(q.open) <= Len(o)
    PROVE  <<b, t>> \in Pairs /\ Len(p.open) = Len(o) + 1 /\ q.open = Unquoted(o)
<1>1. \A x \in 1 .. Len(o) + 1 : p.open[x] = Append(o, b)[x]
  BY DEF Begins
<1> QED
  BY <1>1, OpenUntilClosed

(* What the parser reads the grammar derives.                              *)
LEMMA ReadIsDerived ==
    ASSUME NEW text \in Seq(Tokens), NEW v, Parses(v, text), NEW d, Derives(d, text),
           NEW what \in Nonterminals, NEW i \in 0 .. Len(text), NEW j \in i .. Len(text),
           ReadsAs(v, what, i, j)
    PROVE  /\ d[<<what, <<i + 1, j>>>>]
           /\ what = "form" => v[j].open = Unquoted(v[i].open)
<1> DEFINE n == Len(text)
           Right(w, p, q) == /\ d[<<w, <<p + 1, q>>>>]
                             /\ w = "form" => v[q].open = Unquoted(v[p].open)
           S == {x \in 0 .. 2 * n + 2 : \A w \in Nonterminals, p \in 0 .. n, q \in 0 .. n :
                    p <= q /\ Rank(w, p + 1, q) < x /\ ReadsAs(v, w, p, q) => Right(w, p, q)}
<1>0. n \in Nat /\ (\A p \in 1 .. n : text[p] \in Tokens) /\ 2 * n + 2 \in Nat
  OBVIOUS
<1>1. ASSUME NEW w \in Nonterminals, NEW p \in 0 .. n, NEW q \in 0 .. n
      PROVE  d[<<w, <<p + 1, q>>>>] = DerivedBy(d, text, w, p + 1, q)
  <2>1. p + 1 \in 1 .. n + 1
    BY <1>0
  <2> QED
    BY <2>1 DEF Derives
<1>2. \A p \in 0 .. n : /\ v[p] \in ParserStates /\ v[p].open \in Seq(Openings)
                        /\ Len(v[p].open) \in Nat
  BY DEF Parses, ParserStates
<1>3. ASSUME NEW p \in 0 .. n - 1
      PROVE  ParserStep(v[p], v[p + 1], text[p + 1]) /\ text[p + 1] \in Tokens
  <2>1. p + 1 \in 1 .. n /\ p + 1 - 1 = p
    BY <1>0
  <2> QED
    BY <1>0, <2>1 DEF Parses
<1>b. ASSUME NEW q \in 0 .. n, ~v[q].error
      PROVE  \A m \in 0 .. q : ~v[m].error
  BY <1>b, NoErrorBefore
<1>c. ASSUME NEW q \in 0 .. n, ~v[q].error, NEW a \in 0 .. q, NoLessOpen(v, a, q)
      PROVE  StillOpen(v, a, q)
  BY <1>c, OpenBelow
<1>d. \A p \in 0 .. n : /\ Len(Unquoted(v[p].open)) \in Nat
                        /\ Len(Unquoted(v[p].open)) <= Len(v[p].open)
  <2> SUFFICES ASSUME NEW p \in 0 .. n
               PROVE  /\ Len(Unquoted(v[p].open)) \in Nat
                      /\ Len(Unquoted(v[p].open)) <= Len(v[p].open)
    OBVIOUS
  <2>1. WithoutQuotes(Unquoted(v[p].open), v[p].open)
    BY <1>2, UnquotedFacts
  <2> QED
    BY <2>1 DEF WithoutQuotes
<1> HIDE DEF n
<1>4. 0 \in S
  <2>1. ASSUME NEW w \in Nonterminals, NEW p \in 0 .. n, NEW q \in 0 .. n, p <= q
        PROVE  ~(Rank(w, p + 1, q) < 0)
    BY <1>0, <2>1 DEF Rank
  <2> HIDE DEF Right
  <2> QED
    BY <1>0, <2>1
<1>5. ASSUME NEW x \in 1 .. 2 * n + 2, x - 1 \in S PROVE x \in S
  <2> DEFINE Lower(w, p, q) == /\ w \in Nonterminals /\ p \in 0 .. n /\ q \in 0 .. n /\ p <= q
                               /\ Rank(w, p + 1, q) < x - 1
  <2>1. ASSUME NEW w, NEW p, NEW q, Lower(w, p, q), ReadsAs(v, w, p, q)
        PROVE  Right(w, p, q)
    <3> HIDE DEF Right
    <3> QED
      BY <1>5, <2>1
  <2>0. x \in 0 .. 2 * n + 2
    BY <1>0
  <2> SUFFICES ASSUME NEW w \in Nonterminals, NEW p \in 0 .. n, NEW q \in 0 .. n, p <= q,
                      Rank(w, p + 1, q) < x, ReadsAs(v, w, p, q)
               PROVE  Right(w, p, q)
    <3> HIDE DEF Right
    <3> QED
      BY <2>0, Zenon
  <2> HIDE DEF S, Lower
  <2> DEFINE o == v[p].open
             h == Len(o)
  <2>2. d[<<w, <<p + 1, q>>>>] = DerivedBy(d, text, w, p + 1, q)
    BY <1>1
  <2>3. o \in Seq(Openings) /\ h \in Nat /\ v[p] \in ParserStates /\ v[q] \in ParserStates
        /\ Len(v[q].open) \in Nat
    BY <1>2
  <2>o. v[p].open = o
    OBVIOUS
  <2>h. Len(v[p].open) = h
    OBVIOUS
  <2> HIDE DEF o
  <2>n. "form" \in Nonterminals /\ "forms" \in Nonterminals
    BY DEF Nonterminals
  <2>x. p \in Int /\ q \in Int /\ x \in Int /\ n \in Int /\ 0 <= p /\ q <= n
    BY <1>0
  <2>4. CASE w = "forms"
    <3>0. ReadsForms(v, p, q)
      BY <2>4 DEF ReadsAs
    <3>1. CASE p = q
      <4>1. p + 1 > q
        BY <2>x, <3>1
      <4> QED
        BY <2>2, <2>4, <4>1 DEF DerivedBy
    <3>2. CASE p # q
      <4> DEFINE K == {k \in p + 1 .. q : Len(v[k].open) <= h}
      <4>1. q \in K
        BY <2>h, <2>x, <2>3, <3>0, <3>2 DEF ReadsForms
      <4>2. PICK k \in K : \A y \in K : k <= y
        <5>1. K \in SUBSET Nat
          BY <2>x
        <5> HIDE DEF K
        <5> QED
          BY <4>1, <5>1, LeastNat
      <4>3. k \in p + 1 .. q /\ Len(v[k].open) <= h /\ k \in 0 .. n /\ k \in p .. q /\ k \in 0 .. q
        <5>1. k \in p + 1 .. q /\ Len(v[k].open) <= h
          BY <4>2
        <5> QED
          BY <2>x, <5>1
      <4>4. ASSUME NEW m \in p + 1 .. k - 1 PROVE Len(v[m].open) > h
        <5>1. m \in p + 1 .. q /\ ~(k <= m) /\ m \in 0 .. n
          BY <2>x, <4>3
        <5>2. m \notin K
          <6> HIDE DEF K
          <6> QED
            BY <4>2, <5>1
        <5>3. ~(Len(v[m].open) <= h)
          BY <5>1, <5>2
        <5> QED
          BY <1>2, <2>3, <5>1, <5>3
      <4> HIDE DEF K, h
      <4>5. Len(v[k].open) = h /\ ~v[k].error
        <5>1. Len(v[k].open) >= h
          BY <2>h, <3>0, <4>3 DEF ReadsForms, NoLessOpen
        <5>2. ~v[k].error
          BY <1>b, <3>0, <4>3 DEF ReadsForms
        <5> QED
          BY <1>2, <2>3, <4>3, <5>1, <5>2
      <4>6. ReadsForm(v, p, k)
        <5>1. Len(Unquoted(v[p].open)) = h
          BY <2>h, <3>0 DEF ReadsForms
        <5>2. p < k
          BY <2>x, <4>3
        <5> QED
          BY <2>h, <2>3, <4>4, <4>5, <5>1, <5>2 DEF ReadsForm
      <4>7. Lower("form", p, k) /\ Lower("forms", k, q)
        <5>1. k \in Int /\ p + 1 <= k /\ k <= q
          BY <2>x, <4>3
        <5>2. 2 * (q - (p + 1) + 1) + 1 < x
          BY <2>4 DEF Rank
        <5>3. 2 * (k - (p + 1) + 1) + 0 < x - 1 /\ 2 * (q - (k + 1) + 1) + 1 < x - 1
          BY <2>x, <5>1, <5>2
        <5>4. Rank("form", p + 1, k) < x - 1 /\ Rank("forms", k + 1, q) < x - 1
          BY <5>3 DEF Rank
        <5> QED
          BY <2>n, <2>x, <4>3, <5>1, <5>4 DEF Lower
      <4>8. d[<<"form", <<p + 1, k>>>>] /\ v[k].open = o
        <5>1. ReadsAs(v, "form", p, k)
          BY <4>6 DEF ReadsAs
        <5>2. Right("form", p, k)
          BY <2>1, <4>7, <5>1
        <5> QED
          BY <2>o, <3>0, <5>2 DEF ReadsForms
      <4>9. ReadsForms(v, k, q)
        <5>1. NoLessOpen(v, k, q)
          <6> SUFFICES ASSUME NEW m \in k .. q PROVE Len(v[m].open) >= Len(v[k].open)
            BY DEF NoLessOpen
          <6>1. m \in p .. q
            BY <2>x, <4>3
          <6> QED
            BY <2>h, <3>0, <4>5, <6>1 DEF ReadsForms, NoLessOpen
        <5> QED
          BY <2>o, <3>0, <4>8, <5>1 DEF ReadsForms
      <4>10. d[<<"forms", <<k + 1, q>>>>]
        <5>1. ReadsAs(v, "forms", k, q)
          BY <4>9 DEF ReadsAs
        <5>2. Right("forms", k, q)
          BY <2>1, <4>7, <5>1
        <5> QED
          BY <5>2
      <4>11. DerivedBy(d, text, w, p + 1, q)
        BY <2>4, <4>3, <4>8, <4>10 DEF DerivedBy
      <4> QED
        BY <2>2, <2>4, <4>11
    <3> QED
      BY <3>1, <3>2
  <2>5. CASE w = "form"
    <3> DEFINE t == text[p + 1]
    <3>0. ReadsForm(v, p, q)
      BY <2>5 DEF ReadsAs
    <3>1. p < q /\ ~v[q].error /\ Len(v[q].open) <= h /\ Len(v[q].open) >= Len(Unquoted(o))
          /\ \A m \in p + 1 .. q - 1 : Len(v[m].open) > h
      BY <2>o, <2>h, <3>0 DEF ReadsForm
    <3> HIDE DEF h
    <3>a. p \in 0 .. n - 1 /\ p + 1 \in 0 .. n /\ p + 1 <= q /\ p + 1 \in 0 .. q /\ p + 1 \in p .. q
          /\ (p + 1 # q => p + 1 \in p + 1 .. q - 1)
      BY <2>x, <3>1
    <3>2. /\ ParserStep(v[p], v[p + 1], t) /\ t \in Tokens
          /\ v[p + 1] \in ParserStates /\ ~v[p + 1].error
      BY <1>2, <1>3, <1>b, <3>1, <3>a
    <3> HIDE DEF t
    <3>3. \/ t \in Openings /\ Opened(v[p], v[p + 1], t)
          \/ t = "a" /\ Ended(v[p], v[p + 1], t, o)
          \/ t \in Closers /\ ClosesLast(v[p], t) /\ Ended(v[p], v[p + 1], t, Front(o))
      BY <2>3, <2>o, <3>2, OpenStep
    <3>r. 2 * (q - (p + 1) + 1) < x
      BY <2>5, <2>x DEF Rank
    <3>u. WithoutQuotes(Unquoted(o), o)
      BY <2>3, UnquotedFacts
    <3>4. CASE t = "a" /\ Ended(v[p], v[p + 1], t, o)
      <4>1. v[p + 1].open = Unquoted(o)
        BY <3>4 DEF Ended
      <4>2. Len(v[p + 1].open) <= h
        BY <3>u, <4>1 DEF WithoutQuotes, h
      <4>3. p + 1 = q
        <5>1. Len(v[p + 1].open) \in Nat
          BY <1>2, <3>a
        <5>2. ~(Len(v[p + 1].open) > h)
          BY <2>3, <4>2, <5>1
        <5> QED
          BY <3>1, <3>a, <5>2
      <4>4. DerivedBy(d, text, w, p + 1, q)
        BY <2>5, <3>4, <3>a, <4>3 DEF DerivedBy, t
      <4> QED
        BY <2>2, <2>o, <4>1, <4>3, <4>4
    <3>5. CASE t \in Closers /\ ClosesLast(v[p], t) /\ Ended(v[p], v[p + 1], t, Front(o))
      <4> DEFINE f == Front(o)
      <4>1. o # <<>> /\ o[h] = Opposite(t)
        BY <2>o, <3>5 DEF ClosesLast, Last, h
      <4>2. f \in Seq(Openings) /\ Len(f) = h - 1
        BY <2>3, <4>1, FrontFacts DEF h
      <4> HIDE DEF f
      <4>3. v[p + 1].open = Unquoted(f)
        BY <3>5 DEF Ended, f
      <4>4. WithoutQuotes(Unquoted(f), f)
        BY <4>2, UnquotedFacts
      <4>5. Len(v[p + 1].open) <= h - 1 /\ Len(v[p + 1].open) \in Nat
        BY <4>2, <4>3, <4>4 DEF WithoutQuotes
      <4>6. p + 1 = q
        <5>1. ~(Len(v[p + 1].open) > h)
          BY <2>3, <4>5
        <5> QED
          BY <3>1, <3>a, <5>1
      <4>7. Unquoted(o) = o
        <5>1. o[h] # "'"
          BY <3>5, <4>1 DEF Closers, Opposite
        <5>2. Len(o) = h
          BY DEF h
        <5>3. WithoutQuotes(o, o)
          BY <2>3, <5>1, <5>2 DEF WithoutQuotes
        <5> QED
          BY <2>3, <5>3, UnquotedIs
      <4>8. Len(v[q].open) >= h
        BY <3>1, <4>7 DEF h
      <4> QED
        BY <2>3, <4>5, <4>6, <4>8
    <3>6. CASE t = "'" /\ Opened(v[p], v[p + 1], t)
      <4> DEFINE K == {k \in p + 2 .. q : Len(v[k].open) <= h + 1}
      <4>1. v[p + 1].open = Append(o, "'")
        BY <2>o, <3>6 DEF Opened
      <4>2. Len(v[p + 1].open) = h + 1 /\ "'" \in Openings
        BY <2>3, <4>1 DEF h, Openings
      <4>3. Unquoted(v[p + 1].open) = Unquoted(o)
        BY <2>3, <4>1, <4>2, UnquotedCases
      <4>4. p + 1 # q
        BY <2>3, <3>1, <4>2
      <4>5. q \in K
        <5>1. q \in p + 2 .. q
          BY <2>x, <3>a, <4>4
        <5>2. Len(v[q].open) <= h + 1
          BY <2>3, <3>1
        <5> QED
          BY <5>1, <5>2
      <4>6. PICK k \in K : \A y \in K : k <= y
        <5>1. K \in SUBSET Nat
          BY <2>x
        <5> HIDE DEF K
        <5> QED
          BY <4>5, <5>1, LeastNat
      <4>7. k \in p + 2 .. q /\ Len(v[k].open) <= h + 1 /\ k \in 0 .. n /\ k \in 0 .. q
        <5>1. k \in p + 2 .. q /\ Len(v[k].open) <= h + 1
          BY <4>6
        <5> QED
          BY <2>x, <5>1
      <4>8. ASSUME NEW m \in p + 1 + 1 .. k - 1 PROVE Len(v[m].open) > h + 1
        <5>1. m \in p + 2 .. q /\ ~(k <= m) /\ m \in 0 .. n
          BY <2>x, <4>7
        <5>2. m \notin K
          <6> HIDE DEF K
          <6> QED
            BY <4>6, <5>1
        <5>3. ~(Len(v[m].open) <= h + 1)
          BY <5>1, <5>2
        <5> QED
          BY <1>2, <2>3, <5>1, <5>3
      <4> HIDE DEF K
      <4>9. Len(v[k].open) >= Len(Unquoted(o))
        <5>1. CASE k = q
          BY <3>1, <5>1
        <5>2. CASE k # q
          <6>1. k \in p + 1 .. q - 1
            BY <2>x, <4>7, <5>2
          <6>2. Len(v[k].open) > h /\ Len(v[k].open) \in Nat
            BY <1>2, <3>1, <4>7, <6>1
          <6>3. Len(Unquoted(o)) <= h /\ Len(Unquoted(o)) \in Nat
            BY <3>u DEF WithoutQuotes, h
          <6> QED
            BY <2>3, <6>2, <6>3
        <5> QED
          BY <5>1, <5>2
      <4>10. ReadsForm(v, p + 1, k)
        <5>1. p + 1 < k
          BY <2>x, <4>7
        <5>2. ~v[k].error
          BY <1>b, <3>1, <4>7
        <5> QED
          BY <4>2, <4>3, <4>7, <4>8, <4>9, <5>1, <5>2 DEF ReadsForm
      <4>11. Lower("form", p + 1, k)
        <5>1. k \in Int /\ p + 2 <= k /\ k <= q
          BY <2>x, <4>7
        <5>2. 2 * (k - (p + 1 + 1) + 1) + 0 < x - 1 /\ p + 1 <= k
          BY <2>x, <3>r, <5>1
        <5>3. Rank("form", p + 1 + 1, k) < x - 1
          BY <5>2 DEF Rank
        <5> QED
          BY <2>n, <3>a, <4>7, <5>2, <5>3 DEF Lower
      <4>12. d[<<"form", <<p + 1 + 1, k>>>>] /\ v[k].open = Unquoted(o)
        <5>1. ReadsAs(v, "form", p + 1, k)
          BY <4>10 DEF ReadsAs
        <5>2. Right("form", p + 1, k)
          BY <2>1, <4>11, <5>1
        <5> QED
          BY <4>3, <5>2
      <4>13. k = q
        <5>1. Len(v[k].open) <= h /\ Len(v[k].open) \in Nat
          BY <3>u, <4>12 DEF WithoutQuotes, h
        <5>2. ~(k \in p + 1 .. q - 1)
          BY <2>3, <3>1, <5>1
        <5> QED
          BY <2>x, <4>7, <5>2
      <4>14. DerivedBy(d, text, w, p + 1, q)
        BY <2>5, <3>6, <3>a, <4>12, <4>13 DEF DerivedBy, t
      <4> QED
        BY <2>2, <2>o, <4>12, <4>13, <4>14
    <3>7. CASE t \in Openers /\ Opened(v[p], v[p + 1], t)
      <4> DEFINE k == q - 1
                 a == Append(o, t)
      <4>0. t \in Openings /\ t # "'"
        BY <3>7 DEF Openings, Openers
      <4>1. v[p + 1].open = a /\ a \in Seq(Openings) /\ Len(a) = h + 1
        BY <2>3, <2>o, <3>7, <4>0 DEF Opened, h
      <4>2. Unquoted(a) = a
        BY <2>3, <4>0, UnquotedCases
      <4> HIDE DEF a
      <4>3. p + 1 # q
        BY <2>3, <3>1, <4>1
      <4>4. /\ k \in 0 .. n - 1 /\ k \in 0 .. n /\ p + 1 <= k /\ k + 1 = q /\ p + 1 \in 0 .. k /\ k \in 0 .. q
            /\ k \in p + 1 .. k /\ q \in 0 .. n
        BY <2>x, <3>a, <4>3
      <4>5. \A m \in p + 1 .. k : Len(v[m].open) >= h + 1
        <5> SUFFICES ASSUME NEW m \in p + 1 .. k PROVE Len(v[m].open) >= h + 1
          OBVIOUS
        <5>1. m \in p + 1 .. q - 1 /\ m \in 0 .. n
          BY <2>x
        <5>2. Len(v[m].open) > h /\ Len(v[m].open) \in Nat
          BY <1>2, <3>1, <5>1
        <5> QED
          BY <2>3, <5>2
      <4> HIDE DEF k
      <4>6. v[k] \in ParserStates /\ ~v[k].error /\ ParserStep(v[k], v[q], text[q]) /\ text[q] \in Tokens
        <5>1. ~v[k].error
          BY <1>b, <3>1, <4>4
        <5> QED
          BY <1>2, <1>3, <4>4, <5>1
      <4>7. NoLessOpen(v, p + 1, k)
        BY <4>1, <4>5 DEF NoLessOpen
      <4>8. StillOpen(v, p + 1, k)
        BY <1>c, <4>4, <4>6, <4>7
      <4>9. \A y \in 1 .. Len(o) + 1 : v[k].open[y] = a[y]
        BY <4>1, <4>8 DEF StillOpen, h
      <4>10. Len(v[k].open) >= Len(o) + 1 /\ Len(v[q].open) <= Len(o)
        BY <3>1, <4>4, <4>5 DEF h
      <4>11. <<t, text[q]>> \in Pairs /\ Len(v[k].open) = h + 1 /\ v[q].open = Unquoted(o)
        <5>1. t \in Openers /\ ~v[q].error
          BY <3>1, <3>7
        <5>2. Begins(v[k].open, Append(o, t), Len(o) + 1)
          BY <4>9 DEF a, Begins
        <5>3. /\ v[k] \in ParserStates /\ v[q] \in ParserStates /\ text[q] \in Tokens
              /\ ParserStep(v[k], v[q], text[q]) /\ o \in Seq(Openings)
          BY <2>3, <4>4, <4>6
        <5> DEFINE x0 == v[k]
                   y0 == v[q]
                   z0 == text[q]
        <5>4. /\ x0 \in ParserStates /\ y0 \in ParserStates /\ z0 \in Tokens
              /\ ParserStep(x0, y0, z0) /\ o \in Seq(Openings) /\ t \in Openers /\ ~y0.error
              /\ Begins(x0.open, Append(o, t), Len(o) + 1)
              /\ Len(x0.open) >= Len(o) + 1 /\ Len(y0.open) <= Len(o)
          BY <4>10, <5>1, <5>2, <5>3
        <5> HIDE DEF x0, y0, z0, t, o
        <5>5. <<t, z0>> \in Pairs /\ Len(x0.open) = Len(o) + 1 /\ y0.open = Unquoted(o)
          BY <5>4, ClosedByItsPair
        <5> QED
          BY <5>5 DEF h, x0, y0, z0
      <4>12. ReadsForms(v, p + 1, k)
        BY <4>1, <4>2, <4>6, <4>7, <4>11 DEF ReadsForms
      <4>13. Lower("forms", p + 1, k)
        <5>1. 2 * (k - (p + 1 + 1) + 1) + 1 < x - 1
          BY <2>x, <3>r, <4>4
        <5>2. Rank("forms", p + 1 + 1, k) < x - 1
          BY <5>1 DEF Rank
        <5> QED
          BY <2>n, <3>a, <4>4, <5>2 DEF Lower
      <4>14. d[<<"forms", <<p + 1 + 1, k>>>>]
        <5>1. ReadsAs(v, "forms", p + 1, k)
          BY <4>12 DEF ReadsAs
        <5>2. Right("forms", p + 1, k)
          BY <2>1, <4>13, <5>1
        <5> QED
          BY <5>2
      <4>15. DerivedBy(d, text, w, p + 1, q)
        BY <2>5, <3>a, <4>11, <4>14 DEF DerivedBy, t, k
      <4> QED
        BY <2>2, <2>o, <4>11, <4>15
    <3> QED
      <4>1. t \in Openings => t \in Openers \/ t = "'"
        BY DEF Openings
      <4> QED
        BY <3>3, <3>4, <3>5, <3>6, <3>7, <4>1
  <2> QED
    BY <2>4, <2>5 DEF Nonterminals
<1>6. 2 * n + 2 \in S
  <2> DEFINE k == 2 * n + 2
  <2>1. k \in Nat /\ \A x \in 1 .. k : x - 1 \in S => x \in S
    BY <1>0, <1>5
  <2> HIDE DEF k, S
  <2>2. \A x \in 0 .. k : x \in S
    BY <1>4, <2>1, EveryTurn
  <2>3. k \in S
    BY <2>1, <2>2
  <2> QED
    BY <2>3 DEF k
<1>7. j \in 0 .. n /\ i \in 0 .. n /\ i <= j /\ Rank(what, i + 1, j) < 2 * n + 2
  BY <1>0 DEF Rank, n
<1>8. Right(what, i, j)
  <2> HIDE DEF Right
  <2> QED
    BY <1>6, <1>7
<1> QED
  BY <1>8

-----------------------------------------------------------------------------
(* Forms: the list of forms cuts the text.                                 *)

Flattens(f, s) == f = [i \in 1 .. Len(s) |-> IF i = 1 THEN s[i] ELSE f[i - 1] \o s[i]]

\* The recursive function of FlattenSeq has a value for every prefix.
LEMMA FlattensExist ==
    ASSUME NEW s \in Seq(Seq(Tokens)), s # <<>>
    PROVE  \E f : Flattens(f, s) /\ FlattenSeq(s) = f[Len(s)]
<1> DEFINE Is(f, n) == f = [i \in 1 .. n |-> IF i = 1 THEN s[i] ELSE f[i - 1] \o s[i]]
           S == {n \in Nat : \E f : Is(f, n)}
<1>0. Len(s) \in Nat /\ Len(s) # 0
  OBVIOUS
<1>1. 0 \in S
  <2>1. Is([i \in 1 .. 0 |-> <<>>], 0)
    OBVIOUS
  <2> QED
    BY <2>1
<1>2. ASSUME NEW n \in 1 .. Len(s), n - 1 \in S
      PROVE  n \in S
  <2>1. PICK f : Is(f, n - 1)
    BY <1>2
  <2> DEFINE g == [i \in 1 .. n |-> IF i = n THEN IF n = 1 THEN s[1] ELSE f[n - 1] \o s[n] ELSE f[i]]
             h == [i \in 1 .. n |-> IF i = 1 THEN s[i] ELSE g[i - 1] \o s[i]]
  <2>2. ASSUME NEW i \in 1 .. n
        PROVE  g[i] = h[i]
    <3>1. h[i] = IF i = 1 THEN s[i] ELSE g[i - 1] \o s[i]
      OBVIOUS
    <3>2. i # 1 => g[i - 1] = f[i - 1]
      OBVIOUS
    <3>3. i # n => i \in 1 .. n - 1 /\ g[i] = f[i]
      OBVIOUS
    <3>4. i = n => g[i] = IF i = 1 THEN s[i] ELSE f[i - 1] \o s[i]
      OBVIOUS
    <3>5. i # n => f[i] = IF i = 1 THEN s[i] ELSE f[i - 1] \o s[i]
      BY <2>1, <3>3
    <3> HIDE DEF g, h
    <3> QED
      BY <3>1, <3>2, <3>3, <3>4, <3>5
  <2>3. g = h
    BY <2>2
  <2>4. Is(g, n)
    BY <2>3
  <2> HIDE DEF Is, g
  <2> QED
    BY <2>4
<1>3. \E f : Is(f, Len(s))
  <2> HIDE DEF S
  <2>1. \A i \in 0 .. Len(s) : i \in S
    BY <1>0, <1>1, <1>2, EveryTurn
  <2>2. Len(s) \in S
    BY <1>0, <2>1
  <2> QED
    BY <2>2 DEF S
<1> DEFINE flatten == CHOOSE g : Is(g, Len(s))
<1>4. Is(flatten, Len(s))
  BY <1>3
<1>5. FlattenSeq(s) = flatten[Len(s)]
  BY <1>0 DEF FlattenSeq
<1> HIDE DEF flatten
<1> QED
  BY <1>4, <1>5 DEF Flattens

\* No texts make no text.
LEMMA FlattenNothing == FlattenSeq(<<>>) = <<>>
  BY DEF FlattenSeq

\* Texts make a text.
LEMMA FlattenIsText ==
    ASSUME NEW s \in Seq(Seq(Tokens))
    PROVE  FlattenSeq(s) \in Seq(Tokens)
<1>1. CASE s = <<>>
  <2>1. <<>> \in Seq(Tokens)
    OBVIOUS
  <2> QED
    BY <1>1, <2>1, FlattenNothing
<1>2. CASE s # <<>>
  <2>1. PICK f : Flattens(f, s) /\ FlattenSeq(s) = f[Len(s)]
    BY <1>2, FlattensExist
  <2> DEFINE n == Len(s)
             S == {i \in 0 .. n : i > 0 => f[i] \in Seq(Tokens)}
  <2>2. n \in Nat /\ n # 0 /\ \A i \in 1 .. n : s[i] \in Seq(Tokens)
    BY <1>2
  <2>3. \A i \in 1 .. n : f[i] = IF i = 1 THEN s[i] ELSE f[i - 1] \o s[i]
    BY <2>1 DEF Flattens
  <2> HIDE DEF n
  <2>4. 0 \in S
    BY <2>2
  <2>5. \A i \in 1 .. n : i - 1 \in S => i \in S
    <3> SUFFICES ASSUME NEW i \in 1 .. n, i - 1 \in S PROVE i \in S
      OBVIOUS
    <3>1. CASE i = 1
      BY <2>2, <2>3, <3>1
    <3>2. CASE i # 1
      <4>0. i - 1 > 0
        BY <2>2, <3>2
      <4>1. f[i - 1] \in Seq(Tokens)
        BY <4>0
      <4>3. s[i] \in Seq(Tokens) /\ f[i] = f[i - 1] \o s[i]
        BY <2>2, <2>3, <3>2
      <4>2. f[i] \in Seq(Tokens)
        BY <4>1, <4>3
      <4> QED
        BY <2>2, <4>2
    <3> QED
      BY <3>1, <3>2
  <2>6. n \in S
    <3> HIDE DEF S
    <3>1. \A i \in 0 .. n : i \in S
      BY <2>2, <2>4, <2>5, EveryTurn
    <3> QED
      BY <2>2, <3>1
  <2> QED
    BY <2>1, <2>2, <2>6 DEF n
<1> QED
  BY <1>1, <1>2

\* One more text is put at the end.
LEMMA FlattenAppend ==
    ASSUME NEW s \in Seq(Seq(Tokens)), NEW t \in Seq(Tokens)
    PROVE  FlattenSeq(Append(s, t)) = FlattenSeq(s) \o t
<1> DEFINE r == Append(s, t)
           n == Len(s)
<1>0. /\ r \in Seq(Seq(Tokens)) /\ r # <<>> /\ Len(r) = n + 1 /\ n \in Nat
      /\ r[n + 1] = t /\ \A i \in 1 .. n : r[i] = s[i]
  <2> DEFINE T == Seq(Tokens)
  <2>1. s \in Seq(T) /\ t \in T
    OBVIOUS
  <2> HIDE DEF T
  <2>2. /\ r \in Seq(T) /\ r # <<>> /\ Len(r) = n + 1 /\ n \in Nat
        /\ r[n + 1] = t /\ \A i \in 1 .. n : r[i] = s[i]
    BY <2>1, AppendProperties, LenProperties
  <2> QED
    BY <2>2 DEF T
<1> HIDE DEF r
<1>1. PICK g : Flattens(g, r) /\ FlattenSeq(r) = g[Len(r)]
  BY <1>0, FlattensExist
<1>2. \A i \in 1 .. n + 1 : g[i] = IF i = 1 THEN r[i] ELSE g[i - 1] \o r[i]
  BY <1>0, <1>1 DEF Flattens
<1>3. CASE s = <<>>
  <2>1. n = 0
    BY <1>3
  <2>2. g[1] = t
    BY <1>0, <1>2, <2>1
  <2>3. <<>> \o t = t
    OBVIOUS
  <2>4. FlattenSeq(r) = t
    BY <1>0, <1>1, <2>1, <2>2
  <2> QED
    BY <1>3, <2>3, <2>4, FlattenNothing DEF r
<1>4. CASE s # <<>>
  <2>1. PICK f : Flattens(f, s) /\ FlattenSeq(s) = f[Len(s)]
    BY <1>4, FlattensExist
  <2> DEFINE S == {i \in 0 .. n : i > 0 => f[i] = g[i]}
  <2>2. n # 0 /\ \A i \in 1 .. n : f[i] = IF i = 1 THEN s[i] ELSE f[i - 1] \o s[i]
    <3>1. n # 0
      <4> HIDE DEF n
      <4>1. n = Len(s)
        BY DEF n
      <4> QED
        BY <1>4, <4>1, EmptySeq
    <3>2. \A i \in 1 .. n : f[i] = IF i = 1 THEN s[i] ELSE f[i - 1] \o s[i]
      BY <2>1 DEF Flattens
    <3> QED
      BY <3>1, <3>2
  <2> HIDE DEF n
  <2>4. 0 \in S
    BY <1>0
  <2>5. \A i \in 1 .. n : i - 1 \in S => i \in S
    <3> SUFFICES ASSUME NEW i \in 1 .. n, i - 1 \in S PROVE i \in S
      OBVIOUS
    <3>0. i \in 1 .. n + 1 /\ r[i] = s[i]
      BY <1>0
    <3>1. CASE i = 1
      BY <1>0, <1>2, <2>2, <3>0, <3>1
    <3>2. CASE i # 1
      <4>0. i - 1 > 0
        BY <1>0, <3>2
      <4>1. f[i - 1] = g[i - 1]
        BY <4>0
      <4>2. f[i] = f[i - 1] \o s[i] /\ g[i] = g[i - 1] \o s[i]
        BY <1>2, <2>2, <3>0, <3>2
      <4>3. f[i] = g[i]
        BY <4>1, <4>2
      <4> QED
        BY <1>0, <4>3
    <3> QED
      BY <3>1, <3>2
  <2>6. n \in S
    <3> HIDE DEF S
    <3>1. \A i \in 0 .. n : i \in S
      BY <1>0, <2>4, <2>5, EveryTurn
    <3> QED
      BY <1>0, <3>1
  <2>7. f[n] = g[n] /\ FlattenSeq(s) = f[n]
    BY <1>0, <2>1, <2>2, <2>6 DEF n
  <2>8. g[n + 1] = g[n] \o t
    <3>1. n + 1 \in 1 .. n + 1 /\ n + 1 # 1 /\ n + 1 - 1 = n
      BY <1>0, <2>2
    <3> DEFINE k == n + 1
    <3>2. g[k] = g[k - 1] \o r[k]
      BY <1>2, <3>1
    <3> QED
      BY <1>0, <3>1, <3>2
  <2> QED
    BY <1>0, <1>1, <2>7, <2>8 DEF r
<1> QED
  BY <1>3, <1>4

\* What is put first comes last in the reverse.
LEMMA ReverseCons ==
    ASSUME NEW S, NEW s \in Seq(S), NEW f \in S
    PROVE  /\ Reverse(s) \in Seq(S) /\ <<f>> \o s \in Seq(S)
           /\ Reverse(<<f>> \o s) = Append(Reverse(s), f)
<1> DEFINE n == Len(s)
           c == <<f>> \o s
           r == Reverse(s)
<1>0. n \in Nat /\ \A i \in 1 .. n : s[i] \in S
  OBVIOUS
<1>1. c \in Seq(S) /\ Len(c) = n + 1 /\ c[1] = f /\ \A i \in 2 .. n + 1 : c[i] = s[i - 1]
  OBVIOUS
<1>2. r \in Seq(S) /\ Len(r) = n /\ \A i \in 1 .. n : r[i] = s[n - i + 1]
  <2>1. r = [i \in 1 .. n |-> s[(n - i) + 1]]
    BY DEF Reverse
  <2>2. \A i \in 1 .. n : (n - i) + 1 \in 1 .. n
    BY <1>0
  <2> HIDE DEF n
  <2>3. r \in [1 .. n -> S]
    BY <1>0, <2>1, <2>2
  <2> HIDE DEF r
  <2>4. r \in Seq(S) /\ Len(r) = n
    BY <1>0, <2>3
  <2>5. \A i \in 1 .. n : r[i] = s[(n - i) + 1]
    BY <2>1
  <2> QED
    BY <2>4, <2>5
<1>3. Reverse(c) \in Seq(S) /\ Len(Reverse(c)) = n + 1
      /\ \A i \in 1 .. n + 1 : Reverse(c)[i] = c[n + 2 - i]
  <2> HIDE DEF c, n
  <2>1. Reverse(c) = [i \in 1 .. n + 1 |-> c[((n + 1) - i) + 1]]
    BY <1>1 DEF Reverse
  <2>2. \A i \in 1 .. n + 1 : ((n + 1) - i) + 1 = n + 2 - i /\ n + 2 - i \in 1 .. n + 1
    BY <1>0
  <2>3. \A i \in 1 .. n + 1 : c[i] \in S
    BY <1>0, <1>1
  <2>4. Reverse(c) \in [1 .. n + 1 -> S]
    BY <2>1, <2>2, <2>3
  <2>5. \A i \in 1 .. n + 1 : Reverse(c)[i] = c[n + 2 - i]
    BY <2>1, <2>2
  <2> DEFINE q == Reverse(c)
  <2> HIDE DEF q
  <2>6. q \in Seq(S) /\ Len(q) = n + 1
    BY <1>0, <2>4 DEF q
  <2> QED
    BY <2>5, <2>6 DEF q
<1>4. Append(r, f) \in Seq(S) /\ Len(Append(r, f)) = n + 1 /\ Append(r, f)[n + 1] = f
      /\ \A i \in 1 .. n : Append(r, f)[i] = r[i]
  <2> HIDE DEF r, n
  <2> QED
    BY <1>0, <1>2
<1>5. ASSUME NEW i \in 1 .. n + 1 PROVE Reverse(c)[i] = Append(r, f)[i]
  <2> HIDE DEF r, n, c
  <2>1. CASE i = n + 1
    <3>1. n + 2 - i = 1
      BY <1>0, <2>1
    <3> QED
      BY <1>1, <1>3, <1>4, <2>1, <3>1
  <2>2. CASE i # n + 1
    <3>1. i \in 1 .. n /\ n + 2 - i \in 2 .. n + 1 /\ (n + 2 - i) - 1 = n - i + 1
      BY <1>0, <2>2
    <3> QED
      BY <1>1, <1>2, <1>3, <1>4, <3>1
  <2> QED
    BY <2>1, <2>2
<1>6. Reverse(c) = Append(r, f)
  <2> DEFINE x == Reverse(c)
             y == Append(r, f)
  <2>1. x \in Seq(S) /\ y \in Seq(S) /\ Len(x) = Len(y) /\ \A i \in 1 .. Len(x) : x[i] = y[i]
    BY <1>3, <1>4, <1>5
  <2> HIDE DEF x, y
  <2>2. x = y
    BY <2>1, SeqEqual
  <2> QED
    BY <2>2 DEF x, y
<1> QED
  BY <1>1, <1>2, <1>6

\* The texts of R are forms, and together the first m tokens.
IsCut(R, text, m) ==
    /\ R \in Seq(Seq(Tokens)) /\ FlattenSeq(R) = SubSeq(text, 1, m)
    /\ \A q \in 1 .. Len(R) : InGrammar("form", R[q])

\* No forms cut no tokens.
LEMMA CutNothing ==
    ASSUME NEW text \in Seq(Tokens)
    PROVE  IsCut(<<>>, text, 0)
<1>1. SubSeq(text, 1, 0) = <<>>
  OBVIOUS
<1>2. <<>> \in Seq(Seq(Tokens)) /\ Len(<<>>) = 0
  OBVIOUS
<1>3. 1 .. Len(<<>>) = {}
  BY <1>2
<1>4. FlattenSeq(<<>>) = SubSeq(text, 1, 0)
  BY <1>1, FlattenNothing
<1>5. \A q \in 1 .. Len(<<>>) : InGrammar("form", <<>>[q])
  BY <1>3
<1> QED
  BY <1>2, <1>4, <1>5 DEF IsCut

\* A form that follows those of a cut is one more of it.
LEMMA CutMore ==
    ASSUME NEW text \in Seq(Tokens), NEW m \in 0 .. Len(text), NEW k \in m .. Len(text),
           NEW R, IsCut(R, text, m), InGrammar("form", SubSeq(text, m + 1, k))
    PROVE  IsCut(Append(R, SubSeq(text, m + 1, k)), text, k)
<1> DEFINE f == SubSeq(text, m + 1, k)
<1>1. R \in Seq(Seq(Tokens))
  BY DEF IsCut
<1>2. f \in Seq(Tokens)
  OBVIOUS
<1>3. SubSeq(text, 1, m) \o f = SubSeq(text, 1, k)
  <2>1. 1 \in 1 .. Len(text) + 1 /\ m \in 1 - 1 .. Len(text)
    OBVIOUS
  <2> QED
    BY <2>1, ConcatAdjacentSubSeq
<1> HIDE DEF f
<1>4. FlattenSeq(Append(R, f)) = SubSeq(text, 1, k)
  BY <1>1, <1>2, <1>3, FlattenAppend DEF IsCut
<1>5. ASSUME NEW q \in 1 .. Len(Append(R, f)) PROVE InGrammar("form", Append(R, f)[q])
  <2>1. CASE q = Len(R) + 1
    <3>1. Append(R, f)[q] = f
      BY <1>1, <1>2, <2>1
    <3> QED
      BY <3>1 DEF f
  <2>2. CASE q # Len(R) + 1
    <3>1. q \in 1 .. Len(R) /\ Append(R, f)[q] = R[q]
      BY <1>1, <1>2, <2>2
    <3> QED
      BY <3>1 DEF IsCut
  <2> QED
    BY <2>1, <2>2
<1>6. Append(R, f) \in Seq(Seq(Tokens))
  BY <1>1, <1>2
<1> QED
  BY <1>4, <1>5, <1>6 DEF IsCut, f

\* A token ends the form at the top level or belongs to it.
LEMMA ReadStep ==
    ASSUME NEW p \in ParserStates, NEW q \in ParserStates, NEW t \in Tokens,
           ParserStep(p, q, t), ~q.error
    PROVE  /\ ~p.error
           /\ q.open # <<>> => q.cur = Append(p.cur, t) /\ q.last = p.last /\ q.list = p.list
           /\ q.open = <<>> => q.cur = <<>> /\ q.last = <<Append(p.cur, t)>>
                               /\ q.list = p.last \o p.list
<1>1. ~p.error
  BY OpenStep
<1>2. Opened(p, q, t) \/ \E o : Ended(p, q, t, o)
  BY OpenStep
<1>3. CASE Opened(p, q, t)
  <2>1. q.open # <<>>
    <3>1. p.open \in Seq(Openings) /\ q.open = Append(p.open, t)
      BY <1>3 DEF Opened, ParserStates
    <3> QED
      BY <1>3, <3>1 DEF Opened
  <2> QED
    BY <1>1, <1>3, <2>1 DEF Opened
<1>4. ASSUME NEW o, Ended(p, q, t, o)
      PROVE  /\ q.open # <<>> => q.cur = Append(p.cur, t) /\ q.last = p.last /\ q.list = p.list
             /\ q.open = <<>> => q.cur = <<>> /\ q.last = <<Append(p.cur, t)>>
                                 /\ q.list = p.last \o p.list
  BY <1>4 DEF Ended
<1> QED
  BY <1>1, <1>2, <1>3, <1>4

(* What the parser in state p has on its list when it has completed forms  *)
(* up to token m: all of them but the last, which it keeps apart.          *)
AllButLast(p, text, m) ==
    \/ p.last = <<>> /\ p.list = <<>> /\ m = 0
    \/ \E l \in 0 .. m : /\ IsCut(Reverse(p.list), text, l)
                         /\ p.last = <<SubSeq(text, l + 1, m)>>
                         /\ InGrammar("form", SubSeq(text, l + 1, m))

\* The forms read are those up to m, where nothing was open for the last time.
CutUpTo(v, text, i, m) ==
    /\ v[m].open = <<>> /\ \A x \in m + 1 .. i : v[x].open # <<>>
    /\ v[i].cur = SubSeq(text, m + 1, i)
    /\ AllButLast(v[i], text, m)

\* The list with the form kept apart cuts the text up to m.
LEMMA AllIsCut ==
    ASSUME NEW text \in Seq(Tokens), NEW p \in ParserStates, NEW m \in 0 .. Len(text),
           AllButLast(p, text, m)
    PROVE  IsCut(Reverse(p.last \o p.list), text, m)
<1>0. p.list \in Seq(Seq(Tokens)) /\ Len(text) \in Nat
  BY DEF ParserStates
<1>1. CASE p.last = <<>> /\ p.list = <<>> /\ m = 0
  <2>1. p.last \o p.list = <<>>
    BY <1>1
  <2>2. Reverse(<<>>) = <<>>
    BY DEF Reverse
  <2> QED
    BY <1>1, <2>1, <2>2, CutNothing
<1>2. ASSUME NEW l \in 0 .. m, IsCut(Reverse(p.list), text, l),
             p.last = <<SubSeq(text, l + 1, m)>>, InGrammar("form", SubSeq(text, l + 1, m))
      PROVE  IsCut(Reverse(p.last \o p.list), text, m)
  <2> DEFINE f == SubSeq(text, l + 1, m)
             R == Reverse(p.list)
             T == Seq(Tokens)
  <2>1. l \in 0 .. Len(text) /\ m \in l .. Len(text)
    BY <1>0
  <2>2. f \in T /\ p.list \in Seq(T)
    BY <1>0, <2>1
  <2>3. IsCut(Append(R, f), text, m)
    BY <1>2, <2>1, CutMore
  <2> HIDE DEF f, T
  <2>4. Reverse(<<f>> \o p.list) = Append(R, f)
    BY <2>2, ReverseCons
  <2> QED
    BY <1>2, <2>3, <2>4 DEF f
<1> QED
  BY <1>1, <1>2 DEF AllButLast

(* While there is no error, the parser cuts off every form once it is      *)
(* complete.                                                               *)
LEMMA FormsCutOff ==
    ASSUME NEW text \in Seq(Tokens), NEW v, Parses(v, text), NEW k \in 0 .. Len(text), ~v[k].error
    PROVE  \E m \in 0 .. k : CutUpTo(v, text, k, m)
<1> DEFINE n == Len(text)
           S == {i \in 0 .. k : \E m \in 0 .. i : CutUpTo(v, text, i, m)}
<1>0. n \in Nat /\ k \in 0 .. n /\ k \in Nat
  OBVIOUS
<1>1. /\ \A i \in 0 .. n : v[i] \in ParserStates
      /\ \A i \in 1 .. n : ParserStep(v[i - 1], v[i], text[i]) /\ text[i] \in Tokens
  BY DEF Parses
<1>2. \A i \in 0 .. k : ~v[i].error
  BY NoErrorBefore
<1>3. v[0].open = <<>> /\ v[0].cur = <<>> /\ v[0].last = <<>> /\ v[0].list = <<>>
  BY DEF Parses, ParserInit
<1>d. PICK d : Derives(d, text)
  BY <1>0, GrammarExists
<1>4. 0 \in S
  <2>1. SubSeq(text, 0 + 1, 0) = <<>>
    OBVIOUS
  <2>2. \A x \in 0 + 1 .. 0 : v[x].open # <<>>
    OBVIOUS
  <2>3. CutUpTo(v, text, 0, 0)
    BY <1>3, <2>1, <2>2 DEF CutUpTo, AllButLast
  <2> QED
    BY <1>0, <2>3
<1>5. ASSUME NEW i \in 1 .. k, i - 1 \in S PROVE i \in S
  <2> DEFINE j == i - 1
  <2>0. j \in 0 .. n /\ j \in 0 .. k /\ i \in 0 .. k /\ i \in 1 .. n /\ i = j + 1 /\ j < i /\ i \in 0 .. n
    BY <1>0
  <2>1. PICK m \in 0 .. j : CutUpTo(v, text, j, m)
    BY <1>5
  <2> HIDE DEF n
  <2>2. ParserStep(v[j], v[i], text[i]) /\ text[i] \in Tokens /\ ~v[i].error
    BY <1>1, <1>2, <2>0
  <2> HIDE DEF j
  <2>3. /\ v[i].open # <<>> => v[i].cur = Append(v[j].cur, text[i])
                               /\ v[i].last = v[j].last /\ v[i].list = v[j].list
        /\ v[i].open = <<>> => v[i].cur = <<>> /\ v[i].last = <<Append(v[j].cur, text[i])>>
                               /\ v[i].list = v[j].last \o v[j].list
    BY <1>1, <2>0, <2>2, ReadStep
  <2>4. m \in 0 .. n /\ m \in 0 .. i /\ m < i /\ i \in m .. n /\ m \in Nat
    BY <1>0, <2>0, <2>1
  <2>5. Append(v[j].cur, text[i]) = SubSeq(text, m + 1, i)
    <3>1. v[j].cur = SubSeq(text, m + 1, j)
      BY <2>1 DEF CutUpTo
    <3>2. m + 1 \in 1 .. n /\ i \in m + 1 .. n /\ i - 1 = j
      BY <1>0, <2>0, <2>4
    <3> DEFINE a == m + 1
    <3>3. a \in 1 .. Len(text) /\ i \in a .. Len(text)
      BY <3>2 DEF n
    <3> HIDE DEF a
    <3>4. SubSeq(text, a, i) = SubSeq(text, a, i - 1) \o <<text[i]>>
      BY <3>3, SubSeqRecursiveSecond
    <3>5. SubSeq(text, a, j) \in Seq(Tokens)
      BY <1>0, <2>0, <3>3 DEF n
    <3>6. Append(SubSeq(text, a, j), text[i]) = SubSeq(text, a, j) \o <<text[i]>>
      BY <2>2, <3>5, AppendIsConcat
    <3> QED
      BY <3>1, <3>2, <3>4, <3>6 DEF a
  <2>6. CASE v[i].open # <<>>
    <3>1. v[i].cur = SubSeq(text, m + 1, i)
      BY <2>3, <2>5, <2>6
    <3>2. AllButLast(v[i], text, m)
      BY <2>1, <2>3, <2>6 DEF CutUpTo, AllButLast
    <3>3. v[m].open = <<>> /\ \A x \in m + 1 .. j : v[x].open # <<>>
      BY <2>1 DEF CutUpTo
    <3>4. \A x \in m + 1 .. i : v[x].open # <<>>
      <4> SUFFICES ASSUME NEW x \in m + 1 .. i PROVE v[x].open # <<>>
        OBVIOUS
      <4>1. x = i \/ x \in m + 1 .. j
        BY <2>0, <2>4
      <4> QED
        BY <2>6, <3>3, <4>1
    <3>5. CutUpTo(v, text, i, m)
      BY <3>1, <3>2, <3>3, <3>4 DEF CutUpTo
    <3> QED
      BY <2>0, <2>4, <3>5
  <2>7. CASE v[i].open = <<>>
    <3>1. ReadsForm(v, m, i)
      <4>1. v[m].open = <<>> /\ \A x \in m + 1 .. j : v[x].open # <<>>
        BY <2>1 DEF CutUpTo
      <4>2. Unquoted(<<>>) = <<>>
        <5>1. <<>> \in Seq(Openings) /\ "'" \in Openings
          BY DEF Openings
        <5> QED
          BY <5>1, UnquotedCases
      <4>3. ASSUME NEW x \in m + 1 .. i - 1 PROVE Len(v[x].open) > Len(v[m].open)
        <5>1. x \in m + 1 .. j /\ x \in 0 .. n
          <6>1. x \in Int /\ m + 1 <= x /\ x <= i - 1 /\ i \in Int /\ j \in Int /\ n \in Int
            BY <1>0, <2>0, <2>4
          <6>2. x <= j /\ x <= n /\ 0 <= x
            BY <1>0, <2>0, <2>4, <6>1
          <6> QED
            BY <6>1, <6>2
        <5>2. v[x].open \in Seq(Openings) /\ v[x].open # <<>>
          BY <1>1, <4>1, <5>1 DEF ParserStates
        <5>3. Len(v[x].open) \in Nat \ {0}
          BY <5>2, EmptySeq
        <5>4. Len(v[m].open) = 0
          BY <4>1
        <5> QED
          BY <5>3, <5>4
      <4> QED
        BY <2>2, <2>4, <2>7, <4>1, <4>2, <4>3 DEF ReadsForm
    <3>2. d[<<"form", <<m + 1, i>>>>]
      <4>1. "form" \in Nonterminals /\ ReadsAs(v, "form", m, i)
        BY <3>1 DEF Nonterminals, ReadsAs
      <4> QED
        BY <1>d, <2>4, <4>1, ReadIsDerived DEF n
    <3>3. InGrammar("form", SubSeq(text, m + 1, i))
      <4>1. "form" \in Nonterminals
        BY DEF Nonterminals
      <4> QED
        BY <1>d, <2>4, <3>2, <4>1, GrammarLocal DEF n
    <3>4. IsCut(Reverse(v[i].list), text, m)
      <4>1. AllButLast(v[j], text, m)
        BY <2>1 DEF CutUpTo
      <4>2. IsCut(Reverse(v[j].last \o v[j].list), text, m)
        BY <1>1, <2>0, <2>4, <4>1, AllIsCut DEF n
      <4> QED
        BY <2>3, <2>7, <4>2
    <3>5. AllButLast(v[i], text, i)
      BY <2>3, <2>4, <2>5, <2>7, <3>3, <3>4 DEF AllButLast
    <3>6. v[i].cur = SubSeq(text, i + 1, i) /\ \A x \in i + 1 .. i : v[x].open # <<>>
      <4>1. i + 1 > i /\ i \in Int /\ i + 1 .. i = {}
        BY <2>0
      <4>2. SubSeq(text, i + 1, i) = <<>>
        BY <4>1
      <4> QED
        BY <2>3, <2>7, <4>1, <4>2
    <3>7. CutUpTo(v, text, i, i)
      BY <2>7, <3>5, <3>6 DEF CutUpTo
    <3> QED
      BY <2>0, <3>7
  <2> QED
    BY <2>6, <2>7
<1>6. k \in S
  <2> HIDE DEF S
  <2>1. \A i \in 0 .. k : i \in S
    BY <1>0, <1>4, <1>5, EveryTurn
  <2> QED
    BY <1>0, <2>1
<1> QED
  BY <1>6

\* The parser's fields stay as they were before the syntax error.
StoppedAt(v, i, e) ==
    /\ ~v[e].error /\ \A x \in e + 1 .. i : v[x].error
    /\ v[i].open = v[e].open /\ v[i].cur = v[e].cur /\ v[i].last = v[e].last
    /\ v[i].list = v[e].list

(* yyparse fails at the first error, and its list is that of the state e   *)
(* before it.                                                              *)
LEMMA ParserStops ==
    ASSUME NEW text \in Seq(Tokens), NEW v, Parses(v, text)
    PROVE  \E e \in 0 .. Len(text) : StoppedAt(v, Len(text), e)
<1> DEFINE n == Len(text)
           S == {i \in 0 .. n : \E e \in 0 .. i : StoppedAt(v, i, e)}
<1>0. n \in Nat
  OBVIOUS
<1>1. /\ \A i \in 0 .. n : v[i] \in ParserStates
      /\ \A i \in 1 .. n : ParserStep(v[i - 1], v[i], text[i]) /\ text[i] \in Tokens
      /\ ~v[0].error
  BY DEF Parses, ParserInit
<1> HIDE DEF n
<1>2. 0 \in S
  <2>1. StoppedAt(v, 0, 0)
    BY <1>1 DEF StoppedAt
  <2> QED
    BY <1>0, <2>1
<1>3. ASSUME NEW i \in 1 .. n, i - 1 \in S PROVE i \in S
  <2> DEFINE j == i - 1
  <2>0. i \in 0 .. n /\ j \in 0 .. n /\ i = j + 1 /\ i \in Nat
    BY <1>0
  <2>1. PICK e \in 0 .. j : StoppedAt(v, j, e)
    BY <1>3
  <2>2. ParserStep(v[j], v[i], text[i]) /\ text[i] \in Tokens
    BY <1>1
  <2> HIDE DEF j
  <2>3. CASE ~v[i].error
    <3>1. StoppedAt(v, i, i)
      <4>1. i + 1 .. i = {}
        BY <2>0
      <4> QED
        BY <2>3, <4>1 DEF StoppedAt
    <3> QED
      BY <2>0, <3>1
  <2>4. CASE v[i].error
    <3>1. v[i].open = v[j].open /\ v[i].cur = v[j].cur /\ v[i].last = v[j].last
          /\ v[i].list = v[j].list
      <4>1. CASE v[j].error
        BY <2>2, <4>1 DEF ParserStep
      <4>2. CASE ~v[j].error
        <5>1. ~Opened(v[j], v[i], text[i])
          BY <2>4 DEF Opened
        <5>2. \A o : ~Ended(v[j], v[i], text[i], o)
          BY <2>4 DEF Ended
        <5>3. text[i] \in Openings \/ text[i] = "a" \/ text[i] \in Closers
          BY <2>2 DEF Openings, Openers, Closers, Tokens
        <5>4. Failed(v[j], v[i])
          BY <2>2, <4>2, <5>1, <5>2, <5>3 DEF ParserStep
        <5> QED
          BY <5>4 DEF Failed
      <4> QED
        BY <4>1, <4>2
    <3>2. \A x \in e + 1 .. i : v[x].error
      <4> SUFFICES ASSUME NEW x \in e + 1 .. i PROVE v[x].error
        OBVIOUS
      <4>1. x = i \/ x \in e + 1 .. j
        BY <2>0
      <4> QED
        BY <2>1, <2>4, <4>1 DEF StoppedAt
    <3>3. StoppedAt(v, i, e)
      BY <2>1, <3>1, <3>2 DEF StoppedAt
    <3>4. e \in 0 .. i
      BY <2>0
    <3> QED
      BY <2>0, <3>3, <3>4
  <2> QED
    BY <2>3, <2>4
<1>4. n \in S
  <2> HIDE DEF S
  <2>1. \A i \in 0 .. n : i \in S
    BY <1>0, <1>2, <1>3, EveryTurn
  <2> QED
    BY <1>0, <2>1
<1> QED
  BY <1>4 DEF n

\* The parser has read whole forms only.
BetweenForms(v, i) == ~v[i].error /\ v[i].open = <<>>

\* The list cuts the text up to token h into forms; it last read whole forms
\* only at m, and from h to m there is at most one.
ListCuts(v, text, m, h) ==
    /\ IsCut(Stu_parse_buf(text), text, h)
    /\ h = m \/ InGrammar("form", SubSeq(text, h + 1, m))
    /\ BetweenForms(v, m)
    /\ \A x \in m + 1 .. Len(text) : ~BetweenForms(v, x)
    /\ BetweenForms(v, Len(text)) => h = Len(text)

(* The list Stu_parse_buf returns cuts the text, up to the last place      *)
(* where only whole forms have been read, or without the form before that  *)
(* place.                                                                  *)
LEMMA ListIsCut ==
    ASSUME NEW text \in Seq(Tokens), NEW v, Parses(v, text)
    PROVE  \E m \in 0 .. Len(text) : \E h \in 0 .. m : ListCuts(v, text, m, h)
<1> DEFINE n == Len(text)
           p == v[n]
<1>0. n \in Nat
  OBVIOUS
<1>1. PICK e \in 0 .. n : StoppedAt(v, n, e)
  BY ParserStops
<1>2. ~v[e].error
  BY <1>1 DEF StoppedAt
<1>3. PICK m \in 0 .. e : CutUpTo(v, text, e, m)
  BY <1>2, FormsCutOff
<1>4. m \in 0 .. n /\ e \in 0 .. n /\ n \in 0 .. n /\ m \in Nat /\ e \in Nat
  BY <1>0
<1>5. /\ ParsedAll(text) = p
      /\ p \in ParserStates /\ v[e] \in ParserStates
  BY <1>4 DEF Parses
<1> HIDE DEF n
<1>6. p.open = v[e].open /\ p.last = v[e].last /\ p.list = v[e].list
  BY <1>1 DEF StoppedAt
<1>7. BetweenForms(v, m)
  BY <1>2, <1>3, <1>4, NoErrorBefore DEF BetweenForms, CutUpTo, n
<1>8. \A x \in m + 1 .. n : ~BetweenForms(v, x)
  <2> SUFFICES ASSUME NEW x \in m + 1 .. n PROVE ~BetweenForms(v, x)
    OBVIOUS
  <2>1. x \in m + 1 .. e \/ x \in e + 1 .. n
    BY <1>0, <1>4
  <2> QED
    BY <1>1, <1>3, <2>1 DEF StoppedAt, CutUpTo, BetweenForms
<1>9. AllButLast(p, text, m)
  BY <1>3, <1>6 DEF CutUpTo, AllButLast
<1>10. BetweenForms(v, n) => m = n
  <2>1. m # n => n \in m + 1 .. n
    BY <1>0, <1>4
  <2> QED
    BY <1>8, <2>1
<1>11. CASE p.open = <<>>
  <2>1. Stu_parse_buf(text) = Reverse(p.last \o p.list)
    BY <1>5, <1>11 DEF Stu_parse_buf, Listed
  <2>2. IsCut(Reverse(p.last \o p.list), text, m)
    <3>1. p \in ParserStates /\ m \in 0 .. Len(text)
      BY <1>4, <1>5 DEF n
    <3> HIDE DEF p
    <3> QED
      BY <1>9, <3>1, AllIsCut
  <2>3. ListCuts(v, text, m, m)
    BY <1>7, <1>8, <1>10, <2>1, <2>2 DEF ListCuts, n
  <2>4. m \in 0 .. m
    BY <1>4
  <2> QED
    BY <1>4, <2>3, <2>4 DEF n
<1>12. CASE p.open # <<>>
  <2>0. ~BetweenForms(v, n)
    BY <1>12 DEF BetweenForms
  <2>1. Stu_parse_buf(text) = Reverse(p.list)
    BY <1>5, <1>12 DEF Stu_parse_buf, Listed
  <2>2. CASE p.last = <<>> /\ p.list = <<>> /\ m = 0
    <3>1. Reverse(<<>>) = <<>>
      BY DEF Reverse
    <3>2. IsCut(Stu_parse_buf(text), text, m)
      BY <2>1, <2>2, <3>1, CutNothing
    <3>3. ListCuts(v, text, m, m)
      BY <1>7, <1>8, <2>0, <3>2 DEF ListCuts, n
    <3>4. m \in 0 .. m
      BY <1>4
    <3> QED
      BY <1>4, <3>3, <3>4 DEF n
  <2>3. ASSUME NEW l \in 0 .. m, IsCut(Reverse(p.list), text, l),
               InGrammar("form", SubSeq(text, l + 1, m))
        PROVE  ListCuts(v, text, m, l)
    BY <1>7, <1>8, <2>0, <2>1, <2>3 DEF ListCuts, n
  <2> QED
    BY <1>4, <1>9, <2>2, <2>3 DEF AllButLast, n
<1> QED
  BY <1>11, <1>12

\* The prefixes that are whole forms are those after which nothing is open.
LEMMA WholePrefixes ==
    ASSUME NEW text \in Seq(Tokens), NEW v, Parses(v, text), NEW k \in 0 .. Len(text)
    PROVE  InGrammar("forms", SubSeq(text, 1, k)) <=> BetweenForms(v, k)
<1>0. Len(text) \in Nat /\ 0 \in 0 .. Len(text) /\ "forms" \in Nonterminals
  BY DEF Nonterminals
<1>d. PICK d : Derives(d, text)
  BY <1>0, GrammarExists
<1>1. InGrammar("forms", SubSeq(text, 1, k)) = d[<<"forms", <<1, k>>>>]
  <2>1. k \in 0 .. Len(text) /\ InGrammar("forms", SubSeq(text, 0 + 1, k)) = d[<<"forms", <<0 + 1, k>>>>]
    BY <1>0, <1>d, GrammarLocal
  <2> QED
    BY <2>1
<1>2. v[0].open = <<>> /\ ~v[0].error
  BY DEF Parses, ParserInit
<1>3. Unquoted(<<>>) = <<>>
  <2>1. <<>> \in Seq(Openings) /\ "'" \in Openings
    BY DEF Openings
  <2> QED
    BY <2>1, UnquotedCases
<1>4. ASSUME d[<<"forms", <<1, k>>>>] PROVE BetweenForms(v, k)
  <2>1. d[<<"forms", <<0 + 1, k>>>>]
    BY <1>4
  <2>2. Read(v, 0, k)
    BY <1>0, <1>d, <1>2, <1>3, <2>1, DerivedIsRead
  <2> QED
    BY <1>2, <1>3, <2>2 DEF Read, BetweenForms
<1>5. ASSUME BetweenForms(v, k) PROVE d[<<"forms", <<1, k>>>>]
  <2>1. ASSUME NEW x \in 0 .. k PROVE Len(v[x].open) >= Len(v[0].open)
    <3>1. x \in 0 .. Len(text)
      BY <1>0
    <3>2. v[x].open \in Seq(Openings)
      BY <3>1 DEF Parses, ParserStates
    <3>3. Len(v[x].open) \in Nat /\ Len(v[0].open) = 0
      BY <1>2, <3>2
    <3> QED
      BY <3>3
  <2>2. ReadsForms(v, 0, k)
    BY <1>2, <1>3, <1>5, <2>1 DEF ReadsForms, NoLessOpen, BetweenForms
  <2>3. ReadsAs(v, "forms", 0, k)
    BY <2>2 DEF ReadsAs
  <2>4. d[<<"forms", <<0 + 1, k>>>>]
    BY <1>0, <1>d, <2>3, ReadIsDerived
  <2> QED
    BY <2>4
<1> QED
  BY <1>1, <1>4, <1>5

\* What LosesLastOnly says of the form holds of every text.
LEMMA LosesLastOnlyOf ==
    ASSUME NEW text \in Seq(Tokens)
    PROVE  LET list == Stu_parse_buf(text)
               kept == Len(FlattenSeq(list))
               wholes == {n \in 0 .. Len(text) : InGrammar("forms", SubSeq(text, 1, n))}
               whole == CHOOSE n \in wholes : \A m \in wholes : m <= n
           IN  /\ FlattenSeq(list) = SubSeq(text, 1, kept)
               /\ \A i \in DOMAIN list : InGrammar("form", list[i])
               /\ kept = whole \/ InGrammar("form", SubSeq(text, kept + 1, whole))
<1> DEFINE list == Stu_parse_buf(text)
           n == Len(text)
           wholes == {x \in 0 .. n : InGrammar("forms", SubSeq(text, 1, x))}
           whole == CHOOSE x \in wholes : \A y \in wholes : y <= x
<1>0. n \in Nat
  OBVIOUS
<1>1. PICK v : Parses(v, text)
  BY ParsesExist
<1>l. PICK m \in 0 .. n : \E h \in 0 .. m : ListCuts(v, text, m, h)
  BY <1>1, ListIsCut
<1>2. PICK h \in 0 .. m : ListCuts(v, text, m, h)
  BY <1>l
<1>3. wholes = {x \in 0 .. n : BetweenForms(v, x)}
  <2>1. \A x \in 0 .. n : InGrammar("forms", SubSeq(text, 1, x)) <=> BetweenForms(v, x)
    BY <1>1, WholePrefixes
  <2> QED
    BY <2>1
<1>4. whole = m
  <2>1. BetweenForms(v, m) /\ \A x \in m + 1 .. n : ~BetweenForms(v, x)
    BY <1>2 DEF ListCuts
  <2>2. m \in wholes /\ \A x \in wholes : x <= m /\ x \in Nat
    <3>1. m \in wholes
      BY <1>3, <2>1
    <3>2. ASSUME NEW x \in wholes PROVE x <= m /\ x \in Nat
      <4>1. x \in 0 .. n /\ BetweenForms(v, x)
        BY <1>3
      <4>2. ~(x \in m + 1 .. n)
        BY <2>1, <4>1
      <4> QED
        BY <1>0, <1>2, <4>1, <4>2
    <3> QED
      BY <3>1, <3>2
  <2> HIDE DEF wholes
  <2>3. whole \in wholes /\ \A y \in wholes : y <= whole
    BY <2>2
  <2> HIDE DEF whole
  <2>4. whole <= m /\ m <= whole /\ whole \in Nat
    BY <2>2, <2>3
  <2> QED
    BY <1>2, <2>4
<1> HIDE DEF list
<1>5. IsCut(list, text, h) /\ (h = m \/ InGrammar("form", SubSeq(text, h + 1, m)))
  BY <1>2 DEF ListCuts, list
<1>6. /\ list \in Seq(Seq(Tokens)) /\ FlattenSeq(list) = SubSeq(text, 1, h)
      /\ \A q \in 1 .. Len(list) : InGrammar("form", list[q])
  BY <1>5 DEF IsCut
<1>7. Len(FlattenSeq(list)) = h
  <2>1. h \in 0 .. Len(text)
    BY <1>0, <1>2
  <2>2. Len(SubSeq(text, 1, h)) = h
    BY <2>1
  <2> QED
    BY <1>6, <2>2
<1>8. DOMAIN list = 1 .. Len(list)
  BY <1>6
<1> HIDE DEF whole, wholes, n
<1>9. /\ FlattenSeq(list) = SubSeq(text, 1, Len(FlattenSeq(list)))
      /\ \A i \in DOMAIN list : InGrammar("form", list[i])
      /\ Len(FlattenSeq(list)) = whole \/ InGrammar("form", SubSeq(text, Len(FlattenSeq(list)) + 1, whole))
  BY <1>4, <1>5, <1>6, <1>7, <1>8
<1> QED
  BY <1>9 DEF list, whole, wholes, n

\* A list without a NIL is evaluated to its end.
LEMMA EvaluatedToEnd ==
    ASSUME NEW list \in Seq(Seq(Tokens)), \A i \in 1 .. Len(list) : list[i] # NIL
    PROVE  Evaluated(list) = list
<1> DEFINE T == Seq(Tokens)
           k == Len(list)
           all == Append(list, NIL)
           I == {i \in 1 .. Len(all) : all[i] = NIL}
           first == SelectInSeq(all, LAMBDA f : f = NIL)
<1>0. k \in Nat /\ NIL \in T
  BY DEF NIL, Tokens
<1>1. Len(all) = k + 1 /\ all[k + 1] = NIL /\ \A i \in 1 .. k : all[i] = list[i]
  <2>1. list \in Seq(T)
    OBVIOUS
  <2> HIDE DEF T
  <2> QED
    BY <1>0, <2>1, AppendProperties
<1> HIDE DEF all
<1>2. I = {k + 1}
  <2>1. ASSUME NEW i \in I PROVE i = k + 1
    <3>1. i \in 1 .. k + 1 /\ all[i] = NIL
      BY <1>1
    <3>2. i \notin 1 .. k
      BY <1>1, <3>1
    <3> QED
      BY <1>0, <3>1, <3>2
  <2>2. k + 1 \in I
    BY <1>0, <1>1
  <2> QED
    BY <2>1, <2>2
<1>3. first = Min(I)
  <2>1. I # {}
    BY <1>2
  <2> QED
    BY <2>1 DEF SelectInSeq
<1>4. first = k + 1
  <2> HIDE DEF I, first
  <2>1. \E x \in I : \A y \in I : x <= y
    BY <1>0, <1>2
  <2>2. Min(I) \in I
    BY <2>1 DEF Min
  <2> QED
    BY <1>2, <1>3, <2>2
<1>5. Evaluated(list) = SubSeq(list, 1, first - 1)
  BY DEF Evaluated, all
<1> HIDE DEF first
<1>6. first - 1 = k
  BY <1>0, <1>4
<1>7. SubSeq(list, 1, Len(list)) = list
  <2>1. list \in Seq(T)
    OBVIOUS
  <2> HIDE DEF T
  <2> QED
    BY <2>1, SubSeqFull
<1> QED
  BY <1>5, <1>6, <1>7

\* And so does what ValidIsEvaluated says.
LEMMA ValidIsEvaluatedOf ==
    ASSUME NEW text \in Seq(Tokens), Stu_is_valid_form(text) = "valid", QuotesApply(text)
    PROVE  LET list == Stu_parse_buf(text)
           IN  NIL \notin ToSet(list) =>
                   /\ FlattenSeq(Evaluated(list)) = text
                   /\ \A i \in DOMAIN list : InGrammar("form", list[i])
<1> DEFINE list == Stu_parse_buf(text)
           n == Len(text)
<1>0. n \in Nat /\ n \in 0 .. n /\ \A i \in 1 .. n : i \in DOMAIN text
  OBVIOUS
<1>1. PICK v : Parses(v, text)
  BY ParsesExist
<1>2. PICK d : Derives(d, text)
  BY <1>0, GrammarExists
<1>3. PICK b : Balances(b, text)
  BY <1>0, BalancesExist
<1>4. b[<<1, n>>]
  <2>1. IsBalanced(text)
    BY VerdictOf
  <2> QED
    BY <1>3, <2>1 DEF Balances
<1>5. 1 <= n => text[n] # "'"
  <2> SUFFICES ASSUME 1 <= n PROVE text[n] # "'"
    OBVIOUS
  <2>1. n \in DOMAIN text /\ ~(n < n)
    BY <1>0
  <2> QED
    BY <2>1 DEF QuotesApply
<1>6. d[<<"forms", <<1, n>>>>]
  <2>1. 1 \in 1 .. Len(text) + 1 /\ n \in 1 - 1 .. Len(text)
    BY <1>0
  <2> QED
    BY <1>2, <1>3, <1>4, <1>5, <2>1, BalancedIsForms
<1>7. BetweenForms(v, n)
  <2>1. InGrammar("forms", SubSeq(text, 1, n))
    <3>1. "forms" \in Nonterminals /\ SubSeq(text, 1, n) = text
      BY DEF Nonterminals
    <3> QED
      BY <1>2, <1>6, <3>1 DEF Derives
  <2> QED
    BY <1>0, <1>1, <2>1, WholePrefixes
<1>l. PICK m \in 0 .. n : \E h \in 0 .. m : ListCuts(v, text, m, h)
  BY <1>1, ListIsCut
<1>8. PICK h \in 0 .. m : ListCuts(v, text, m, h)
  BY <1>l
<1> HIDE DEF list
<1>9. IsCut(list, text, n)
  BY <1>7, <1>8 DEF ListCuts, list
<1>10. /\ list \in Seq(Seq(Tokens)) /\ FlattenSeq(list) = SubSeq(text, 1, n)
       /\ \A q \in 1 .. Len(list) : InGrammar("form", list[q])
  BY <1>9 DEF IsCut
<1>11. DOMAIN list = 1 .. Len(list) /\ SubSeq(text, 1, n) = text
  BY <1>10
<1>12. ASSUME NIL \notin ToSet(list)
       PROVE  FlattenSeq(Evaluated(list)) = text
  <2>1. \A i \in 1 .. Len(list) : list[i] # NIL
    BY <1>11, <1>12 DEF ToSet
  <2>2. Evaluated(list) = list
    BY <1>10, <2>1, EvaluatedToEnd
  <2> QED
    BY <1>10, <1>11, <2>2
<1> QED
  BY <1>10, <1>11, <1>12 DEF list

(* Every form of a text that Stu_is_valid_form accepts is evaluated, in    *)
(* order and whole, for every text of every length, if each quote in it    *)
(* has a form and it has no () at its top level, where Sv_eval_list stops. *)
THEOREM ValidFormsAreEvaluated == Spec => []ValidIsEvaluated
<1>1. FormsInv => ValidIsEvaluated
  BY ValidIsEvaluatedOf DEF FormsInv, ValidIsEvaluated
<1> QED
  BY <1>1, FormsInductive, PTL

(* Stu_parse_buf returns, of any text whatever, the forms it begins with,  *)
(* all of them or all but the last: a syntax error or the end of the text  *)
(* in a form costs at most one form that was complete before it.           *)
THEOREM ReaderLosesLastOnly == Spec => []LosesLastOnly
<1>1. FormsInv => LosesLastOnly
  BY LosesLastOnlyOf DEF FormsInv, LosesLastOnly
<1> QED
  BY <1>1, FormsInductive, PTL
=============================================================================
