------------------------------ MODULE Builtins ------------------------------
(***************************************************************************)
(* The arithmetic and the comparisons of builtins.c on integers and        *)
(* rationals, as the functions that NativeCall calls with the list of      *)
(* their arguments.  An integer is a fraction over 1, for Sv_new_rational  *)
(* never makes a rational of that denominator.                             *)
(*                                                                         *)
(* Floats are left out, and with them the third type of accumulator; longs *)
(* are unbounded.  What a C function computes with its local variables is  *)
(* what it computes from the arguments, one turn of its loop at a time.    *)
(***************************************************************************)
EXTENDS NativeCall

Arithmetic == {"+", "-", "*", "/"}
Comparisons == {"=", "<", ">=", ">", "<="}

Num(n, d) == [n |-> n, d |-> d]
IsInt(x) == x.d = 1

\* A value of an operator, or how it fails: an error value, a division by
\* zero that stops the process, or an uninitialised variable in the result.
Value(x) == [t |-> "value", x |-> x]
Failure(t) == [t |-> t, x |-> Num(0, 1)]

Abs(n) == IF n < 0 THEN -n ELSE n
DivisibleBy(n, d) == n % Abs(d) = 0

\* C's division of integers.
Quotient(a, b) ==
    LET q == Abs(a) \div Abs(b) IN IF (a < 0) = (b < 0) THEN q ELSE -q

CommonDivisor(n, d) == CHOOSE c \in 1 .. d :
    /\ DivisibleBy(n, c) /\ DivisibleBy(d, c)
    /\ \A e \in c + 1 .. d : ~(DivisibleBy(n, e) /\ DivisibleBy(d, e))

\* Sv_new_rational: n % d with d = 0 traps; lowest terms, if d is positive.
Sv_new_rational(n, d) ==
    IF d = 0 THEN Failure("trap")
    ELSE IF DivisibleBy(n, d) THEN Value(Num(Quotient(n, d), 1))
    ELSE IF d < 0 THEN Value(Num(n, d))
    ELSE LET c == CommonDivisor(n, d) IN Value(Num(Quotient(n, c), d \div c))
-----------------------------------------------------------------------------
\* INIT_ACC: the accumulators acc and racc, and the types of the result so far
\* and of the argument looked at last.
InitAcc(init, racc) ==
    [acc |-> init, racc |-> racc, acc_type |-> "int", cur_type |-> "int",
     error |-> FALSE]

\* SET_ACC: the first rational, and any after an integer, starts racc anew.
SetAcc(s, x) ==
    IF IsInt(x) THEN [s EXCEPT !.cur_type = "int"]
    ELSE [s EXCEPT !.acc_type = "rational", !.cur_type = "rational",
                   !.racc = IF s.cur_type # "rational" THEN Num(s.acc, s.acc) ELSE @]

\* Mutant of Plus: no exception for an accumulator of zero.
PlusAlways(q, x) ==
    IF x.d = q.d THEN Num(q.n + x.n, q.d) ELSE Num(q.n * x.d + x.n * q.d, q.d * x.d)

Plus(q, x) ==
    IF q.n = 0 THEN x
    ELSE IF x.d = q.d THEN Num(q.n + x.n, q.d)
    ELSE Num(q.n * x.d + x.n * q.d, q.d * x.d)

Minus(q, x) ==
    IF x.d = q.d THEN Num(q.n - x.n, q.d) ELSE Num(q.n * x.d - x.n * q.d, q.d * x.d)

Times(acc, q, x) ==
    LET p == IF acc # 1 THEN Num(acc, 1) ELSE q IN Num(p.n * x.n, p.d * x.d)

\* One turn of the loop of each operator.
Turn(op, s0, x) ==
    LET s == SetAcc(s0, x)
    IN  IF op = "/" /\ (s.error \/ x.n = 0) THEN [s EXCEPT !.error = TRUE]
        ELSE IF s.acc_type = "rational"
        THEN [s EXCEPT !.racc = CASE op = "+" -> Plus(@, x)
                                  [] op = "-" -> Minus(@, x)
                                  [] op = "*" -> Times(s.acc, @, x)
                                  [] op = "/" -> Num(@.n * x.d, @.d * x.n)]
        ELSE [s EXCEPT !.acc = CASE op = "+" -> @ + x.n
                                 [] op = "-" -> @ - x.n
                                 [] op = "*" -> @ * x.n
                                 [] op = "/" -> Quotient(@, x.n)]

\* The accumulators after all turns, from s on.
Loop(op, s, args) ==
    LET after[i \in 0 .. Len(args)] ==
            IF i = 0 THEN s ELSE Turn(op, after[i - 1], args[i])
    IN  after[Len(args)]

\* - and / take their first argument as it is.
FirstAcc(x) ==
    LET s == SetAcc(InitAcc(0, Num(0, 0)), x)
    IN  IF IsInt(x) THEN [s EXCEPT !.acc = x.n] ELSE [s EXCEPT !.racc = x]

\* RET_ACC.
Ret(s) ==
    IF s.error THEN Failure("error")
    ELSE IF s.acc_type = "rational" THEN Sv_new_rational(s.racc.n, s.racc.d)
    ELSE Value(Num(s.acc, 1))

Builtin_add(args) == Ret(Loop("+", InitAcc(0, Num(0, 0)), args))

Builtin_mul(args) == Ret(Loop("*", InitAcc(1, Num(1, 1)), args))

Builtin_sub(args) ==
    IF args = <<>> THEN Value(Num(0, 1))
    ELSE LET s == FirstAcc(args[1])
         IN  IF Len(args) > 1 THEN Ret(Loop("-", s, Tail(args)))
             ELSE Ret([s EXCEPT !.acc = -@, !.racc.n = -@])

\* The inverse of a single argument is 1 over i, which a rational never set.
Builtin_div(args) ==
    IF args = <<>> THEN Failure("error")
    ELSE IF Len(args) > 1 THEN Ret(Loop("/", FirstAcc(args[1]), Tail(args)))
    ELSE IF IsInt(args[1]) THEN Sv_new_rational(1, args[1].n)
    ELSE Failure("any")

Applied(op, args) ==
    CASE op = "+" -> Builtin_add(args)
      [] op = "-" -> Builtin_sub(args)
      [] op = "*" -> Builtin_mul(args)
      [] op = "/" -> Builtin_div(args)
-----------------------------------------------------------------------------
compare_numbers(op, x, y) ==
    CASE op = "=" -> x = y
      [] op = ">" -> x > y
      [] op = "<" -> x < y
      [] op = ">=" -> x >= y
      [] op = "<=" -> x <= y

\* Mutant of compare_rationals: the denominators change sides.
CompareCrossed(op, x, y) == compare_numbers(op, x.n * x.d, y.n * y.d)

compare_rationals(op, x, y) == compare_numbers(op, x.n * y.d, x.d * y.n)

\* CMP_SV on one pair: an integer before a rational is told apart by a test
\* no value passes.
ComparePair(op, x, y) ==
    IF IsInt(x) = IsInt(y)
    THEN IF IsInt(x) THEN compare_numbers(op, x.n, y.n) ELSE compare_rationals(op, x, y)
    ELSE IsInt(y) /\ compare_numbers(op, x.n, y.n * x.d)

Compared(op, args) ==
    IF Len(args) < 2 THEN args = <<>>
    ELSE \A i \in 1 .. Len(args) - 1 : ComparePair(op, args[i], args[i + 1])
-----------------------------------------------------------------------------
CONSTANT HostFuncs    \* functions a host may register later

\* The operators take a list; some builtin has more arguments than the others.
ASSUME BuiltinsAssumption ==
    /\ HostFuncs \subseteq Funcs
    /\ (Arithmetic \cup Comparisons) \cap Funcs \subseteq RestFuncs
    /\ \E f \in Funcs \ HostFuncs : \A g \in Funcs \ HostFuncs : arity[g] <= arity[f]

\* Values are numbers; 0 is an integer.
ASSUME NumbersAssumption ==
    \A x \in Values : x \in [n : Int, d : Int \ {0}] /\ (x.n = 0 => IsInt(x))

\* Builtin_init: the interpreter starts with its builtins registered.
BuiltinInit ==
    LET arities == {arity[f] : f \in Funcs \ HostFuncs}
        longest == CHOOSE n \in arities : \A k \in arities : k <= n
    IN  /\ registered = Funcs \ HostFuncs
        /\ native_func_args = [i \in 1 .. longest |-> NULL]
        /\ closures = {}
        /\ called = <<>>

BuiltinSpec == BuiltinInit /\ [][NativeNext]_nativeVars
-----------------------------------------------------------------------------
(* What the operators are meant to compute: the result on fractions, with  *)
(* no accumulators and no types; the quotient of integers is truncated.    *)
Fraction(op, x, y) ==
    CASE op = "+" -> Num(x.n * y.d + y.n * x.d, x.d * y.d)
      [] op = "-" -> Num(x.n * y.d - y.n * x.d, x.d * y.d)
      [] op = "*" -> Num(x.n * y.n, x.d * y.d)
      [] op = "/" -> Num(x.n * y.d, x.d * y.n)

AllInts(args) == \A i \in DOMAIN args : IsInt(args[i])

Step(op, truncated, x, y) ==
    IF truncated THEN Num(Quotient(x.n, y.n), 1) ELSE Fraction(op, x, y)

\* All args combined with x, one after the other.
Combined(op, truncated, x, args) ==
    LET value[i \in 0 .. Len(args)] ==
            IF i = 0 THEN x ELSE Step(op, truncated, value[i - 1], args[i])
    IN  value[Len(args)]

\* The value of (op args) for at least one argument; with a single one, - and
\* / start from 0 and from 1.
Expected(op, args) ==
    LET unit == IF op \in {"+", "-"} THEN Num(0, 1) ELSE Num(1, 1)
        truncated == op = "/" /\ AllInts(args) /\ Len(args) > 1
    IN  IF op \in {"-", "/"} /\ Len(args) > 1
        THEN Combined(op, truncated, args[1], Tail(args))
        ELSE Combined(op, truncated, unit, args)

SameNumber(x, y) == x.n * y.d = y.n * x.d /\ x.d # 0
LowestTerms(x) == x.d > 0 /\ \A c \in 2 .. x.d : ~(DivisibleBy(x.n, c) /\ DivisibleBy(x.d, c))

DivisorsFrom(args) == IF Len(args) = 1 THEN 1 ELSE 2
HasZeroDivisor(args) == \E i \in DivisorsFrom(args) .. Len(args) : args[i].n = 0
HasNegative(args) == \E i \in DOMAIN args : args[i].n < 0

\* Every result is the number it should be, and the fraction in lowest terms
\* that makes equal numbers equal values, unless a divisor is negative. A zero
\* divisor is an error value.
Exactly(op, r, given) ==
    IF op = "/" /\ HasZeroDivisor(given) THEN r = Failure("error")
    ELSE /\ r.t = "value"
         /\ SameNumber(r.x, Expected(op, given))
         /\ (op = "/" /\ HasNegative(given)) \/ LowestTerms(r.x)

IsCallOf(fs) == called # <<>> /\ called.func \in fs

\* What the builtin called last computes, from the list in the array.
Result == Applied(called.func, called.args[1])

\* What the lexer and the reduction of a rational give; a division by a negative
\* number may leave a negative denominator.
Positive(args) == \A i \in DOMAIN args : args[i].d > 0

\* All rationals stand before all integers.
RationalsFirst(args) ==
    \A i, j \in DOMAIN args : i < j /\ IsInt(args[i]) => IsInt(args[j])

(* Arithmetic is exact on integers, on rationals, and on rationals         *)
(* followed by integers (check/018_rational), whatever was called before:  *)
(* the accumulators change their type at the right turn of the loop. A     *)
(* single divisor that is 0 or a rational is not covered (builtins.c:303), *)
(* nor is a negative denominator, which a result keeps unreduced.          *)
ArithmeticExact ==
    IsCallOf(Arithmetic) /\ called.given # <<>>
        /\ Positive(called.given) /\ RationalsFirst(called.given)
        /\ (called.func = "/" /\ Len(called.given) = 1
               => IsInt(called.given[1]) /\ called.given[1].n # 0)
    => Exactly(called.func, Result, called.given)

\* The rationals that follow an integer too (builtins.c:93).
MixedExact ==
    IsCallOf(Arithmetic) /\ Len(called.given) > 1
    => Exactly(called.func, Result, called.given)

\* The order of fractions: their cross products, turned round if one of the
\* denominators is negative.
Less(x, y) ==
    IF (x.d > 0) = (y.d > 0) THEN x.n * y.d < y.n * x.d ELSE y.n * x.d < x.n * y.d

Related(op, x, y) ==
    CASE op = "=" -> ~Less(x, y) /\ ~Less(y, x)
      [] op = "<" -> Less(x, y)
      [] op = ">" -> Less(y, x)
      [] op = "<=" -> ~Less(y, x)
      [] op = ">=" -> ~Less(x, y)

(* A comparison of two or more numbers holds if and only if it holds of    *)
(* each and the next, after integers, rationals, or rationals followed by  *)
(* integers: a rational after an integer makes it false whatever it asks   *)
(* (builtins.c:433), and a negative denominator turns it round.            *)
ComparisonExact ==
    IsCallOf(Comparisons) /\ Len(called.given) > 1
        /\ Positive(called.given) /\ RationalsFirst(called.given)
    => (Compared(called.func, called.args[1]) <=>
            \A i \in 1 .. Len(called.given) - 1 :
                Related(called.func, called.given[i], called.given[i + 1]))
=============================================================================
