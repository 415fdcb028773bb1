----------------------------- MODULE NativeCall -----------------------------
(***************************************************************************)
(* Calls of native functions (native_func.c).  All of them are passed      *)
(* their arguments in one array of the interpreter, and a function called  *)
(* with too few arguments becomes a closure that keeps them until the rest *)
(* arrives, any number of other calls later.                               *)
(*                                                                         *)
(* Every builtin reads its arguments before it evaluates anything, so a    *)
(* call is one step here and the calls it makes in turn are steps of their *)
(* own.  A function with a rest argument has that one only (builtins.c:    *)
(* 45-60); the slot then holds the list of arguments.                      *)
(***************************************************************************)
EXTENDS Integers, FiniteSets, Sequences

CONSTANTS
    Funcs,
    arity,        \* the number of arguments of each, a rest argument included
    RestFuncs,    \* those with a rest argument
    Values,
    NULL,
    MaxArgs,      \* bound: arguments in a call
    MaxClosures   \* bound: closures the program has

ASSUME NativeAssumption ==
    /\ arity \in [Funcs -> Nat \ {0}]
    /\ RestFuncs \subseteq Funcs /\ \A f \in RestFuncs : arity[f] = 1
    /\ MaxArgs \in Nat /\ MaxClosures \in Nat

VARIABLES
    registered,         \* functions the interpreter knows
    native_func_args,   \* the array; its length is native_func_args_capacity
    closures,           \* what is left of a function to be called
    called              \* the call just made: its function, what it reads, what it was given

nativeVars == <<registered, native_func_args, closures, called>>

ArgLists == UNION {[1 .. n -> Values] : n \in 0 .. MaxArgs}

\* A closure, or a function as one that has bound nothing; given is the list
\* of arguments it has had so far.
Unbound(f) == [func |-> f, arity |-> arity[f], bound |-> <<>>, given |-> <<>>]

NativeInit ==
    /\ registered = {}
    /\ native_func_args = <<>>
    /\ closures = {}
    /\ called = <<>>
-----------------------------------------------------------------------------
\* The length of the array once f is known.
Capacity(f) ==
    IF arity[f] > Len(native_func_args) THEN arity[f] ELSE Len(native_func_args)

\* Sv_native_func_new, Sv_native_func_register.
Sv_native_func_register(f) ==
    /\ f \notin registered
    /\ registered' = registered \cup {f}
    /\ native_func_args' = [i \in 1 .. Capacity(f) |->
           IF i \in DOMAIN native_func_args THEN native_func_args[i] ELSE NULL]
    /\ called' = <<>>
    /\ UNCHANGED closures

\* Array a with the values of s from index start on; writes past its end are
\* lost.
Copied(a, start, s) ==
    [i \in DOMAIN a |-> IF i - start + 1 \in DOMAIN s THEN s[i - start + 1] ELSE a[i]]

\* Mutant of Restored: what the closure has bound is not copied back.
NotRestored(c) == native_func_args

\* Sv_native_closure_call: first what the closure has bound.
Restored(c) == Copied(native_func_args, 1, c.bound)

\* What a new closure binds: all the arguments had so far.
Kept(a, c, taken) == SubSeq(a, 1, Len(c.bound) + taken)

\* Native_call: fill the array up to the arity; then make a closure, or make
\* the call, or refuse what is too much.
Native_call(c, args) ==
    LET fixed == IF c.func \in RestFuncs THEN c.arity - 1 ELSE c.arity
        taken == IF Len(args) < fixed THEN Len(args) ELSE fixed
        next == Len(c.bound) + taken + 1
        rest == SubSeq(args, taken + 1, Len(args))
        a == Copied(Restored(c), Len(c.bound) + 1, SubSeq(args, 1, taken))
        given == c.given \o args
    IN  \/ /\ taken < fixed
           /\ Cardinality(closures) < MaxClosures
           /\ native_func_args' = a
           /\ closures' = closures \cup
                  {[func |-> c.func, arity |-> fixed - taken,
                    bound |-> Kept(a, c, taken), given |-> given]}
           /\ called' = <<>>
           /\ UNCHANGED registered
        \/ /\ taken = fixed
           /\ c.func \in RestFuncs \/ rest = <<>>
           /\ native_func_args' =
                  IF c.func \in RestFuncs THEN Copied(a, next, <<rest>>) ELSE a
           /\ called' = [func |-> c.func, args |-> native_func_args', given |-> given]
           /\ UNCHANGED <<registered, closures>>
        \/ /\ taken = fixed
           /\ c.func \notin RestFuncs /\ rest # <<>>
           /\ native_func_args' = a
           /\ called' = <<>>
           /\ UNCHANGED <<registered, closures>>

\* The program drops a closure.
Drop(c) ==
    /\ closures' = closures \ {c}
    /\ called' = <<>>
    /\ UNCHANGED <<registered, native_func_args>>

Callable == {Unbound(f) : f \in registered} \cup closures

NativeNext ==
    \/ \E f \in Funcs : Sv_native_func_register(f)
    \/ \E c \in Callable, args \in ArgLists : Native_call(c, args)
    \/ \E c \in closures : Drop(c)

NativeSpec == NativeInit /\ [][NativeNext]_nativeVars
-----------------------------------------------------------------------------
(* However the arguments of a function arrive, at once or in pieces with   *)
(* any other calls in between, it reads from the array exactly those it    *)
(* was given, in their order: partial application of native functions is   *)
(* application (check/022_native_closure).                                 *)
ReadsWhatItWasGiven ==
    called # <<>> =>
        LET f == called.func
        IN  IF f \in RestFuncs
            THEN called.args # <<>> /\ called.args[1] = called.given
            ELSE /\ Len(called.given) = arity[f]
                 /\ arity[f] <= Len(called.args)
                 /\ SubSeq(called.args, 1, arity[f]) = called.given
=============================================================================
