------------------------------- MODULE StuApi -------------------------------
(***************************************************************************)
(* The public API of libstu (stu.h, stu.c) as the collector sees it: a     *)
(* host program that evaluates forms in the main environment or in one it  *)
(* has kept, holds on to the values it is given, dumps them, replaces the  *)
(* main environment and releases values, while evaluations allocate and    *)
(* collect.                                                                *)
(*                                                                         *)
(* An evaluation runs under a scope of its own (eval, stu.c:208-224) and   *)
(* may do what any client of Gc does.  Its result is locked before that    *)
(* scope goes; a host handle is nothing but that lock.                     *)
(*                                                                         *)
(* Nothing protects a StuEnv * the host keeps.  The host is assumed not to *)
(* use one any more once part of what it led to has been freed (that would *)
(* be undefined behaviour); kept has the ones it may still use.            *)
(***************************************************************************)
EXTENDS Gc

VARIABLES
    phase,     \* what the interpreter is doing for the host
    base,      \* the environment the evaluation started in
    foreign,   \* does the main environment not lead to base?
    kept,      \* environments the host can use that are intact
    held,      \* values returned to the host and not yet released
    types,     \* names and field vectors in the type registry
    diverged   \* has the host ever left the line of the main environment?

evalVars == <<phase, base, foreign>>
hostVars == <<kept, held, types, diverged>>
apiVars == <<vars, evalVars, hostVars>>

ApiTypeOK ==
    /\ TypeOK
    /\ phase \in {"idle", "eval", "dump"}
    /\ base \in Refs
    /\ foreign \in BOOLEAN
    /\ kept \subseteq Objects
    /\ held \subseteq Objects
    /\ types \subseteq Objects
    /\ diverged \in BOOLEAN
    /\ phase = "idle" <=> scopes = <<>>

ApiInit ==
    /\ Init
    /\ phase = "idle"
    /\ base = NULL
    /\ foreign = FALSE
    /\ kept = {}
    /\ held = {}
    /\ types = {}
    /\ diverged = FALSE
-----------------------------------------------------------------------------
\* The bindings from e back to the first one.
EnvChain(e) ==
    Reach([o \in Objects |-> IF kind[o] = "env" THEN {fst[o]} \ {NULL} ELSE {}],
          {e}, Objects)

\* What the main environment leads to.
MainKnown == Reach(Pointers, Roots(<<>>, main_env), Objects)

\* After a step that may have collected: the environments of es that have lost
\* nothing.  What was freed is not reused in the same step.
Intact(es) == {e \in es : Reach(Pointers, {e}, Objects)' \subseteq managed'}

\* eval starts: PUSH_SCOPE, and parse and Try_eval_list run under it.  The
\* host passes b, or NULL for the main environment; base is put in no scope.
EvalBegin(b) ==
    /\ phase = "idle"
    /\ Gc_scope_push
    /\ phase' = "eval"
    /\ base' = IF b = NULL THEN main_env ELSE b
    /\ foreign' = (base' \notin MainKnown \cup {NULL})
    /\ diverged' = (diverged \/ foreign')
    /\ kept' = kept \cup ({base'} \ {NULL})
    /\ UNCHANGED <<held, types>>

\* What a running evaluation does to the heap; it never pops eval's own scope.
EvalStep ==
    /\ phase = "eval"
    /\ Scope \/ Alloc \/ Bind \/ MainPut
    /\ scopes' # <<>>
    /\ ~ \E o \in Known : Len(scopes) = 1 /\ POP_N_SAVE(o)
    /\ kept' = Intact(kept)
    /\ UNCHANGED <<evalVars, held, types, diverged>>

\* The evaluator looks a name up in base, or saves base itself (next_env).
EvalLookup(x) ==
    /\ phase = "eval"
    /\ base \in kept
    /\ x \in Reach(Pointers, {base}, Objects)
    /\ Gc_scope_save(x)
    /\ UNCHANGED <<evalVars, hostVars>>

\* Names and field vectors are quoted program text: conses and atoms only.
IsText(v) == \A o \in Reach(Pointers, {v}, Objects) : kind[o] = "cons"

\* Type_new (deftype, import): lock and register a type's name and its vector
\* of fields; the fields are locked one by one too.
Type_new(name, fields) ==
    /\ phase = "eval"
    /\ IsText(name) /\ Pointers[name] = {}
    /\ IsText(fields) /\ fields # name
    /\ locked' = locked \cup
           Reach(Visits, {name, fields} \cup Pointers[fields], Objects \ locked)
    /\ types' = types \cup {name, fields}
    /\ UNCHANGED <<heapVars, scopes, main_env, evalVars, kept, held, diverged>>

\* Mutant of Protected: what the result is made of is not locked.
ProtectedTop(result) == locked \cup {result}

\* eval locks the result with all that Gc_lock reaches.
Protected(result) == locked \cup Reach(Visits, {result}, Objects \ locked)

\* The end of eval: lock the result unless it is NIL, POP_SCOPE, return it.
EvalEnd(result) ==
    /\ phase = "eval"
    /\ Len(scopes) = 1
    /\ locked' = IF result = NULL THEN locked ELSE Protected(result)
    /\ scopes' = Popped(scopes)
    /\ held' = held \cup ({result} \ {NULL})
    /\ phase' = "idle" /\ base' = NULL /\ foreign' = FALSE
    /\ UNCHANGED <<heapVars, main_env, types, diverged>>

\* Stu_eval_file, Stu_eval_buf: the host is not given the environment; nor is
\* it if there is no form, as Sv_eval_list returns before it sets *new_env.
EvalReturn(result) ==
    /\ EvalEnd(result)
    /\ UNCHANGED kept

\* Stu_eval_buf_in_env: the host is given the environment the forms end in.
EvalReturnEnv(result, e) ==
    /\ EvalEnd(result)
    /\ kept' = kept \cup {e}

\* The host may use the main environment as a StuEnv * of its own.
Stu_main_env ==
    /\ phase = "idle"
    /\ kept' = kept \cup ({main_env} \ {NULL})
    /\ UNCHANGED <<vars, evalVars, held, types, diverged>>

\* Unless e extends the main environment, bindings are given up.
Stu_update_main_env(e) ==
    /\ phase = "idle"
    /\ Env_main_set(e)
    /\ diverged' = (diverged \/ ~(main_env = NULL \/ main_env \in EnvChain(e)))
    /\ UNCHANGED <<evalVars, kept, held, types>>

\* Stu_dump_val: save the value in a scope; dumping a lambda allocates.
DumpBegin(v) ==
    /\ phase = "idle"
    /\ PUSH_N_SAVE(v)
    /\ phase' = "dump"
    /\ UNCHANGED <<base, foreign, hostVars>>

DumpStep ==
    /\ phase = "dump"
    /\ \E o \in Objects \ managed, p \in FieldPairs("cons") : New(o, "cons", p[1], p[2])
    /\ kept' = Intact(kept)
    /\ UNCHANGED <<evalVars, held, types, diverged>>

DumpEnd ==
    /\ phase = "dump"
    /\ Gc_scope_pop
    /\ phase' = "idle"
    /\ UNCHANGED <<base, foreign, hostVars>>

Stu_release_val(v) ==
    /\ phase = "idle"
    /\ held' = held \ {v}
    /\ IF v \in locked THEN Gc_unlock(v) ELSE UNCHANGED vars
    /\ UNCHANGED <<evalVars, kept, types, diverged>>

Values == (Known \ KnownEnvs) \cup {NULL}

\* The environments an evaluation can end in: the one it began in, if it still
\* has that, and those that extend it.
FinalEnvs ==
    IF base = NULL THEN KnownEnvs
    ELSE IF base \in kept THEN {base} \cup {e \in KnownEnvs : base \in EnvChain(e)}
    ELSE {}

ApiNext ==
    \/ \E b \in kept \cup {NULL} : EvalBegin(b)
    \/ EvalStep
    \/ \E x \in Objects : EvalLookup(x)
    \/ \E name, fields \in Values \ {NULL} : Type_new(name, fields)
    \/ \E r \in Values :
        EvalReturn(r) \/ \E e \in FinalEnvs : EvalReturnEnv(r, e)
    \/ Stu_main_env
    \/ \E e \in kept \cup {NULL} : Stu_update_main_env(e)
    \/ \E v \in held : DumpBegin(v) \/ Stu_release_val(v)
    \/ DumpStep
    \/ DumpEnd

ApiSpec == ApiInit /\ [][ApiNext]_apiVars
-----------------------------------------------------------------------------
(* A value the host holds is still there, and so is everything it is made  *)
(* of up to the environments of the closures inside it: a collection in a  *)
(* later evaluation does not take a returned list apart.  The same goes    *)
(* for the names and field vectors the type registry points to.            *)
HeldShape == Reach(StablePointers, held \cup types, Objects) \subseteq managed

(* A value the host holds is exempt from collection together with all it   *)
(* refers to, the environments of its closures included (stu.h:50), as     *)
(* long as the host evaluates only in environments the main one leads to   *)
(* and only ever extends the main one.  A def may make a held closure      *)
(* refer to a new binding that nothing has locked (special_form.c:69).     *)
HeldWhole == ~diverged => Reach(Pointers, held, Objects) \subseteq managed

(* The program never gets at freed memory.  Neither does an evaluation     *)
(* lose the environment it runs in, though that is in no scope while it is *)
(* parsed and begun (stu.c:213-217), if the main environment leads to it.  *)
EvalSafe ==
    /\ phase # "dump" => NoDangling
    /\ phase = "eval" /\ ~foreign /\ base # NULL => base \in kept

(* A released value goes back to the collector (stu.h:183): what stays     *)
(* locked is part of a value still held or of the type registry.           *)
ReleasedUnlocked == locked \subseteq Reach(Pointers, held \cup types, Objects)
=============================================================================
