------------------------------- MODULE Interp -------------------------------
(***************************************************************************)
(* The evaluator's control (Sv_eval, Sv_eval_sexp, Sv_eval_list, Sv_call   *)
(* in sv.c; def in special_form.c; try.c; Builtin_throw; call_stack.c;     *)
(* the capture registers of env.c): which C functions are active, and the  *)
(* interpreter registers they save, change, restore, or jump past.         *)
(*                                                                         *)
(* Forms are chosen freely: a form is an atom, has arguments that are      *)
(* forms, and may be a def, a try, a throw or the call of a lambda with    *)
(* one parameter and a body of forms.  Values are left out; of the heap    *)
(* there are the cells these registers lead to, bindings (Env) and call    *)
(* stack entries, each with the pointer to the one before it.  A cell the  *)
(* collector has freed is blank until it is allocated again.               *)
(***************************************************************************)
EXTENDS Naturals, Sequences, Reachability

CONSTANTS
    Cells,
    NULL,
    MaxFrames,   \* bound: active C functions
    MaxForms,    \* bound: forms in a list
    MaxThrows,   \* bound: exceptions thrown
    NestedDef    \* may a def be an argument of another form?

ASSUME InterpAssumption ==
    /\ NULL \notin Cells
    /\ {MaxForms, MaxThrows} \subseteq Nat
    /\ MaxFrames \in Nat \ {0, 1}   \* room for the frames of EvalForms
    /\ NestedDef \in BOOLEAN

VARIABLES
    frames,            \* the active C functions with their locals, innermost last
    scopes,            \* gc_scope_stack: the cells saved in each scope, top last
    up,                \* prev of a binding, cdr of a call stack entry
    alive,             \* cells allocated and not freed
    main_env,
    call_stack,        \* the entry pushed last
    env_capture_head, env_capture_tail,
    last_try_marker,   \* the frame of the innermost try, 0 if none
    throws,            \* exceptions thrown so far
    unpaired           \* has this evaluation popped an entry it did not push?

heap == <<up, alive>>
captures == <<env_capture_head, env_capture_tail>>
vars == <<frames, scopes, heap, main_env, call_stack, captures, last_try_marker, throws,
          unpaired>>

Refs == Cells \cup {NULL}

Init ==
    /\ frames = <<>>
    /\ scopes = <<>>
    /\ up = [c \in Cells |-> NULL]
    /\ alive = {}
    /\ main_env = NULL
    /\ call_stack = NULL
    /\ env_capture_head = NULL /\ env_capture_tail = NULL
    /\ last_try_marker = 0
    /\ throws = 0
    /\ unpaired = FALSE
-----------------------------------------------------------------------------
Frame == [f : {"eval", "list", "try"},
          env : Refs,           \* the environment it evaluates in
          at : {"args", "called", "def", "bind", "done", "new", "run", "body", "catch"},
          size : Nat,           \* Gc_scope_stack_size on entry
          call : Refs,          \* the call stack entry it has pushed
          forms : Nat,          \* forms a list still has
          head : Refs, tail : Refs,   \* the captures a list has saved
          defs : SUBSET Cells,  \* bindings its form under way has made
          marker : Nat]         \* the marker a try has saved

NewFrame(f, at, env, size) ==
    [f |-> f, env |-> env, at |-> at, size |-> size, call |-> NULL, forms |-> MaxForms,
     head |-> NULL, tail |-> NULL, defs |-> {}, marker |-> 0]

Depth == Len(frames)
Top == frames[Depth]

At(f, at) == Depth > 0 /\ Top.f = f /\ Top.at = at

\* The list of forms that frame i belongs to.
ListOf(i) == CHOOSE l \in 1 .. i :
    frames[l].f = "list" /\ \A k \in l + 1 .. i : frames[k].f # "list"

Saved(scs, cells) == [scs EXCEPT ![Len(scs)] = @ \cup (cells \ {NULL})]
Popped(scs) == SubSeq(scs, 1, Len(scs) - 1)

Up == [c \in Cells |-> {up[c]} \ {NULL}]
Back(c) == Reach(Up, {c} \ {NULL}, Cells)

\* Gc_collect's roots are the scopes and the main environment only.
Collected == Reach(Up, ((UNION {scopes[i] : i \in DOMAIN scopes}) \cup {main_env}) \ {NULL},
                   Cells)

\* c is the call the innermost of the first n frames of fs with one has under
\* way, NULL if none has.
InnerCall(fs, c, n) ==
    \/ c = NULL /\ \A i \in 1 .. n : fs[i].call = NULL
    \/ \E k \in 1 .. n : /\ c = fs[k].call /\ c # NULL
                         /\ \A i \in k + 1 .. n : fs[i].call = NULL

\* c is the call that one of the first n frames of fs has under way, if not NULL.
OuterCall(fs, c, n) == c = NULL \/ \E k \in 1 .. n : fs[k].call = c

\* Call_stack_push, in the frame on top: entry c, saved in its scope.
Calling(c, at) == [frames EXCEPT ![Depth].at = at, ![Depth].call = c]

PushCall(c) ==
    /\ c \in Cells \ alive
    /\ alive' = alive \cup {c}
    /\ up' = [up EXCEPT ![c] = call_stack]
    /\ call_stack' = c

\* Call_stack_pop, when the call of the last frame of fs is over.
Returned(fs) == [fs EXCEPT ![Len(fs)].at = "done", ![Len(fs)].call = NULL]

\* Mutant of PopCall: the entry is left.
CallKept == call_stack

PopCall == IF call_stack = NULL THEN NULL ELSE up[call_stack]
-----------------------------------------------------------------------------
\* eval (stu.c): a scope, a try with the default handler and the list of forms.
EvalForms ==
    /\ frames = <<>>
    /\ frames' = <<NewFrame("try", "body", main_env, 1),
                   [NewFrame("list", "new", main_env, 1) EXCEPT
                       !.head = env_capture_head, !.tail = env_capture_tail]>>
    /\ scopes' = <<{}, {env_capture_head} \ {NULL}>>
    /\ last_try_marker' = 1
    /\ unpaired' = FALSE
    /\ UNCHANGED <<heap, main_env, call_stack, captures, throws>>

\* Mutant of NoCaptures: Sv_eval_list does not reset the captures.
CapturesStay == UNCHANGED captures

NoCaptures == env_capture_head' = NULL /\ env_capture_tail' = NULL

\* Sv_eval_list takes its next form.
Form ==
    /\ At("list", "new") \/ At("list", "run")
    /\ Top.forms > 0 /\ Depth < MaxFrames
    /\ frames' = Append([frames EXCEPT ![Depth].at = "run", ![Depth].defs = {},
                                       ![Depth].forms = @ - 1],
                        NewFrame("eval", "args", Top.env, Len(scopes)))
    /\ scopes' = Append(scopes, {})
    /\ NoCaptures
    /\ UNCHANGED <<heap, main_env, call_stack, last_try_marker, throws, unpaired>>

\* Sv_eval_sexp evaluates an argument.
EvalArg ==
    /\ At("eval", "args") /\ Depth < MaxFrames
    /\ frames' = Append(frames, NewFrame("eval", "args", Top.env, Len(scopes)))
    /\ scopes' = Append(scopes, {})
    /\ UNCHANGED <<heap, main_env, call_stack, captures, last_try_marker, throws, unpaired>>

\* An allocation (a cons for an argument, the text of a call stack entry, a
\* copied value) starts a collection.
Collect ==
    /\ At("eval", "args") \/ At("eval", "bind")
    /\ alive # Collected
    /\ alive' = alive \cap Collected
    /\ up' = [c \in Cells |-> IF c \in alive' THEN up[c] ELSE NULL]
    /\ UNCHANGED <<frames, scopes, main_env, call_stack, captures, last_try_marker, throws, unpaired>>

\* Sv_call: bind the parameter in the lambda's environment, evaluate the body.
CallLambda(c, e, env) ==
    /\ At("eval", "args") /\ Depth < MaxFrames
    /\ env \in {Top.env, main_env}
    /\ c \in Cells \ alive /\ e \in Cells \ (alive \cup {c})
    /\ alive' = alive \cup {c, e}
    /\ up' = [up EXCEPT ![c] = call_stack, ![e] = env]
    /\ call_stack' = c
    /\ frames' = Append(Calling(c, "called"),
                        [NewFrame("list", "new", e, Len(scopes)) EXCEPT
                            !.head = env_capture_head, !.tail = env_capture_tail])
    /\ scopes' = Append(Saved(scopes, {c, e}), {env_capture_head} \ {NULL})
    /\ UNCHANGED <<main_env, captures, last_try_marker, throws, unpaired>>

\* def: evaluate the value; its bindings follow (Bind).
Def(c) ==
    /\ At("eval", "args") /\ Depth < MaxFrames
    /\ NestedDef \/ frames[Depth - 1].f = "list"
    /\ PushCall(c)
    /\ frames' = Append(Calling(c, "def"), NewFrame("eval", "args", Top.env, Len(scopes)))
    /\ scopes' = Append(Saved(scopes, {c}), {})
    /\ UNCHANGED <<main_env, captures, last_try_marker, throws, unpaired>>

\* Env_capture: bind in front of the captures, remembering the first.
Bind(e) ==
    /\ At("eval", "bind")
    /\ e \in Cells \ alive
    /\ alive' = alive \cup {e}
    /\ up' = [up EXCEPT ![e] = env_capture_head]
    /\ env_capture_head' = e
    /\ env_capture_tail' = IF env_capture_tail = NULL THEN e ELSE env_capture_tail
    /\ scopes' = Saved(scopes, {e})
    /\ frames' = [frames EXCEPT ![ListOf(Depth)].defs = @ \cup {e}]
    /\ UNCHANGED <<main_env, call_stack, last_try_marker, throws, unpaired>>

\* The pattern of a def binds any number of names, none if it does not fit.
DefDone ==
    /\ At("eval", "bind")
    /\ frames' = Returned(frames)
    /\ call_stack' = PopCall
    /\ UNCHANGED <<scopes, heap, main_env, captures, last_try_marker, throws, unpaired>>

\* The call of a structure constructor that is not named by a symbol, such as
\* the one an import makes of its module: Call_stack_push knows no such type
\* and pushes nothing, and the entry popped is that of a call still under way.
Construct ==
    /\ At("eval", "args")
    /\ frames' = Returned(frames)
    /\ call_stack' = PopCall
    /\ unpaired' = TRUE
    /\ UNCHANGED <<scopes, heap, main_env, captures, last_try_marker, throws>>

\* try: set the marker, evaluate the first argument.
Try(c) ==
    /\ At("eval", "args") /\ Depth + 1 < MaxFrames
    /\ PushCall(c)
    /\ frames' = Calling(c, "called") \o
                    <<[NewFrame("try", "body", Top.env, Len(scopes)) EXCEPT
                          !.marker = last_try_marker],
                      NewFrame("eval", "args", Top.env, Len(scopes))>>
    /\ last_try_marker' = Depth + 1
    /\ scopes' = Append(Saved(scopes, {c}), {})
    /\ UNCHANGED <<main_env, captures, throws, unpaired>>

\* Builtin_throw: longjmp to the marker, where the handler is evaluated under
\* a scope that holds the exception.
Throw(c) ==
    /\ At("eval", "args")
    /\ throws < MaxThrows
    /\ last_try_marker > 1 /\ last_try_marker < MaxFrames
    /\ PushCall(c)
    /\ LET m == last_try_marker
           caught == [SubSeq(frames, 1, m) EXCEPT ![m].at = "catch"]
       IN  frames' = Append(caught, NewFrame("eval", "args", frames[m].env, Len(scopes) + 1))
    /\ scopes' = Saved(scopes, {c}) \o <<{}, {}>>
    /\ throws' = throws + 1
    /\ UNCHANGED <<main_env, captures, last_try_marker, unpaired>>

\* The process ends, and another may start.
Exit ==
    /\ frames' = <<>> /\ scopes' = <<>>
    /\ up' = [c \in Cells |-> NULL] /\ alive' = {}
    /\ main_env' = NULL /\ call_stack' = NULL
    /\ env_capture_head' = NULL /\ env_capture_tail' = NULL
    /\ last_try_marker' = 0
    /\ unpaired' = FALSE

\* No try but eval's own, whose handler exits.
Uncaught ==
    /\ At("eval", "args")
    /\ throws < MaxThrows
    /\ last_try_marker = 1
    /\ throws' = throws + 1
    /\ Exit

\* An allocator that gets no memory exits.
OutOfMemory ==
    /\ At("eval", "args") \/ At("eval", "bind")
    /\ alive = Cells
    /\ Exit
    /\ UNCHANGED throws
-----------------------------------------------------------------------------
\* Env_capture_rebase: the bindings made by a form go in front of base.
Rebased(base) == IF env_capture_tail = NULL THEN base ELSE env_capture_head
RebasedUp(base) ==
    IF env_capture_tail = NULL THEN up ELSE [up EXCEPT ![env_capture_tail] = base]

\* Sv_eval is over (POP_N_SAVE) and back in ...
EvalReturn == At("eval", "args") \/ At("eval", "done")

\* Mutant of KeptByList: Sv_eval_list does not save its environment.
KeptByNone(env) == {}

KeptByList(env) == {env}

\* ... Sv_eval_list, which extends its environment with what was captured.
ReturnToList ==
    /\ EvalReturn /\ frames[Depth - 1].f = "list"
    /\ LET base == frames[Depth - 1].env
       IN  /\ frames' = [Popped(frames) EXCEPT ![Depth - 1].env = Rebased(base)]
           /\ up' = RebasedUp(base)
           /\ scopes' = Saved(Popped(scopes), KeptByList(Rebased(base)))
    /\ UNCHANGED <<alive, main_env, call_stack, captures, last_try_marker, throws, unpaired>>

\* ... Sv_eval_sexp or def.
ReturnToEval ==
    /\ EvalReturn /\ frames[Depth - 1].f = "eval"
    /\ frames' = IF frames[Depth - 1].at = "def"
                 THEN [Popped(frames) EXCEPT ![Depth - 1].at = "bind"]
                 ELSE Popped(frames)
    /\ scopes' = Popped(scopes)
    /\ UNCHANGED <<heap, main_env, call_stack, captures, last_try_marker, throws, unpaired>>

\* Mutant of Unwound: only the exception's scope is popped after the handler.
UnwoundTop(try, scs) == IF try.at = "catch" THEN Popped(scs) ELSE scs

\* After the handler: pop the exception's scope and those left by the throw.
Unwound(try, scs) == IF try.at = "catch" THEN SubSeq(scs, 1, try.size) ELSE scs

\* Mutant of MarkerAfter: try does not put the marker back.
MarkerKept(try) == last_try_marker

MarkerAfter(try) == try.marker

\* ... try, which returns to the form that called it.
ReturnToTry ==
    /\ EvalReturn /\ frames[Depth - 1].f = "try"
    /\ LET try == frames[Depth - 1]
       IN  /\ scopes' = Unwound(try, Popped(scopes))
           /\ last_try_marker' = MarkerAfter(try)
    /\ frames' = Returned(SubSeq(frames, 1, Depth - 2))
    /\ call_stack' = PopCall
    /\ UNCHANGED <<heap, main_env, captures, throws, unpaired>>

\* Mutant of CapturesBack: Sv_eval_list leaves its own captures.
CapturesLeft == UNCHANGED captures

CapturesBack == env_capture_head' = Top.head /\ env_capture_tail' = Top.tail

\* Sv_eval_list is over: the captures of its caller are back.
ListDone ==
    /\ At("list", "new") \/ At("list", "run")
    /\ CapturesBack
    /\ UNCHANGED <<heap, throws, unpaired>>

\* ... and with it the call of a lambda,
ReturnToCall ==
    /\ ListDone /\ Depth > 2
    /\ frames' = Returned(Popped(frames))
    /\ scopes' = Popped(scopes)
    /\ call_stack' = PopCall
    /\ UNCHANGED <<main_env, last_try_marker, unpaired>>

\* ... or an evaluation, whose environment the host makes the main one.
ReturnToHost ==
    /\ ListDone /\ Depth = 2
    /\ frames' = <<>>
    /\ scopes' = <<>>
    /\ main_env' = Top.env
    /\ last_try_marker' = 0
    /\ UNCHANGED <<call_stack, unpaired>>
-----------------------------------------------------------------------------
Next ==
    \/ EvalForms
    \/ Form
    \/ EvalArg
    \/ Collect
    \/ \E c, e \in Cells, env \in Refs : CallLambda(c, e, env)
    \/ \E c \in Cells : Def(c) \/ Try(c) \/ Throw(c)
    \/ \E e \in Cells : Bind(e)
    \/ DefDone
    \/ Construct
    \/ Uncaught \/ OutOfMemory
    \/ ReturnToList \/ ReturnToEval \/ ReturnToTry
    \/ ReturnToCall \/ ReturnToHost

Spec == Init /\ [][Next]_vars
-----------------------------------------------------------------------------
TypeOK ==
    /\ frames \in Seq(Frame) /\ Depth <= MaxFrames
    /\ scopes \in Seq(SUBSET Cells)
    /\ up \in [Cells -> Refs] /\ alive \subseteq Cells
    /\ {main_env, call_stack, env_capture_head, env_capture_tail} \subseteq Refs
    /\ last_try_marker \in 0 .. Depth
    /\ throws \in 0 .. MaxThrows
    /\ unpaired \in BOOLEAN

(* Whenever control is in a form or a list, the scope stack is as high as  *)
(* when it entered, plus its own scope: whatever was called in between,    *)
(* threw or was jumped past has left no scope behind and taken none away   *)
(* (the comment at try.c:50).                                              *)
ScopesBalanced ==
    Depth > 0 /\ Top.f # "try" => Len(scopes) = Top.size + 1

(* A throw always lands in a try that is still running: no marker outlives *)
(* its setjmp frame, however tries nest and exceptions cross.              *)
MarkerRunning ==
    /\ last_try_marker = 0 <=> frames = <<>>
    /\ last_try_marker > 0 => /\ last_try_marker \in DOMAIN frames
                              /\ frames[last_try_marker].f = "try"
    /\ \A i \in last_try_marker + 1 .. Depth : frames[i].f # "try"

(* Every environment an active function evaluates in, all the way back, is *)
(* allocated: some scope or the main environment keeps it from the         *)
(* collector (SCOPE_SAVE in Sv_eval_list, sv.c:780).                       *)
EnvsAlive ==
    \A i \in DOMAIN frames : Back(frames[i].env) \subseteq alive

(* The bindings captured and not yet added to an environment are allocated *)
(* when a form adds them (Env_capture_rebase writes to the tail).          *)
CapturesAlive ==
    EvalReturn /\ frames[Depth - 1].f = "list" =>
        {env_capture_head, env_capture_tail} \subseteq alive \cup {NULL}

(* A form extends the environment of its list with the bindings it made    *)
(* itself and no others: what a lambda defines stays inside                *)
(* (check/029_def_in_lambda).                                              *)
DefsStayInside ==
    EvalReturn /\ frames[Depth - 1].f = "list" =>
        LET defs == frames[Depth - 1].defs
        IN  /\ env_capture_head # NULL <=> defs # {}
            /\ defs # {} => /\ {env_capture_head, env_capture_tail} \subseteq defs
                            /\ Back(env_capture_head) = defs

(* The call stack an exception carries lists the calls under way, from the *)
(* innermost out (builtins.c:680-685).                                     *)
StackTraceExact ==
    At("eval", "args") =>
        /\ InnerCall(frames, call_stack, Depth)
        /\ \A i \in DOMAIN frames :
               frames[i].call # NULL => InnerCall(frames, up[frames[i].call], i - 1)

(* It lists none but calls under way, and these from the inside out.       *)
StackTraceOrdered ==
    /\ OuterCall(frames, call_stack, Depth)
    /\ \A i \in DOMAIN frames :
           frames[i].call # NULL => OuterCall(frames, up[frames[i].call], i - 1)

(* Until something has been thrown (try.c:39 leaves the calls the throw    *)
(* jumped out of on the stack), the call stack lists calls under way only, *)
(* in their order, and all of them in an evaluation that has called no     *)
(* constructor without a name (call_stack.c:67).                           *)
TraceUntilThrow ==
    throws = 0 => StackTraceOrdered /\ (~unpaired => StackTraceExact)
=============================================================================
