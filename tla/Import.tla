------------------------------- MODULE Import -------------------------------
(***************************************************************************)
(* import and defmod (mod.c, special_form.c): a module is a file whose     *)
(* bindings become the fields of a new type; defmod, anywhere in what the  *)
(* import evaluates, names it, through the register current_module, which  *)
(* points into the C frame of the import under way.                        *)
(*                                                                         *)
(* frames are the active imports and tries; the place of a frame stands    *)
(* for its address, so a pointer into one that is gone leads to whatever   *)
(* is there by then.  The evaluator is Interp's; here an evaluation does   *)
(* only what meets an import.                                              *)
(***************************************************************************)
EXTENDS Integers, Sequences

CONSTANTS
    Files,       \* names of files; a string is a value
    Names,       \* symbols defmod gives
    NULL,
    MaxDepth,    \* bound: active imports and tries
    MaxScopes    \* bound: scopes

ASSUME ImportAssumption ==
    /\ NULL \notin Files \cup Names
    /\ MaxDepth \in Nat /\ MaxScopes \in Nat \ {0}

VARIABLES
    frames,          \* active imports and tries, innermost last
    scopes,          \* Gc_scope_stack_size
    current_module,  \* the frame it points into, 0 for NULL
    types,           \* the registry: pairs of the name a type was given and
                     \* the one its module asked for
    locked,          \* names that are locked
    early,           \* has an import been left because it bound nothing?
    crossed,         \* has a throw left an import?
    native_arg       \* the first place of the shared native_func_args

spec == <<current_module, types, locked>>
history == <<early, crossed>>
vars == <<frames, scopes, spec, history, native_arg>>

Values == Files \cup Names

Init ==
    /\ frames = <<>>
    /\ scopes = 1
    /\ current_module = 0
    /\ types = {}
    /\ locked = {}
    /\ early = FALSE /\ crossed = FALSE
    /\ native_arg = NULL
-----------------------------------------------------------------------------
Frame == [f : {"import", "try"},
          file : Files \cup {NULL},
          name : Names \cup {NULL},    \* curr_spec.name
          asked : Names \cup {NULL},   \* the name the module's own defmod gave
          saved : 0 .. MaxDepth,       \* saved_spec, or the marker a try saved
          size : 0 .. MaxScopes,       \* the scopes on entry
          bound : BOOLEAN,             \* has a form bound anything?
          at : {"empty", "forms", "build", "body", "catch"}]

Depth == Len(frames)
Top == frames[Depth]
In(f, at) == Depth > 0 /\ Top.f = f /\ Top.at = at

\* A form may be evaluated: of a module, of a try, or of the host's program.
Evaluating == ~In("import", "empty")

Imports == {i \in DOMAIN frames : frames[i].f = "import"}
Tries == {i \in DOMAIN frames : frames[i].f = "try"}
Innermost(S) == IF S = {} THEN 0 ELSE CHOOSE i \in S : \A j \in S : j <= i

Popped == SubSeq(frames, 1, Depth - 1)

\* The new value of current_module.
Entered == Depth + 1

\* Builtin_import, Mod_import_from_file: the scope of the call's Sv_eval and
\* its own.  The file has forms, or none.
Import(file) ==
    /\ Evaluating
    /\ Depth < MaxDepth /\ scopes + 2 <= MaxScopes
    /\ native_arg' = file
    /\ \E at \in {"forms", "empty"} : frames' = Append(frames,
           [f |-> "import", file |-> file, name |-> NULL, asked |-> NULL,
            saved |-> current_module, size |-> scopes, bound |-> FALSE, at |-> at])
    /\ current_module' = Entered
    /\ scopes' = scopes + 2
    /\ UNCHANGED <<types, locked, history>>

\* A def binds a name in the module's environment.
Bind ==
    /\ In("import", "forms")
    /\ frames' = [frames EXCEPT ![Depth].bound = TRUE]
    /\ UNCHANGED <<native_arg, scopes, spec, history>>

\* defmod: through current_module into the frame there, if it is an import's.
Defmod(name) ==
    /\ Evaluating
    /\ current_module # 0
    /\ LET own == Innermost(Imports)
       IN  frames' = [i \in DOMAIN frames |->
               [frames[i] EXCEPT
                   !.name = IF i = current_module /\ i \in Imports THEN name ELSE @,
                   !.asked = IF i = own THEN name ELSE @]]
    /\ locked' = locked \cup {name}
    /\ UNCHANGED <<native_arg, scopes, current_module, types, history>>

\* Mutant of NameOf: the file is read from the array again.
NameOfLate(frame) == IF frame.name # NULL THEN frame.name ELSE native_arg

NameOf(frame) == IF frame.name # NULL THEN frame.name ELSE frame.file

\* Without a form Sv_eval_list does not set captured (mod.c:94): what is in
\* that place of the stack may be the environment of an earlier import,
CapturedStale == In("import", "empty") /\ types # {}

\* The forms are over and bound something: the type of the module is made.
\* Its constructor is then called by evaluating a form made of the values
\* bound, each of which is evaluated once more.
Build ==
    /\ CapturedStale \/ (In("import", "forms") /\ Top.bound)
    /\ frames' = [frames EXCEPT ![Depth].at = "build"]
    /\ types' = types \cup {<<NameOf(Top),
                              IF Top.asked # NULL THEN Top.asked ELSE Top.file>>}
    /\ locked' = locked \cup {NameOf(Top)}
    /\ UNCHANGED <<native_arg, scopes, current_module, history>>

\* Mutant of Unlocked: Mod_spec_destroy unlocks the name.
UnlockedName(frame) == locked \ {frame.name}

\* Mod_spec_destroy calls Gc_unlock, which does nothing with what is locked.
Unlocked(frame) == locked

\* Mutant of SpecBack: the spec of the import that ends stays.
SpecLeft(frame) == current_module

SpecBack(frame) == frame.saved

\* The module is built.
ImportDone ==
    /\ In("import", "build")
    /\ frames' = Popped
    /\ current_module' = SpecBack(Top)
    /\ locked' = Unlocked(Top)
    /\ scopes' = scopes - 2
    /\ UNCHANGED <<native_arg, types, history>>

\* Nothing was bound, or captured happens to be base: an error is returned from
\* the middle of the function, and only the scope of the call's Sv_eval is
\* popped.
ImportNothing ==
    /\ In("import", "empty") \/ (In("import", "forms") /\ ~Top.bound)
    /\ frames' = Popped
    /\ scopes' = scopes - 1
    /\ early' = TRUE
    /\ UNCHANGED <<native_arg, spec, crossed>>

\* try, with the scope of its Sv_eval and that of the form it evaluates.
Try ==
    /\ Evaluating
    /\ Depth < MaxDepth /\ scopes + 2 <= MaxScopes
    /\ frames' = Append(frames,
           [f |-> "try", file |-> NULL, name |-> NULL, asked |-> NULL,
            saved |-> Innermost(Tries), size |-> scopes + 1, bound |-> FALSE,
            at |-> "body"])
    /\ scopes' = scopes + 2
    /\ UNCHANGED <<native_arg, spec, history>>

\* throw: longjmp to the innermost try, whose handler runs, for the second
\* time if it is the handler that throws.
Throw ==
    /\ Evaluating
    /\ Tries # {} /\ scopes + 2 <= MaxScopes
    /\ LET m == Innermost(Tries)
       IN  /\ frames' = [SubSeq(frames, 1, m) EXCEPT ![m].at = "catch"]
           /\ crossed' = (crossed \/ \E i \in Imports : i > m)
    /\ scopes' = scopes + 2
    /\ UNCHANGED <<native_arg, spec, early>>

\* Mutant of Unwound: the exception's scope and the handler's, no more.
UnwoundTop(try) == scopes - 2

\* Down to what try found, after the handler; its body's scope is popped.
Unwound(try) == IF try.at = "catch" THEN try.size ELSE scopes - 1

TryDone ==
    /\ Depth > 0 /\ Top.f = "try"
    /\ frames' = Popped
    /\ scopes' = Unwound(Top) - 1
    /\ UNCHANGED <<native_arg, spec, history>>

\* A call of any other native function (NativeCall).
Native_call(v) ==
    /\ Evaluating
    /\ native_arg' = v
    /\ UNCHANGED <<frames, scopes, spec, history>>

\* The process ends: a throw nobody catches, defmod through a NULL register,
\* captured pointing nowhere.  Another one starts.
Exit ==
    /\ \/ Evaluating /\ (Tries = {} \/ current_module = 0)
       \/ In("import", "empty")
    /\ frames' = <<>> /\ scopes' = 1
    /\ current_module' = 0 /\ types' = {} /\ locked' = {}
    /\ early' = FALSE /\ crossed' = FALSE
    /\ native_arg' = NULL

Next ==
    \/ \E file \in Files : Import(file)
    \/ Bind
    \/ \E name \in Names : Defmod(name)
    \/ Build \/ ImportDone \/ ImportNothing
    \/ Try \/ Throw \/ TryDone
    \/ \E v \in Values : Native_call(v)
    \/ Exit

Spec == Init /\ [][Next]_vars
-----------------------------------------------------------------------------
TypeOK ==
    /\ frames \in Seq(Frame) /\ Depth <= MaxDepth
    /\ scopes \in 1 .. MaxScopes
    /\ current_module \in 0 .. MaxDepth
    /\ types \subseteq Values \X Values
    /\ locked \subseteq Values
    /\ early \in BOOLEAN /\ crossed \in BOOLEAN

(* The scope stack is as high as it was whenever control is back in an     *)
(* import, a try or the host's program, whatever was imported, thrown and  *)
(* caught in between, unless an import bound nothing: that one leaves its  *)
(* scope behind (mod.c:96-98), until a throw unwinds it.                   *)
ScopesRestored ==
    ~early =>
        IF Depth = 0 THEN scopes = 1
        ELSE IF Top.f = "import" THEN scopes = Top.size + 2
        ELSE IF Top.at = "body" THEN scopes = Top.size + 1
        ELSE scopes >= Top.size + 2

(* defmod reaches the import it is evaluated in, however imports nest: the *)
(* register is that of the innermost one, and NULL outside.  An import     *)
(* that bound nothing or was left by a throw leaves its own dead frame in  *)
(* the register instead (mod.c:96, try.c:71).                              *)
SpecCurrent == ~early /\ ~crossed => current_module = Innermost(Imports)

(* The type of a module carries the name its own forms gave it, or else    *)
(* that of its file: no import within it, nor any other call that uses the *)
(* shared argument array, changes that.                                    *)
NamedByItself == ~early /\ ~crossed => \A t \in types : t[1] = t[2]

(* The registry keeps its names from the collector (types.c:62): though    *)
(* Mod_spec_destroy means to unlock the name of a module, it stays locked. *)
NamesStayLocked == \A t \in types : t[1] \in locked
=============================================================================
