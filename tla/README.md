# A verification of Stu

Stu is a Lisp interpreter in C: a library (`src/src/libstu`), a REPL
(`src/src/repl`) and a documentation extractor (`src/src/studoc`). This directory
holds TLA+ models of its parts, translated from the source, the TLC
configurations that check them on small instances, and proofs that TLAPS
checks. `PROJECT.json` lists the runs, the mutants that show each property can
fail, the source lines behind each definition, the findings and the hazards.
Paths below are relative to `src/src/libstu/` unless they say otherwise.

The program is sequential: no threads, no signals, nothing persistent. What is
hard in it comes from three sources. A collection may start at *any* allocation;
`longjmp` leaves C functions without running their epilogues; and a few global
registers (the scope stack, the try marker, the capture registers, the call
stack, the main environment) are saved and restored by hand along every path.

## 1. Inventory

| component | state | operations | interacts with |
|---|---|---|---|
| **Collector** `gc.c/h` | flags of each object (mark, lock), scope stack, `gc_allocs`, `main_env` as a root | `Gc_collect`, `Gc_mark`, `Gc_sweep`, `Gc_lock`, `Gc_unlock`, scope push / pop / save | every allocation; the allocators; `Type_field_vector` to visit structures |
| **List of objects** `gc.c` | `gc_head`, `gc_tail`, `next`, `prev`, `stats_gc_managed_objects` | `Gc_add`, `Gc_del`, the loop of `Gc_sweep` | collector |
| **Slab allocator** `alloc/alloc_slab.c` | slabs, each with chunks, `chunk_head`, `free_list` | allocate, release, new slab | behind `alloc/alloc.c`; `alloc_sys.c` is the alternative |
| **API** `stu.c`, `stu.h` | interpreter structure, values given to the host | `Stu_new`, `Stu_destroy`, `Stu_eval_*`, `Stu_update_main_env`, `Stu_dump_val`, `Stu_release_val`, include paths, form validation | reader, evaluator, collector |
| **Evaluator** `sv.c`, `try.c`, `call_stack.c` | `last_try_marker`, `last_exception`, `call_stack`; the C stack | `Sv_eval*`, `Sv_call`, `try`, throw, call stack push / pop / copy | scopes, environments, special forms |
| **Environments** `env.c` | chains of `Env`; `main_env`, `env_capture_head/tail` | put, get, capture save / reset / restore / rebase | evaluator |
| **Special forms** `special_form.c` | none | `def`, `defmod`, `deftype`, `defmacro`, `lambda`, `if`, ... | environments, types, modules |
| **Types** `types.c` | registry of names and field vectors | `Type_new`, field lookup | collector (locks) |
| **Modules** `mod.c` | `current_module` | `Mod_import_from_file` | evaluator, types |
| **Native functions** `native_func.c` | the shared `native_func_args` array | call, partial application, registration | builtins, collector |
| **Builtins** `builtins.c` | none | arithmetic, comparison, lists, regular expressions, throw, import | all |
| **Hash, symbols** `hash.c`, `symtab.c` | buckets, insertion list; ids and names | put, get, del; id, name | reader, environments |
| **Reader** `lexer.l`, `parser.y` | scanner buffers | text to a list of forms | API, modules |
| **Validator, prompt, REPL** `stu.c`, `../repl` | bracket stack; continuation flag; the environment between lines | `Stu_is_valid_form`, `Prompt_readline`, `main` | API |

What makes each correct:

* *Collector*: whatever can be reached stays allocated; what cannot is freed; no
  mark survives; a lock holds as long as it is kept, and no longer.
* *List*: exactly the allocated objects, once each, in both directions, in the
  middle of a sweep too.
* *Slab allocator*: one owner per chunk, zeroed when handed out, grows only under
  need, loses nothing.
* *API*: what the host holds is exempt from collection; what it releases is not;
  the environment it is given extends the one it passed.
* *Evaluator and environments*: scopes balance whatever is thrown; a throw lands
  in a running try; environments in use are alive; definitions reach the
  environment of their own list of forms and no other; a trace lists the calls
  under way.
* *Types, modules*: registered names and fields stay allocated; an import restores
  the scope and the module on every path.
* *Native functions*: bound and current arguments are those the caller gave;
  what the builtins compute from them is the number it should be.
* *Hash, symbols*: a finite map; one id per name and one name per id.
* *Reader, validator, prompt*: valid, partial or invalid exactly as the brackets
  are balanced; every form typed is evaluated once, in order.

The hazards, with the lines where they bite and the properties that watch them,
are in `PROJECT.json`.

## 2. Modules

```
Reachability -+- Gc --- StuApi                Allocator  <== SlabAlloc
              +- Interp                       ObjectList <== GcList
              +- GcList                       AssocList  <== HashTable --- Symtab
              +- HashTable

NativeCall --- Builtins       Import       Forms
```

`X --- Y`: Y builds on X. `X <== Y`: Y is shown to implement X. All are proved about:
`Reachability` in the module itself, `Gc` and `StuApi` in `StuApi_proof`, `HashTable`
and `Symtab` in `Symtab_proof`, `NativeCall`, `Builtins` and `Forms` in `Loops_proof`,
each other `X` in `X_proof`. An `MCx` module adds what TLC needs: a symmetry set, the
functions that are constants, or nothing.

**Reachability** defines what one traversal flags: the smallest set that holds
the roots and is closed under visits, within the objects not flagged before.
`Gc_mark` and `Gc_lock` are two such traversals. Stated as a smallest closed set,
not as a recursion, it can be reasoned about in TLAPS; its first three lemmas (the
roots are flagged, nothing unflagged is left next to a flagged object, nothing
more is flagged) carry the proofs about `Gc`. Following a link is such a traversal
too (`Way`), and the rest of the module is a theory of doubly linked lists (`IsList`):
what a walk meets, what adding at the tail and joining the neighbours over a node
do. It serves the list of gc.c and both lists of hash.c.

**Gc** is the collector under any client that follows the interpreter's rule:
allocate under a scope, use only what can be reached from a scope or `main_env`.
An object is a header with two references, enough for the types the collector
distinguishes. `managed` is the list (as a set), `marked` and `locked` the flags,
`scopes` the stack, `gc_allocs` the count. `GC_INIT`, with the collection it may
start, is one action with the construction that follows (`New`, `BindLambda`,
`Env_main_put`): nothing else happens between, and the object is still blank
while the collection runs, which is what `calloc` or the slab allocator's
`memset` leave. `Known`, what the client can follow, is computed from *all*
references; what the collector marks, only from those it visits. The gap between
the two is where a collector goes wrong.

**StuApi** puts a host on top: an evaluation runs under a scope of its own, does
what any client of `Gc` may do, and has its result locked before that scope goes.
`phase` says whether an evaluation or a dump is under way, `base` the environment the
evaluation started in, `held` what the host has been given and not released, `types`
what the type registry has locked. The host keeps any environment it was given
(`EvalReturnEnv`, `Stu_main_env`), and may evaluate in it, in any order with dumps and
other evaluations, or make it the main one. Nothing in the library protects such an
environment: it is in no scope, not even while forms are parsed and evaluated in it.
`kept` has those of them that are still intact, which a step that frees something
recomputes (`Intact`); the others must not be used any more, and what happens if they
are is undefined and not modelled. `EvalLookup` is how an evaluation gets at what
`base` leads to, while that is intact. `foreign` says that the main environment does
not lead to `base`, `diverged` that this was ever so or that the host ever made an
environment the main one that does not extend the one before. The REPL
(`../repl/main.c:79-87`), which evaluates in the main environment and makes the result
the main one, is one of the hosts.

**Allocator** is the promise of `alloc.h`; **SlabAlloc** is `alloc_slab.c` with
addresses as pairs of slab and index, `free_list` cut at `free_list_head`, and
the bytes of a chunk reduced to "zero" or "dirty".

**ObjectList** is a set of objects with the order they were added in, and an atomic
sweep; **GcList** is the linked list with `Gc_add`, `Gc_del` and the sweep one turn of
the loop at a time. It justifies `Gc`'s taking a sweep as one step. What a walk along
a link meets is again a smallest closed set (`Met`), so that walks can be proved
about. In `Linked`, both ends and both directions are checked between any two turns.

**Interp** is the evaluator's control: a stack of active C functions
(`frames`: `Sv_eval` with `Sv_eval_sexp` and the special form or call it runs,
`Sv_eval_list`, `try`), and the registers they save, change and jump past.
A program is not given; each step chooses what the form evaluated next is. Values
are left out; the heap holds bindings and call stack entries only. Special forms
other than def and try, builtins other than throw, macros and partial application
are evaluations that do no more to these registers than an atom or an argument
does; their call stack entries come and go in between. The exception is the call of a
structure constructor that is not named by a symbol (`Construct`): `Call_stack_push`
knows no such type and pushes nothing (call_stack.c:67), `Sv_eval_sexp` pops all the
same (sv.c:914), and the entry lost is that of a call still under way. Every import that
binds something makes such a call (mod.c:109): it loses its own entry and, when it
returns, its caller's. `unpaired` says that an evaluation has made one. A `try` frame saves the
marker and the scope height, a throw cuts the frames back to it, and
`ReturnToTry` unwinds the scopes after the handler (try.c:46-68).
`EvalForms` is `eval` with its default handler, which ends the process
(`Uncaught`); running out of memory ends it too.

**Import** is `Mod_import_from_file` with `defmod`. `frames` are the imports and
tries under way; the place of a frame in the sequence stands for its C address,
so that `current_module`, which points into the frame of an import (mod.c:90),
may lead to a frame that is gone or to another one in its place. An import that
binds nothing returns from the middle of the function (`ImportNothing`); a file
without a form leaves `captured` as it was (`CapturedStale`). `types` pairs the
name a module's type was given with the one its own forms asked for. The file name
is read from the array all native calls share (`native_arg`), before the module's
forms overwrite it.

**NativeCall** is registration, call and partial application: one array for the
arguments of all native functions, as long as the widest registered one needs, and
closures that keep what they were given. `called` is the call just made, with what
it reads from the array and, beside it, all that its caller ever gave: the
property compares them. **Builtins** adds what the arithmetic operators and the
comparisons compute from the array: each turn of their loops is a function of the
accumulators (`SetAcc`, `Plus`, ...), and a call takes one turn for each argument
(`Loop`), with the rationals as `Sv_new_rational` makes them. `Expected` and `Related`
are the reference definitions: fractions, without accumulators and without types.

**AssocList** is a finite map that remembers the order of insertion, both as sets of
pairs. **HashTable** is `hash.c` pointer by pointer: an entry is on the doubly linked
list of all entries and on that of its bucket. A loop along a link meets a smallest
closed set; the first hit of a lookup is the one from which all other hits are met.
Keys are stored cut
(`sstrncpy`) and looked up whole, which the refinement must allow for: a key that
is cut goes in as another key each time. **Symtab** is the symbol table on top, and
`check/test_hash.c`, a client that also deletes and overwrites, the other user.

**Forms** goes from the keyboard to the evaluator: `Prompt_readline` joins lines
until `Stu_is_valid_form` finds no open bracket, the grammar's actions keep the
forms, `Sv_eval_list` evaluates up to the first NIL. Its reference definitions
(`IsBalanced`, `IsPartial`, `InGrammar`) say on spans of the text what balanced
and well-formed mean, and share nothing with the algorithms they check.

## 3. Runs

| run | instance | shows |
|---|---|---|
| `gc` | 3 objects of type cons, lambda, env; threshold 1; 2 scopes | `NoDangling`, `FreesOnlyGarbage`, `CollectsAllGarbage`, `TypedPointers`, `MarksClear`, `LockedClosed`, `TypeOK` |
| `api` | 3 objects of these types, 2 scopes, threshold 0; the host may evaluate in any environment it has kept and make it the main one | `HeldWhole`: held values stay allocated, closures' environments included, until the host leaves the line of the main environment; `HeldShape`, `EvalSafe`: less is kept then, but still all the program can reach, and an evaluation does not lose a `base` the main environment leads to |
| `slab` | slabs of 3 chunks, up to 3 slabs, array of 1 to begin with | `NoOverlap`, `LosesFirstOnly`, `GrowsWhenFull`, `TypeOK`, and that `SlabAlloc` implements `Allocator` |
| `gc_list` | 4 objects | `Linked`, `DestroyedAll`, that `GcList` implements `ObjectList`, and that every sweep ends |
| `interp` | 4 cells, 8 functions, 2 forms, 2 throws | `ScopesBalanced`, `MarkerRunning`, `EnvsAlive`, `CapturesAlive`, `DefsStayInside`, `TraceUntilThrow` |
| `import` | 1 file, 1 name, 3 imports and tries, 8 scopes | `ScopesRestored`, `SpecCurrent`, `NamedByItself`, `NamesStayLocked` |
| `builtins` | all four operators, `=` and `<`, a host function of two arguments; calls with up to 3 of the numbers 0, -2, 1/2, 1/3; 1 closure | `ReadsWhatItWasGiven`, `ArithmeticExact`, `ComparisonExact` |
| `symtab` | 4 entries, 4 keys of which three collide and one is what is left of a longer one, 2 buckets, array of 1 | `HashLinked`, `NamesKept`, `OneIdPerName`, and that `HashTable` implements `AssocList` |
| `forms` | up to 6 tokens in lines of up to 2, a bracket stack of 2 | `VerdictExact`, `CutsBetweenForms`, `ValidIsEvaluated`, `LosesLastOnly` |

The type invariants of `Gc` and `SlabAlloc` carry numeric bounds (`gc_allocs`,
`free_list`, `num_slabs`) and are checked by runs; those of `StuApi`, `GcList`,
`Interp`, `Import` and `Symtab` are proved (section 5).

Three runs expect a violation, where the code does not do what its own
documentation, comments or tests say:

| run | property | what happens |
|---|---|---|
| `gc_closure` | `BoundArgsLive` | bound arguments of a native closure are not visited (gc.c:68) and are freed while it can be called |
| `api_release` | `ReleasedUnlocked` | `Gc_unlock` acts on unlocked objects only and is called for locked ones (gc.c:226, stu.c:307): nothing is ever unlocked |
| `builtins_mixed` | `MixedExact` | a rational after an integer starts the accumulator from the wrong fraction (builtins.c:93) |

Disagreements met on the way that have no run of their own, because another
property already states the exact extent of what holds:

* a slab's first chunk is never reused (alloc_slab.c:197, against the comment at
  201): `LosesFirstOnly` says no other is lost;
* a throw does not restore the call stack (try.c:39), so later traces list calls
  that are over: `TraceUntilThrow`;
* the call of a structure constructor that is no symbol pops an entry it has not pushed
  (call_stack.c:67, sv.c:914), as every import that binds something does (mod.c:109), so
  later traces miss calls under way: `TraceUntilThrow` says that without a throw a trace
  lists only calls under way, in order, and all of them if no such call was made;
* a def that binds a lambda makes the lambda's environment a new binding that is neither
  locked nor in a scope (special_form.c:69), although the host may hold the lambda
  (stu.h:50). The main environment keeps the binding alive if it leads to the lambda. If
  not, a collection frees it: evaluate `(def f (lambda () 1)) (lambda () f)`, keep the
  result and the environment without making it the main one, evaluate `(def g f)` in it,
  and a later collection takes the held closure apart. `HeldWhole` excludes it by
  `diverged`, without which TLC finds it in the instance of `api` (eleven states);
* an environment passed as `base` is in no scope while forms are parsed and begun
  (stu.c:213-217): an allocation of the parser may free it. `EvalSafe` says that this
  cannot happen while the main environment leads to it (`foreign`); without that
  condition TLC finds it in six states;
* `*updated` is not set when there is no form to evaluate (sv.c:766, stu.h:140),
  so a REPL whose first line is a comment goes back to an empty environment
  (`../repl/main.c:71,82`): `EvalReturn` in `StuApi`, which leaves `kept` alone;
* the name of a module is never unlocked (mod.c:141): `NamesStayLocked` depends
  on it, as the registry still points to the name;
* an import that binds nothing leaves its scope and its dead frame behind
  (mod.c:96-98): `early` in `Import`;
* `(/ 0)` divides by zero and `(/ 1/2)` reads an uninitialised variable
  (builtins.c:303): both are excluded by `ArithmeticExact`;
* an integer before a rational compares as false, whatever the comparison
  (builtins.c:433): excluded by `ComparisonExact`;
* a division by a negative number may leave a negative denominator, which is not
  reduced (sv.c:75 takes it for the bound of the search) and turns the comparisons of
  the result round: `Positive` excludes such arguments from both properties, and
  `ArithmeticExact` does not ask for lowest terms of such results;
* `()` at the top level ends the list of forms (sv.c:776): excluded by
  `ValidIsEvaluated`.

Restrictions under which properties hold, each named by a constant or a variable:

* `NoDangling`, and all that rests on it, without native closures:
  `"native_clos" \notin Kinds`. The run `gc_closure` lifts it.
* `HeldWhole` until the main environment is replaced by one that does not extend
  it, or the host evaluates in an environment the main one does not lead to
  (`diverged`). From then on a lambda whose environment has grown by its own name
  after it was locked (special_form.c:69) may lose that environment.
* All of `StuApi` for a host that evaluates in, and makes the main one, only
  environments that have lost nothing yet (`kept`), and for programs that follow the
  rule of `Gc`: what a def inside another form captures is in no scope (sv.c:891), so a
  program that uses it does not (`NestedDef` below).
* `EvalSafe`, in its part about `base`, for evaluations in an environment the main one
  leads to (`~foreign`).
* `CapturesAlive` and `DefsStayInside` with `NestedDef = FALSE`: a def stands in
  a list of forms, not inside another form. Otherwise the binding is in no scope
  after the def returns (sv.c:758), and a collection frees it.
* `ScopesRestored` until an import has bound nothing (`early`); `SpecCurrent` and
  `NamedByItself` until that, or until a throw has left an import (`crossed`).
* `NamesKept`, `OneIdPerName` and the refinement of `AssocList` with `CutsApart`
  (in `Symtab_proof`): a key too long to be stored whole does not fall into the bucket
  of what is left of it. Nothing in `hash_key` prevents that; where it happens, the
  entry is found under the shorter name, a name that was never put is in the table,
  and putting it deletes the other. The instance of `symtab` has a key that is cut and
  satisfies the condition. `HashLinked` holds without it.

### Bounds

* `Objects`, 3 or 4: a violation of the collector's properties needs a root, a
  path of one or two objects and a newcomer that reuses an address. Two reference
  fields give cycles, sharing and chains. What holds for 3 is proved for any
  number (section 5).
* `GC_THRESHOLD = 1` in `gc`: collections happen at every other allocation, so every
  operation is followed by one in some behaviour; larger values only delay them. 0 in
  `api`, where every allocation collects: garbage is gone at once, and three objects are
  enough for every condition of `HeldWhole` and `EvalSafe` to be needed.
* `MaxScopes = 2` in `Gc` and `StuApi`: roots in a scope below the top one.
* Slabs of 3 chunks: index 0 (special), one in the middle, the last; 3 slabs make
  the array double twice.
* `Cells`, `MaxFrames`, `MaxForms` in `Interp`: a try inside a lambda inside a
  list of two forms with a throw below it, and definitions before and after.
  `MaxThrows = 2`: a throw in the handler of another, which goes to the same try
  (try.c:42), and one in a try that is reached after a first one was caught. Four cells
  are two calls and two bindings, or a call with a chain of three; with
  `NestedDef = FALSE` there are no captures yet where arguments are evaluated, so that
  more are not needed for a throw to find some.
* `MaxDepth = 3` in `Import`: an import under a try under an import, or an import
  in the frame of a dead one; `MaxScopes = 8` is what they need with an exception
  and a scope left behind. One name besides that of the file is enough to tell
  whose name a type got.
* `MaxArgs = 3` in `Builtins`: an integer, a rational and an integer in any order,
  which is every change of the accumulator's type; the numbers include zero, a
  negative one and two fractions whose sum needs cancelling.
* `Entries = 4` in `Symtab`: a collision chain with a middle to delete from, next
  to another bucket, and two doublings of the array of names.
* `MaxTyped = 6` in `Forms`: two nested brackets of different shapes and a form
  before or after; with `VALIDATOR_STACK_SIZE = 2` the third level is refused.
  Every division into lines is tried.

`CHECK_DEADLOCK` is on everywhere. No model can stop for good: a host can always
begin another evaluation or session, a full heap ends in a release, a pop or an
exit.

### Fairness

`GcList`'s `FairSpec` assumes weak fairness of `SweepStep`: the loop of `Gc_sweep`
runs in the interpreter's own thread and waits for nothing, so while it is not
over its next turn comes. `SweepEnds` then says that every sweep ends, though the
list it walks loses objects under it; a loop that stood still or met a cycle would
break it. Nothing else is claimed to happen eventually: whether an evaluation, an
import or a session ends depends on the program or the user.

## 4. Mutants

Every property of every passing run has a mutant: a definition that states what
one place of the code does, changed the way an error there would change it (a
mark left set, a lock not looked at, a link read too late, a register not
restored, an array grown one name late). Each module has its mutants next to the
definition they replace, under a comment that says so. They take no part in the
specifications.

## 5. Proofs

The theorems hold for every value of the constants that the named assumptions of
the modules allow. `PROJECT.json` lists them.

**`StuApi_proof`, on `Gc`** (any set of objects, any threshold, any depth of scopes, under
`"native_clos" \notin Kinds`): `TypeCorrect`, `NothingDangles`, `SweepClearsMarks`,
`LocksHold`, `TypesSurviveReuse` for the invariants of the run `gc`, and
`SweepsGarbageOnly` and `CollectsAll` for its two action properties. No invariant is
inductive alone. With marks left over, the marking stops short and `NoDangling`
fails; without `NoDangling`, a field of a reachable object may be blank or reused;
without `LockedClosed`, the traversal of `Gc_lock` may stop at a locked object whose
references are not locked. The inductive invariant is their conjunction with what
blank memory looks like (an object on no list has no references), so that all
reachable kinds are visited kinds. Marking then flags all that is known
(`ReachClosed`), a sweep keeps it, and what is known after a step was known before
or is new (`ReachLeast`, one lemma per way the references change). The invariant is
in two parts, so that the proofs about `StuApi` can use the lemmas with less: `Sound` does
without `NoDangling` and asks for clear marks on listed objects only.

**`StuApi_proof`, on `StuApi`** (same assumption): `ApiTypeCorrect`, `ProgramsAreSafe` (`EvalSafe`),
`HeldKeepsShape`, `HeldStaysWhole`. While the host holds closures of an environment it
has replaced, not all it can reach is allocated, so `NoDangling` is not invariant
there during a dump. What is: all that `main_env` leads to is allocated, so is all
that a running evaluation knows, and, by definition, all that an environment in `kept`
leads to; what the host holds and what is registered is locked, and the locks are
closed. While an evaluation's `base` is part of what `main_env` leads to, it stays so,
because steps only extend that (`MainGrows`); so `base` is not lost. Looking something
up in another `base` adds to what is known only what is allocated. Until the host leaves
the line of the main environment (`diverged`), a locked object refers only to locked
ones and to what `main_env` leads to, and a locked lambda that a running evaluation can
still bind is one of the latter (`Whole`); this makes held values whole.

**`Interp_proof`** (any heap, any depth and length of evaluation, nested defs
included): `TypeCorrect`, `ScopesComeBack` (`ScopesBalanced`), `JumpsToRunningTry`
(`MarkerRunning`). The invariant adds how frames sit on each other (`Stacked`: each
is of a kind its caller can call, and began under no fewer scopes than its caller) and
that the markers saved by the tries form a chain from the innermost one out
(`MarkersChain`), which is what makes a throw's cut land on a frame that can take it.

On top of it, when a def stands in a list of forms (`~NestedDef`; section 3 says why
nothing of the kind holds otherwise): `MemoryInvariance`, and from it `EnvsSurvive`
(`EnvsAlive`), `CapturesSurvive` (`CapturesAlive`), `DefsInside` (`DefsStayInside`) and
`TraceOrdered` (`TraceUntilThrow`). That no environment in use is freed cannot be kept
alone: a frame's environment is alive because of a scope the frame pushed or found, and
a throw cuts both stacks at once. The invariant `MInv` therefore says, for each frame,
what its own scopes keep (`Rooted`), and that this stays true of whatever prefix of the
frames an unwinding leaves; that call stack entries and their links are kept by the
scopes of the calls that pushed them (`Calls`); that the captured bindings of each list
of forms hang between the environment the list began in and its head register, disjoint
from those of every other list (`Captured`); and that the entries follow the nesting of
the calls, with gaps only where a constructor without a name has popped one (`Trace`). The cells alive are a reachability set, so a collection keeps what
the scopes name, and a cell allocated afterwards is not among it.

**`Import_proof`** (any files, names and depth): `TypeCorrect`, `ScopesBalance`
(`ScopesRestored`), `DefmodFindsItsImport` (`SpecCurrent`), `ModulesNameThemselves`
(`NamedByItself`), `RegistryLocked` (`NamesStayLocked`). Besides these the invariant
says how the frames nest, how many scopes each has pushed, that the saved registers
chain the imports together, and that the name an import is bound to is its own; the
scopes under the condition that no import has ended early, the last two under that and
that none was left by a throw.

**`Loops_proof`, on `NativeCall`** (any functions and arities): `PartialIsWhole`
(`ReadsWhatItWasGiven`). What a closure has bound is what it was given, bound and
awaited arguments together are the arity, and the array has room for the arity of
every registered function; so the arguments written behind the bound ones neither
overwrite these nor run past its end. It holds from an empty interpreter and from one
with its builtins (`BuiltinInit`).

On `Builtins`, for any numbers and any number of arguments: `ArithmeticIsExact`
(`ArithmeticExact`) and `ComparesExactly` (`ComparisonExact`), with integers unbounded.
A comparison is a matter of cross products, pair by pair. For the arithmetic, the loops
are recursive functions, and what a loop computes is proved by induction: the library's
induction theorems take an operator, which no prover here can instantiate, but a set of
naturals has a least element (`LeastNat`, from the well-foundedness of `<`), so what
holds before a loop and is kept by each turn holds at its end (`EveryTurn`). The
invariants of the loops are `IntState`, the accumulator *is* the value so far, and
`RatState`, the rational accumulator is a fraction equal to it, with the type of the
argument looked at last where a rational comes next. The second is where the order of
the arguments matters: `SET_ACC` starts the rational accumulator from `acc / acc`
(builtins.c:93), which is right only for the 0 of a sum and the 1 of a product. What
`Sv_new_rational` returns is the same number (`NewRational`), in lowest terms because a
common divisor left over would make a larger one of the two numbers it began with.

On `Forms`, for texts of any length and any `VALIDATOR_STACK_SIZE`: `VerdictIsExact`
(`VerdictExact`), `InputIsCutBetweenForms` (`CutsBetweenForms`),
`ValidFormsAreEvaluated` (`ValidIsEvaluated`) and `ReaderLosesLastOnly`
(`LosesLastOnly`). The invariant of the session (`FormsInv`) is short: what was typed is
what was submitted and the form being read, and `__cont` is the verdict on the latter.
The work is in the texts. What is right is defined on spans of the text
(`IsBalanced`, `InGrammar`), what the code does on its prefixes, and each direction
between the two is an induction of its own:

* A balanced span leaves the validator's stack as it found it, if there is room
  (`BalancedPasses`, over the length of the span); and of the text after which the
  stack is as low as before and never was lower, both the first bracket and the one that
  closes it are found, so it is balanced (`LowestBalanced`). The height of the stack is
  the depth of the text, and the brackets that close what is on it, from the top down,
  complete the text (`ClosersClose`), which is what "partial" means.
* A balanced span whose quotes apply is a list of forms (`BalancedIsForms`).
* What the grammar derives from a span the parser reads, and leaves open what was open,
  but for quotes (`DerivedIsRead`); and where the parser is back at what was open
  before, the grammar derives the span (`ReadIsDerived`). The induction is over the
  length of the span, lists of forms after forms (`Rank`), for a list begins with a form.
  That the bracket that closes a form is the opposite of the one that opened it
  (`OpenUntilClosed`) rests on what lies under the top of `open` being untouched
  (`OpenBelow`).
* At every token without an error before it, the list is a cut of the text into forms,
  up to where nothing was open last, or that but for the last form, which the parser
  keeps apart (`FormsCutOff`); `ListIsCut` adds the end: an error leaves the list as
  it was. With it, the whole forms a text begins with are those after which nothing is
  open (`WholePrefixes`), and `LosesLastOnly` is what is left to say.

**`SlabAlloc_proof`** (any `SLAB_SIZE` and `INITIAL_NUM_SLABS` above 0, any
`MaxSlabs`): `TypeCorrect`, `ChunksDisjoint`, `OnlyFirstLost`, `GrowsUnderNeed`,
and `Implements`, the refinement of `Allocator`. Here too the parts need each
other: that the free list has room for the chunk being released follows from its
entries being distinct, free and below `chunk_head`.

**`GcList_proof`** (any finite set of objects): `ListInvariance`, `ListTypeCorrect`,
`DestroysAll` (`DestroyedAll`), `ListLinked` (`Linked`) and `Implements`, the refinement
of `ObjectList`. The invariant says that the list is one in the sense of `Reachability`
(`IsList`): *some* order of the allocated objects agrees with both links and both ends
(`Ordered`), and no proper part of them holds an end and follows its link (`Spans`). The
second is what an induction along the list would give, kept as an invariant instead. A
deletion leaves the order as it was, and a new object ranks last. From the two follows
what any walk meets: all that ranks later, and nothing else. With it, an unconditional
sweep is always at the head of what is left, so when it is over nothing is left; and
each turn of a sweep leaves the objects that will survive, and their order, alone. It
also shortens what is ahead of the sweep by the one object it looks at (`SweepRunsOut`),
so a sweep takes no more turns than there are objects.

**`Symtab_proof`** (any finite set of entries, any number of buckets, any keys, any
way of spreading them over the buckets): `TableTypeCorrect`, `TableLinked`
(`HashLinked`), and under `CutsApart` (section 3) `SymbolsNamed` (`NamesKept`),
`SymbolsUnique` (`OneIdPerName`) and `TableImplements`, the refinement of `AssocList`.
The invariant says that the live entries are an `IsList` of the table, that those of
each bucket are one, and that the buckets divide the entries between them (`Sound`). What
a put or a deletion leaves is computed field by field and then shown to lengthen or
shorten exactly two lists. That a key is stored at most once where it is looked for
(`Unique`) follows from a put's deleting first and from `CutsApart`; with it, a lookup
sees an entry or it does not, and no operation on another key changes which. The
refinement is then set algebra on the entries that are found. The symbol table adds
that the value of every entry is the index of a name that is stored as the entry's key
(`Numbered`), and that every pair issued is in the array and, unless its name is cut,
in the table (`Issued`).

Checked by TLC only: `SweepEnds`. It is liveness, which like `ENABLED` is beyond the
prover; its safety half is `SweepRunsOut`, and what is missing is that a turn is always
possible and, by fairness, taken. Every other property of a passing run is stated by a
theorem.

## 6. Plan

Everything above is done. What could follow, in this order:

1. `Instances`: several interpreters and the shared, counted NIL (stu.c:87).
2. The type registry and structures: field vectors that are not cleared
   (sv.c:202) and copied short (sv.c:530), and the constructor of a module, which
   evaluates values once more (mod.c:109).
3. In `Interp`: macros, quasiquotation, partial application of lambdas.
4. Bounded width in `Builtins` (sv.c and builtins.c multiply longs unchecked), and
   floats.

## 7. Not modelled

* Several interpreters in one process, include paths and statistics of the API.
* The registry's arrays, field accessors, structure values, dotted pairs.
* Values as such: copying, dumping and printing, lists, strings, regular
  expressions (libc), floats and the overflow of longs.
* Lookup in environments and path resolution, which change no state.
* The system allocator beyond its promise (two libc calls), the generated scanner
  and parser beyond what the grammar's actions keep, editline and its history,
  option parsing, the standard library of stu programs, studoc.

An open string literal or comment is a matter of the scanner; `Forms` has brackets,
quotes and atoms only. Each of these has its entry in `PROJECT.json`, among the
components or the hazards.
