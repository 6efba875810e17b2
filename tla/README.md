# Verification of the HopHop compiler

TLA+ models of the parts of the HopHop (`hop`) compiler whose control is hard to
test, checked with TLC, with theorems checked by TLAPS. Paths below are relative
to the repository; `mir.c:487` means line 487 of `src/mir.c`.

## The system

`hop` compiles a package of `.hop` files. Source text goes through these parts:

| Part | Files | State it keeps | Operations | Hard behaviour |
|---|---|---|---|---|
| Arena, diagnostics, lexer | `libhop.c`, `diagnostics_data.c` | arena block chain; diagnostic list; lexer position, automatic-semicolon state | alloc/grow/reset; push; next token | block reuse after reset, capacity overflow, the token before a newline |
| Parser | `parse.c`, `string_lit.c`, `fmt_parse.c` | token cursor, AST under construction | one procedure per construct | lookahead, error recovery |
| Formatter | `format.c` | output buffer, comment cursor | format AST | idempotence, comment placement |
| Type checker | `typecheck/*.c` | scopes, interned types, instantiations, const-evaluation frames | check declarations, expressions, statements; run MIR for constants | recursion through lazily checked declarations, const-evaluation depth |
| MIR builder | `mir.c` | growing tables (instructions, functions, locals, constants ...) | add rows, begin/end function, append/insert instruction, finish, validate | instruction insertion after jumps were emitted |
| MIR lowering | `mir_lower.c`, `mir_lower_stmt.c`, `mir_lower_pkg.c` | control-context stack, pending jumps, deferred statements, local scopes | lower each statement and expression | `break`/`continue`/`return` through `defer`; unrolled pack loops |
| MIR executor | `mir_exec.c`, `ctfe.c`, `ctfe_exec_state.c` | frames, operand stack, jump budget | one case per opcode, calls, hooks | every exit path must release its hooks; stack depth depends on data |
| Evaluator | `evaluator.c`, `evaluator_mir.c`, `evaluator_entry.c`, `platform_cli-eval.c` | call stack, MIR frame and execution-context stacks, lazily initialised top-level variables | resolve calls, invoke functions, initialise globals on first use | re-entrancy through hooks, fixed-size stacks, initialisation cycles |
| Package loader | `hop_pkg.c`, `hop_support.c` | package table with load states, imports, selected symbols | load recursively, bind imports, check packages | cycles, table reallocation under live pointers, partial failure |
| Whole-program MIR | `hop_mir.c`, `mir_lower_pkg.c` | package order, per-package function maps | topological order, merge, dynamic-call resolution | order and remapping of indices |
| Back ends | `codegen.c`, `codegen_c/*.c`, `codegen_wasm.c` | output buffers, emitted-type sets | emit C, emit WebAssembly | one backend agreeing with the executor |
| Driver and build cache | `hop_main.c`, `hop_codegen.c`, `os_libc.c` | cached artifacts, temporary files | compile, run, write atomically | a crash between write and rename |
| Library and platforms | `lib/` | allocator state in the `.hop` sources | compiled with the program | outside the compiler |

The parts interact by calls and callbacks. The lowering drives the MIR builder;
the executor calls back its embedder (the type checker for constants, the
evaluator for `hop run`) through the hooks of `H2MirExecEnv`, and the evaluator's
hooks call the executor again. Everything is single-threaded: the hard orders are
those of nested calls, early returns and callbacks, not those of threads. The exceptions are
files: the build cache and the formatter share them with editors and with builds that
were killed.

What makes each part correct:

* **Executor** - hooks are paired on every exit; no operand is popped that is not
  there; the jump budget bounds every frame.
* **Lowering and back ends** - the MIR of a function, the Wasm recovered from its
  jumps and the C written from its statements do what the statements say: `break` and
  `continue` reach the right loop and deferred statements run once, last first, on every
  way out of a block.
* **Flow analysis** - a pointer is assigned before it is used on every path of an
  accepted body; what a test or a case says of a local is true wherever the checker
  relies on it, and the C back end relies on the same.
* **Overloads** - the chosen function does not depend on the order of declarations, and
  all who choose choose the same.
* **Builder** - function ranges tile the instruction table, and a jump still names
  the instruction it was emitted for after an insertion.
* **Whole-program MIR** - what is built computes what is written, through every pass that
  removes or inserts instructions; plain programs are built.
* **Evaluator** - call stack, frame stack and execution contexts agree; fixed
  arrays are not overrun; a global is initialised at most once.
* **Package loader** - a package is loaded once, imports form no cycle, no package
  pointer is stale, packages are ordered after their imports, and a name means in the
  combined source what it means in the package.
* **Build cache** - what a build takes is made of the sources it read, for the target it
  is for, whatever was interrupted or edited before.
* **Formatter** - the formatted file means what the source means, and formatting
  it again changes nothing.

## The modules

| Module | Models | State in the code | Shape |
|---|---|---|---|
| `FrameHooks` | what the executor promises its embedder | the open calls | abstract state machine |
| `MirExec` | `mir_exec.c`, the validator of `mir.c` | `H2MirExecRun` of every active call, the embedder's two saved stacks | one action per kind of instruction, one per part of a call |
| `MirExec_proofs`, `MirExecStack_proofs` | theorems about `MirExec`: its hooks, its stack and its validator | | |
| `Stmts` | `docs/language.md` section 7 | | statements and their meaning |
| `StmtLower` | `mir_lower_stmt.c` | `H2MirStmtLower`: code, locals, controls, jump lists, deferred statements | a recursive translation, then the run of its result |
| `WasmControl` | `codegen_wasm.c`, control flow | the instruction range and its branch targets | a recursive translation of MIR |
| `CStmts` | `codegen_c/expr.c`, statements | `H2CBackendC`: locals, deferred statements, their marks | a recursive translation of statements |
| `FlowCheck` | `typecheck/stmt.c`, definite assignment | the `initState` of every local | one pass over the statements |
| `Backends` | a body on its way through all four | | the composition |
| `NarrowStmts` | statements over optionals and enums, run as source (`mir_lower_stmt.c`, `mir_exec.c`) and as C | the locals with their values | an interpreter |
| `NarrowCheck` | `typecheck/stmt.c`, `expr.c`: narrowing | the types of the locals, `variantNarrows` | one pass over the statements |
| `NarrowC` | `codegen_c/expr.c`, `base.c`: narrowing again | the types of the locals, the active local, `variantNarrows`, deferred statements | a recursive translation of statements |
| `Narrowing` | a body checked, written as C, and run as both | | the composition |
| `CallTypes` | conversion costs of type checker, C back end and evaluator | types, `H2TypeRef`, values | three cost functions |
| `CallResolution` | `typecheck/resolve.c`, `codegen_c/expr.c`, `evaluator.c`: choosing an overload | the best candidate of a scan | one action per candidate and scan |
| `CallResolution_proofs` | theorems about the type checker's scan in `CallResolution` | | |
| `ConstSource` | constants, functions and array lengths that name one another, and what their names mean | | recursion over expressions |
| `ConstEval` | `typecheck/consteval.c`, the checks of `expr.c` that call it | `constEvalState`, `constEvalValues`, the locals of the function being checked; `H2TCConstEvalCtx` as an argument | one action per item checked, a recursive evaluation |
| `PkgLoader` | `hop_pkg.c`, the orders of `hop_codegen.c` and `hop_mir.c` | `H2PackageLoader`, the recursion of `LoadPackageRecursive`, of the two visits | one action per way a call of the recursion goes on |
| `PkgLoader_proofs` | theorems about `PkgLoader` | | |
| `NameMeaning` | what the names of declarations and bodies denote (lookup of `typecheck/`) | a scope: declarations, aliases, locals | recursion over trees |
| `ImportSurface` | `hop_pkg.c`: import symbols, aliases, surfaces of imported packages, the source a package is checked as | `H2Package.imports`, `.importSymbols`, the text under construction | one action per pass over a package and per surface appended |
| `EvalCalls` | `evaluator.c`, `evaluator_mir.c` at run time | `HOPEvalProgram`, the `HOPEvalMirExecCtx` in use, the C activations | one action per road of a call, one per return |
| `EvalCalls_proofs` | theorems about `EvalCalls` | | |
| `MirAssembly` | `evaluator_mir.c` while it builds a program, the insertion of `mir.c` | builder tables, `evalToMir` and its like, the walks in progress | one action per decision at an instruction |
| `MirAssembly_proofs` | theorems about `MirAssembly` | | |
| `PackageSource` | functions with calls and allocations, their meaning and the MIR `mir_lower_stmt.c` makes of them | | a recursive translation |
| `PackageMir` | `hop_mir.c`: the passes over a whole program | the instructions of a function, then the machine that runs them | one action per pass, one per instruction |
| `BuildCache` | `hop_codegen.c`: what a build reuses, makes and links | the files of the cache and their times | one action per write, one per failure |
| `BuildCache_proofs` | theorems about `BuildCache` | | |
| `FormatExpr`, `FormatBody` | `format.c`, the expressions of `parse.c`, the operators of the lexer | | rewriting, writing and reading again |
| `Formatter` | a file that is edited and formatted (`hop_support.c`, `os_libc.c`) | the file, the formatter's copy | one action per system call |
| `MC*` | instances for TLC | | constants and sets of inputs |

How they fit: `StmtLower` produces what `MirAssembly` rewrites, `WasmControl`
translates and `MirExec` runs. `MirExec` implements `FrameHooks` (property
`HooksAreBrackets`, with the calls read off its frames), and `EvalCalls` is one embedder
behind those hooks: its `EnterFunction`, `BindFrame` and `LeaveFunction` are the four
callbacks, called in the order `FrameHooks` allows. `CallResolution` decides which function
such a call names, `PackageMir` binds it; `PkgLoader` yields the packages `PackageMir` takes in
its order and `BuildCache` makes objects of; `ImportSurface` takes packages in that order and
makes of each the one file that the type checker and the C back end see. Modules
that are not composed by EXTENDS share no variables; each abstracts the data of its
neighbours to what its own properties tell apart.

### MirExec

A frame keeps its function, its program counter, the *height* of its operand
stack and its count of backward jumps. Values are not kept, with one exception: the
flag `ITER_NEXT` leaves on top, because it decides how many operands lie
below it. Everything else that depends on values is a free choice among the results
C can return: go on, "not const" (`return 0` with `*outIsConst` clear) or an error
(`return -1`). `EvalFunction`, `OpenCall`, `BindFrame`, `UnbindFrame` and
`LeaveFunction` are `H2MirEvalFunctionInternal` cut where it calls its hooks;
`Straight`, `IterNext`, `Jump`, `JumpIfFalse`, `CallFn`, `CallIndirect`, `Return`,
`ReturnVoid` and `EndOfCode` are the cases of `H2MirRunLoop`. A host call is one
step: what the embedder does inside it is `EvalCalls`.

### Stmts, StmtLower, WasmControl, CStmts, FlowCheck, Backends

An expression is a visible action with the declaration its name resolved to; conditions
are decided freely when the code runs. `Meaning` is the structured meaning of a
body for a sequence of decisions, written from the language's documentation; every
translation is compared with it for every sequence of decisions.

`StmtLower`: the lowering context is a record threaded through the translation, as the C
code threads a pointer. The fixed tables (controls, blocks, deferred statements, jumps,
labels) are parameters, so that small bodies overflow them. The result is a flat list of
actions, jumps and branches, run by `DoAct`, `DoJump`, `DoBranch`, `DoReturn`.

`WasmControl` takes that list. `WasmFindLoopRegion`, `WasmFindUnconditionalLoopRegion`
and `WasmEmitIf` recognise loops and ifs in the jumps by their places alone, as the code
does, and `WasmEmitFunctionRange` emits nested blocks with relative branch depths, refusing what
it does not recognise. `WasmMeaning` runs the emitted structure.

`CStmts` writes C statements: deferred statements are written again at each way out, from
the stack and marks of the emitter, and a name means what is declared where it is
written. Its result is a body of `Stmts`, whose `Meaning` is what the C text does.

`FlowCheck` saves, restores and merges the states of the pointer locals in the order of
`H2TCTypeStmt`. `Backends` composes the four: one body, a target, and the run of what was
emitted. A body that is accepted by `FlowCheck` is run as MIR to see whether a use came
before its assignment.

### NarrowStmts, NarrowCheck, NarrowC, Narrowing

A local `x` of type `?T` is a `T` where a test says it has a value, and null where it says
it has none: in the branches of an `if`, and behind an `if` whose only branch leaves. A local
of an enum type is narrowed to a variant in a case with one label. `NarrowCheck` changes and
restores `locals[i].typeId` and the list `variantNarrows` in the order of `H2TCTypeBlock`,
`H2TCTypeStmt` and `H2TCTypeSwitchStmt`. `NarrowC` is the emitter's own version: it looks at
the same tests without the types found by the checker, reads one *active* local through
`__hop_value`, replays deferred statements where a block is left, and takes entries of its list
off the end only. Its statements are those of C, in which an optional is a tag with a
value and `NULL` the number 0, and `ok` says whether a C compiler takes them.

`NarrowStmts` runs either. Passing null for a `T`, or reading a payload field the enum does
not have, is a fault of the source; what C reads of the wrong member of a union is "garbage". Calls
of `cond()` are decided freely. Which bodies are accepted, and which of their C compiles, was
compared with the compiler and a C compiler on 200 random bodies of the instance.

### CallTypes, CallResolution

`CallTypes` has three cost functions over one small universe of types: on types
(`H2TCConversionCost`), on flattened records of base name, depth and flags
(`H2TypeRef`), and on run-time values. `CallResolution` maps the arguments to
parameters, by name and position, and runs the three scans, one action per candidate: the
type checker's, then the C back end's or the evaluator's. A scan keeps one best candidate
and whether it is tied, which is what makes the order of declarations a question. What a
conversion costs is a parameter of `CallResolution` (`CheckCost`, `BuildCost`, `RunScore`), for which the
instance takes the three functions of `CallTypes`: the theorems about the scan hold for every cost.

### ConstSource, ConstEval

Functions are checked in the order of the text; on the way the initialisers of local constants
(`CheckConst`) and array lengths (`CheckSize`) are evaluated, and at the end every constant of
the top level (`ValidateTop`). `Eval` is one evaluation: a function that is called, and a
constant declared alone, run as MIR (`RunFn`, `RunConst`), where locals are slots and other names
were resolved when the code was lowered (`Targets`, `Lowered`); everything else is looked up by name
when it is needed (`Lookup`), in the parameters of the innermost call, the bound frame, the
locals of the function being checked and the declarations. `EvalTop` keeps the state of a
declaration between evaluations. `ConstSource.Meaning` is what an expression means where it is
written. The values of the instance's shapes were compared with the compiler's on
12,000 random programs. `MCChecker` runs these programs beside the calls of
`CallResolution`: a behaviour is of one or the other.

### PkgLoader

A pointer to a package is its index together with the table it points into, and
growing the table may move it; a package is entered before its files are read, so it moves for one
without sources too. Using a pointer into an old table leads to the phase
"undefined", from which nothing is claimed. File systems and command lines are
chosen initially (`Worlds`); paths are sequences of names. Parsing and type checking
are outcomes: a package is broken, or refused. `StartOrder` chooses which order
is computed, over all packages (objects) or from the entry package (MIR).

### NameMeaning, ImportSurface

The type checker and the C back end know no packages: `hop_pkg.c` writes one file for each,
with a *surface* of every package it imports, in which `b.x` is written `b__x`. `ws` is the
workspace, in the order in which its packages finish loading, and `at` the package of the
step. `FinalizeSymbols`, `Conflicts` and `Validate` are what is decided about its imports
before it is checked; `AppendSurface` appends the surface of one import, preceded by those of
what that import imports itself, `AppendOwn` the wrappers of overloaded imports and the
package's own declarations, and `Check` is the type checker as far as it resolves names.

Two rewritings make the text, and both are modelled by what they replace. `NameExpr` and
`NameStmt` walk the tree and replace named imports, with the shadowing the code tracks by hand
and the parts it passes by. `Tokens` replaces `alias.name` and, in a surface, every identifier
that reads like an exported name, a field or parameter included. A name is a sequence, so
that `b__x` cannot be confused with a name of the program; the numbers of
`MakeUniqueImportAlias` are part of it.

`NameMeaning` says what each name denotes, with the same lookup rules for both texts; the
scope of a source (`SourceScope`) has aliases and named imports, the scope of the combined text
(`CombinedScope`) only declarations. A generic body is resolved only where it is called, and a
type is not a value. The platform and `builtin` surfaces and the source maps are left out.

### EvalCalls

What a function computes is left out; it makes calls by every road the code has
(`CALL_FN` and `CALL_INDIRECT`, `HOPEvalResolveCallMir`, comparison and iterator
hooks, function references of both kinds), reads and assigns globals, and ends with
a value, without one or with an error. What is kept is all that is saved and
restored around those calls: call stack, current file, execution context, MIR
context, template binding, and the two stacks in a MIR context. `acts` is the C
stack, a history variable the properties are stated with: it is where the saved copies
of `HOPEvalInvokeFunction` and `HOPEvalEvalTopVar` live.

### MirAssembly

Each instruction carries the function and the place of the source it stands for, so
that the properties can say what became of it. A walk (`HOPEvalMirLowerFunction`,
`HOPEvalMirRewriteTopInitCalls`) is a frame with a function and an index; lowering a
target pushes a frame, as the recursion does.

`RewrittenAsMeant` is stated instruction by instruction: each one of a finished function is what
is meant at its place (`Meant`, from the names in the source only, not from what the walk
found), and the one behind it is the next that is meant (`InOrder`), so nothing is lost,
repeated or put in another place. `IsWorld` says what is known of lowered code: it ends in `RETURN`
(`mir_lower_stmt.c:5231`, `mir_lower_pkg.c:257`, `:447`), its jumps stay inside, it holds no reference to a
function of a program yet; an item is a function, a constant or a variable, and an alias names a function.

### PackageSource, PackageMir

Values are terms: a call is the sequence of what it calls and its arguments, so two
computations are equal exactly when they called the same functions with the same values and
left the same objects. `Meaning` evaluates the statements; `Lowered` is the MIR of one
function as `mir_lower_stmt.c` leaves it, with names, fields and allocations still to be bound.
`PackageMir` runs the passes of `BuildPackageMirProgram` in their order: `Resolve`
(names, qualified names and calls, with the names of packages taken out), `FuncFieldCalls`,
`AllocCounts`, `AllocAllocators` and `AllocInits` (insertions), `Emit` (what the Wasm back end
refuses), and then runs the result instruction by instruction. A call's arguments are
found with `ArgStart`, which sums stack effects in the order of the code as
`FindCallArgStartInFunction` does. The shapes were compared with the MIR the compiler prints.

### BuildCache

A file is what went into it: the versions of the sources, the signatures of the
toolchain and target, whether it is whole, and its time. `Start` reads the
sources once; `Reuse` and `MustMake` are `IsPackageArtifactUpToDate` and its like for
platform objects and wrappers; `WriteText`, `Compile`, `WriteSignature` and
`Link` are the writes, in the order of `BuildCachedPackageArtifacts`. A package is as new as its
newest source and its directory (`NoNewerSource`); a directory has the time at which a file in it was
last created or removed, and of those only the program linked into it is newer than what it
holds (`OutputsIn`: the default output of a build from a file lies beside that file). `Fail` and
`KilledWriting` end a build anywhere, the second with a half written file; `LinkFails` leaves no
output where one may have been; `Edit` and `Tick` happen at any time, so several writes can carry the same time. `torn` remembers the units
whose making was interrupted: the signature of the last complete make stays beside their new text.

### FormatExpr, FormatBody, Formatter

Formatting is compared through reading again. `FormatExpr` writes an expression as
characters the way `H2FmtEmitExpr` does, and `Lex` and `Parse` read characters the way
`H2Lex` and `H2PParseExpr` do, so that operators that run together and parentheses that
were dropped show. `FormatBody` is the rewriting of declarations and casts, with the
formatter's own search for names, which knows no scopes; its `Meaning` resolves names and
types as the type checker does. `Formatter` puts both in a file that a programmer saves
while the formatter reads, writes a temporary file and renames it.

## The runs

| Run | What it asks | Instance, and why it is enough |
|---|---|---|
| `exec_programs` | hooks, stack, validator, jump budget, ends, refinement | fifteen programs: keyed iteration, recursion with a variadic callee, dropped receiver, closure entry, packs whose local or type the validator refuses, the two type indices it does not look at, and malformed or endless code; and every function of at most four instructions over eight kinds that has a stack map, so that no shape of code was left out by hand; limit 2, depth 3: each limit is reached and exceeded |
| `backends` | all translations do what the statements say; flow analysis | every pair of statements nested in loops, switches, ifs and blocks under deferred statements; shadowed names, left in every way while a deferred statement waits, packs, deferred blocks; one body too large for each table; pointers assigned on every choice of paths; 12 actions, 7 decisions: two rounds of two nested loops |
| `c_break_defer` | finding | one body |
| `narrowing` | what is narrowed is so, in the source and in C | 20,000 bodies, 3,500 of them accepted: each test of an optional around, between and behind uses, assignments, shadowing declarations, jumps, loops, a second test, closures and deferred statements; switches over three variants, two with payloads, with aliases, shared labels, inner switches and reassigned enums; every initial value; two narrowings behind ifs of a block instead of eight, so that the third is not made |
| `checker` | one choice of overload for all, whatever the order; constants have the values they are written with | every list of three functions of one parameter over 17 types, of two functions of two parameters, variadic or not, of two functions told apart by the name of their parameter, and every way to name three arguments; three constants, declared together or alone, two functions and an alias of one, each naming the others in every combination, and two checked functions with locals that hide them or not; call depth 8 instead of 64, deeper than any of these that ends |
| `load_graphs` | cycles, binding, pointers, orders, ends | every import graph of three packages with lists of up to two imports, from a directory and from files, with a platform and a library; `TableCap` 2 instead of 256, so the table moves, once and twice |
| `import_surface` | a name means in the combined source what it means in the package; plain packages are accepted | two to four packages: six base packages (a private name behind an export, an overload, a generic body, a field named like an export), a second package of the same last name, packages over the base that import by alias, by another alias or by name, and a main package with one of the bodies that use a constant, a type and a function of the import in every kind of statement, with locals and parameters named like what is imported; imports in both orders; chains of three, so that a surface is appended for what an import imports |
| `eval_calls` | shared state and initialisers | two functions of two files, a function value, a variable and a constant; depth 2, seven activations: enough for a function that is called by two roads while an initialiser runs |
| `assembly` | the program is assembled as meant | entry point, two functions, a constant, a variable; two references in the root, one in each other item, all kinds; mutual recursion, items given up; branches before, over and behind a qualified name in a function that moves; fields of imports that are kept, loaded, or no items |
| `package_mir` | passes over the whole program | each of six argument expressions, one with a conditional, in eleven forms of calls, and each of six values as an initialiser, a count and an allocator of a struct with five sets of defaults; straight on, in an if, in a loop, and behind a call that loses an instruction: every pass moves code in front of, inside and behind jumps |
| `build_cache` | freshness, targets, reuse, linking | a chain of three packages with a builtin object, and a test of the first with a wrapper for another target, in one cache, the program linked into the directory of its entry package and the test elsewhere; three builds, one edit, three ticks: an interrupted build of one program between two builds of the other |
| `fmt` | meaning kept, idempotence | bodies of three statements over two names and a third that holds a sum of casts, nested or not, with a type, with an optional one and without; expressions of up to three operators of each precedence, every parenthesisation that parses back |

The largest are `build_cache` (11 million states, two and a half minutes), `checker` (1.2
million), `fmt` (730,000), `import_surface` (330,000) and `assembly` (230,000); the others take less than a minute.

Runs that are expected to pass check deadlock too: where a model stops, it has an
explicit stuttering step (`Finished`, `Stopped`, `BuildStopped`, `Done`). The exceptions are
`build_cache`, `fmt`, `package_mir`, `import_surface` and `narrowing`, which really stop: when the
bounded number of builds is used up, when nothing is left to write in a full file, when a function
was run or refused, when the last package was checked or one was refused, and when a body was
rejected or its run has ended.

**Fairness.** The compiler is one thread that waits for nothing: while a step is
possible, the next one is taken. Each specification with a liveness property
assumes `WF_vars(Next)` and no more; no choice of outcome is assumed fair, so
that "every evaluation ends" holds for the worst sequence of choices. `MirExec`
terminates because backward jumps are counted and calls are bounded by the embedder's
hooks, and only then: with `BackwardJumpLimit` 0 (`hop run`) it need not.
`EvalCalls` does not terminate and does not claim to: programs may run for ever.
It claims that errors reach the end. No fairness is assumed of programmers, of
killed builds or of the clock, and nothing is claimed to happen because of them.

**Bounds.** `MaxEvents` and `MaxChoices` (`StmtLower`, `Backends`, `Narrowing`) cut a run after so many
actions or decisions; what was done until then is compared. `MaxActs` (`EvalCalls`) bounds
the C stack, `MaxBuilds`, `MaxEdits` and `MaxClock` (`BuildCache`) what happens to one
cache, `MaxStatements` (`Formatter`) a body; a returned expression other than a name is
only written in an empty body, since the two rewritings do not meet. All other limits are
the code's own tables, made small.

**Exceptions stated in properties.** Some properties hold except where the code
disagrees with its documentation, and say so: `CKeepsControl` leaves out jumps across two
blocks with deferred statements (`c_break_defer`) and `continue` inside `switch`, `NamesAsWritten` (and
`WasmAsWritten` and `CKeepsControl`, as to the names) bodies where a deferred statement is replayed in the scope
of a later declaration of its name (`ReplaysShadowed`) or an initialiser has the name it declares
(`InitialiserNamesItself`), `IndicesValidated` the two indices of `Unvalidated`, `FlowSound` early
breaks out of a switch, `NarrowedHolds` and `CReadsAsChecked` the bodies named by `Poked`,
`Closures`, `Reassigned`, `SharedAlias`, `UsedBehindGuard`, `TwoActive`, `ReplayedInside`,
`SwitchedAgain` and `StaleVariant` (without any one of them TLC finds another body),
`RewrittenAsMeant` jumps over an instruction inserted in their function, `BuildAgrees` and `RunAgrees` the calls on which the cost functions
are known to differ (and `BuildAgrees` those that name a first parameter which a candidate lacks), `EvaluatedAsWritten` programs in which a parameter or a
local hides a name that is looked up late (`Captures`) and refusals of constants declared together that
need one another (`Entangled`), `RunsAsWritten` the programs named by `ArgsInOrder`, `FirstMeant`,
`NoCapture` and `NoLostDefault` (without any one of them TLC finds a program that computes
something else), `FreshUnlessRaced` and `ConfigKept` the races and interruptions they
define, `SecondBuildReuses` a package whose directory the build has linked its output into (`LinkedBeside`), `NamesMeanSame` the workspaces with `AliasClash` and the declarations with
`Captured` names or a `PrivateMethod`, `PlainAccepted` all but packages that are `Plain`,
`Exposable` and have `AliasesApart` (again none can be left out), `FmtKeepsMeaning` the sums of two casts of literals where no type is declared (`SumsTyped`), and it and `FmtIdempotent` the collisions below.

## What the runs show

Everything the passing runs list holds, and each is violated by a plausible
change of the code. One disagreement has a run of its own; it was reproduced with the
compiled program.

| Run | What happens |
|---|---|
| `c_break_defer` | the C back end replays at `break` and `continue` the deferred statements of the innermost block only (`codegen_c/expr.c:14853`): a break out of two blocks loses the outer ones, which the executor and Wasm run |

Known disagreements without a run, found while modelling and reproduced where that needs
no special setting:

* *Lowering.* Unrolling a loop over an `anytype` pack stops after an iteration that ends in
  a conditional return (`mir_lower_stmt.c:4311`), and a `break` in it leaves the loop around
  it (the pack loop has no control of its own). A deferred statement lowered at an exit
  inside a block uses the names of that block (`mir_lower_stmt.c:2729`), against lexical scope
  (`docs/language.md:286`): `var x i32 = 1  defer *p = x  { var x i32 = 2  if c { return x } }` stores 2, and the C
  text does so too (`codegen_c/expr.c:14453`). `var x = x + 1` in an inner block reads the new `x`
  (`mir_lower_stmt.c:5023`).
* *Validator.* The type of `AGG_ZERO` and the result type of a function are looked up without having been
  validated (`mir_exec.c:1509`, `:1980`; the loop at `mir.c:516` passes over both), so that an index out of range is found when it is
  used, in a program that was accepted; the compiler writes none.
* *Flow analysis.* A `break` out of a switch is merged as if the clause had been finished
  (`typecheck/stmt.c:1416`), so that a pointer left unassigned by it passes.
* *Narrowing, type checker.* A closure `fn() { x = null }` called where `x` is narrowed makes it
  null there. `case E.A { e = E.C; use(e.v) }` is accepted: the evaluator fails, C reads a
  payload that is not there. `case E.A as a, E.B as b` declares both aliases; the
  executor binds the last one only (`mir_lower_stmt.c:3598`), C both (`codegen_c/expr.c:14062`). `if !x`
  is rejected for an optional, though `typecheck/stmt.c:310` lists it.
* *Narrowing, C back end.* The C of these does not compile: `if x == null { return }` and a
  use of `x` as a `T` behind it (`docs/language.md:390`); `if x != null { if y != null { need(x) } }`, since
  one local only is active (`codegen_c/expr.c:14749`); a closure that assigns a narrowed local; a block with an enum of its own
  that is switched on before one of an outer block (`codegen_c/base.c:5192`: the alias of the second case finds the entry of the
  local that is gone). The C of these does something else: a deferred statement replayed in a narrowed branch, where `x = null`
  sets the value and keeps the tag, and `if x != null` tests the value; a switch on `e` inside a case of `e`, behind
  which `e.v` reads the inner case's payload. `x == y` of two optionals is written as a comparison of structs, and a
  `default` before the cases takes them all.
* *Assembly.* Inserting an instruction for a qualified name does not correct the jumps
  over it (`mir.c:433`; `docs/mir.md:139`): `if c { return m.K } return 9` fails when it runs.
* *Back ends.* `return` inside `defer` makes the C back end write deferred statements
  without end (`codegen_c/expr.c:14454`). The direct Wasm back end refuses most `switch`
  statements (`codegen_wasm.c:8341`); it refuses and does not miscompile.
* *Calls.* The C back end chooses an overload again with other costs
  (`codegen_c/expr.c:1802`) and may find another function than the one that was checked, where
  `docs/language.md:502` has one resolution. It gives the first argument its parameter without comparing
  names (`codegen_c/expr.c:1399`; the type checker compares them, `resolve.c:2955`): `f(y: a)`, checked as a call of
  `f(y ?A)`, calls `f(x A)`, which is cheaper, and so does `hop run`, which chooses without the names. `f(y: 1, 2)` is accepted with `y` by position (`resolve.c:2970`, `:4852`;
  `docs/language.md:517`). Whether a variadic function or an `anytype` template is taken
  depends on their order (`docs/language.md:287`). An alias `T` is not lifted to `?T`
  (`resolve.c:2034`; `docs/language.md:383`). `&[int 2]` is accepted for `&[int 3]`. The
  evaluator sums scores and may choose another function than the lexicographic order
  (`g(A, T)` and `g(B, i64)` with an embedding and an alias), prefers fixed parameter
  lists, and refuses `f(int)` beside `f(i64)` as ambiguous.
* *Constants.* Names are looked up when an expression is evaluated (`typecheck/consteval.c:974`), against
  lexical scope (`docs/language.md:286`): with `const X, Z = 1, 2` and `fn g() int { return X + 1 }`,
  `[int g()]` behind a local `const X = 10` has 11 elements, and a parameter `X` of a
  caller is read in the same way. `const B = A` followed by a second local `const A` reads the second; `const X = X` is refused as
  recursive. A local variable is passed over and the constant it hides is read. `const K, L = 3, f()` where
  `f` needs `K` is refused as a cycle, since the declaration has one state; a cycle of typed constants is
  reported without its reason. Overloads with the same number of parameters are refused as constant
  calls. A function value is an index into the MIR of the evaluation that made it.
* *Whole-program MIR.* Named arguments are bound by position (`hop_mir.c:7830`): the Wasm of
  `f(5, c: 1, b: 2)` computes something else than `hop run`. A qualified call of an overloaded
  function takes the first declaration of that name (`hop_mir.c:7727`). A field default that is a call
  is dropped without a word in `alloc Q`; with an explicit initialiser the build is refused
  (`hop_mir.c:5061`; `docs/language.md:549`). A default `b i32 = a` reads a local `a` of the
  function (`hop_mir.c:4521`), an initialiser the first local of its name whatever the scopes
  (`hop_mir.c:3486`), or the new object's field before a constant of the package
  (`hop_mir.c:4549`). `p = alloc P{x: p.x + 1}` reads `p` after it was overwritten
  (`hop_mir.c:5595`). A call of a global function value calls the first function of its type
  (`typecheck/expr.c:2889`). Refused though meaningful: `p.add(1)` when a struct has a
  field `add`; `&&` in the arguments of a qualified or field call; `return alloc P`; a package's
  function as a value; calls as initialisers. A dotted initialiser
  suppresses the default of the field it is in (`hop_mir.c:5215`; `docs/language.md:553`).
* *Evaluator.* The name of a variable in another one's initialiser runs that variable's
  initialiser again (`evaluator_mir.c:1949`): with `var a int = next()` and `var b int = a` the
  function is called twice, and an assignment to `a` is not seen. Functions invoked as hooks or through references are recorded in the call
  stack without a test of its length (`evaluator.c:12979`). A call through the name of a
  top-level function variable ignores later assignments to it (`evaluator_mir.c:1665`).
  `docs/mir.md:82` says functions refer to variables by `CALL_FN`, which the code does for
  constants only (`evaluator_mir.c:1105`).
* *Package loader.* With a file on the command line the root is the parent of its
  directory (`hop_pkg.c:5485`), not its directory (`docs/language.md:762`). Imports are also
  looked for next to the importing package (`hop_pkg.c:2949`), a step
  `docs/language.md:763` does not list.
* *Imports.* Accepted with another meaning: with `import "m"` and a local or parameter `m`, `m.x` becomes
  `m__x`, the import's, against lexical scope (`docs/language.md:286`); after `x := 1` a named
  import `x` still replaces the later uses of `x`; a method call `t.f()` is retargeted to a
  named import `f` (`hop_pkg.c:3401`); a private function is found as a method from another
  package (`typecheck/expr.c:2763`; `docs/language.md:770`). Refused though meaningful:
  named imports in the value of `:=`, in field values of a literal, in `case` patterns and in
  the value of a top-level `var`; exports that use private names where these are not in the
  surface, named imports or, two imports away, aliases (`docs/language.md:773`); overloaded named
  imports in private functions of an imported package; a struct whose field is named like a declaration. Two
  packages of one last name within reach share an alias and clash or are merged; one package under
  two aliases has two distinct types. The order of imports matters (`hop_pkg.c:5013`), while
  `hop fmt` sorts them (`docs/fmt.md:67`).
* *Build cache.* The linked program is kept by its time alone (`hop_codegen.c:1600`): two
  requests that write one output with objects of equal age keep the other's program. The time of a package's
directory counts as a source (`hop_codegen.c:667`), and the default output of `hop build app/main.hop`
is `app/main` (`hop_main.c:490`): linking it, or failing to, makes the directory newer than the object just
made, so every further build of unedited sources makes and links the entry package again, against
`compile_cache_reuse` (`tests/README.md:43`), whose test links elsewhere (`tools/test.py:988`).
* *Formatter.* A name looked up in a block already closed drops a type that matters
  (`format.c:3162`); a name bound by `for`-`in` is not seen when `var` becomes `:=`
  (`format.c:1184`); in `var z = 1 as i64 + 2 as i64` each cast is dropped because the other one has the
  type (`format.c:903`, `:1079`), and `z` becomes an `int`, against `docs/fmt.md:163` (`var w i64 = z` behind it is
  accepted before and refused after formatting); operators written without blanks run together, `x + a / *p` becomes
  a comment `x + a/*p` and `& &x` becomes `&&x` (`format.c:2390`).

## Proofs

The theorems hold for every value of the constants, under the assumption that the module
of the component states. Each has an inductive invariant, from which the property a run checks
follows; the invariants were model-checked on the instances of the runs before they were proved.

| Theorem | Property | Invariant |
|---|---|---|
| `MirExec_proofs!TypeCorrect` | `TypeOK` | itself |
| `MirExec_proofs!HooksPaired` | `HooksMatchFrames` | `HookInv` |
| `MirExec_proofs!BracketsRefined` | `HooksAreBrackets` | `HookInv` |
| `MirExecStack_proofs!ValidationSuffices` | `IndicesValidated` | `ValidInv` |
| `MirExecStack_proofs!StackUsedAsMapped` | `StackNeverMisused` | `StackInv` |
| `MirExecStack_proofs!StackCapEnough` | `StackCapSuffices` | `StackInv` |
| `EvalCalls_proofs!CallsRestored` | `HostMatchesCalls` | `CallInv` |
| `EvalCalls_proofs!BindingsRestored` | `TemplateMatches` | `CallInv`, `TemplateInv` |
| `EvalCalls_proofs!InitialisedOnce` | `InitOnce` | `CallInv` |
| `PkgLoader_proofs!PointersCurrent` | `NoStalePointer` | `PkgInv` |
| `PkgLoader_proofs!ImportsLeadThere` | `ImportsBound` | `PkgInv` |
| `PkgLoader_proofs!OrderIsSound` | `OrderSound` | `PkgInv` |
| `PkgLoader_proofs!CyclesAreRefused` | `CyclesRefused` | `PkgInv`, `GraphInv` |
| `BuildCache_proofs!TakenFresh` | `FreshUnlessRaced` | `CacheInv` |
| `BuildCache_proofs!ConfigurationKept` | `ConfigKept` | `CacheInv` |
| `BuildCache_proofs!SecondBuildIdle` | `SecondBuildReuses` | `CacheInv` |
| `BuildCache_proofs!OutputLinked` | `OutputIsLinked` | `CacheInv` |
| `MirAssembly_proofs!AssemblyInvariant` | - | `IInv` itself |
| `MirAssembly_proofs!WaitingKeptPlace` | `WaitingKeepPlace` | `IInv` |
| `MirAssembly_proofs!AssembledAsMeant` | `RewrittenAsMeant` | `IInv` |
| `CallResolution_proofs!CheapestChosen` | `CheckedIsCheapest` | `ScanInv` |
| `CallResolution_proofs!NamesAreKept` | `NamesKept` | `ScanInv` |

**MirExec.** Assumed: programs are of the shape of `H2MirProgram`, and `ITER_NEXT` pushes at most a
key and a value (`mir_exec.c:1741`); limits are numbers. All proofs first reduce instructions to three
effects: `InstructionShape`, `CallShape` and `JumpShape` show that each one stops the program, goes
on in the innermost frame or opens a call. `TypeOK` is inductive as it stands; a frame
runs a function of the program because of `RejectsAux` and of the check made when a call is
executed. `IndicesValidated` compares two readings of the same operands, each written from
its own code: `ValidInst` and `ValidLocals` from the loop of `H2MirValidateProgram`
(`mir.c:516`), `RejectsAux`, `RejectsType`, `StrayPack` and `LocalMeta` from the places in `mir_exec.c`
where the index is used; `ValidInv` says of every frame that its function passed the former.
`HooksMatchFrames` is not inductive: `HookInv` adds the types, and that an idle executor has no
frames, so that the first call starts from empty stacks. The refinement of `FrameHooks`
needs the same invariant, one step at a time: each action maps to one bracket or to none.
For the stack, `StackInv` says of every frame which height of the map it runs at, what an
iterator has just put on top, and that the frames below wait for one operand more. That the
stack cannot overflow is a counting argument without induction: no instruction raises the height
by more than one, so a function has an instruction for each height it reaches (`Covered`), and
different heights need different instructions.

**EvalCalls.** Assumed: sets of functions and globals, each with its file, bounds that are
numbers. `HostMatchesCalls` speaks of the state in force; each activation also keeps saved copies of it,
in its C frame or in the two stacks of its MIR context, and a return restores those. `CallInv` therefore
says of every activation that what it saved is what was in force below it (`ActFits`), which an
activation above does not change; `TemplateInv` does the same for template bindings, up to the first error.

**PkgLoader.** Assumed: a world is a finite set of directories, each with the paths its files import; no
path is empty. `PkgInv` joins what the loader keeps with what the orders need: pointers lead into the
table, as it is or as it was (`PointersKnown`), and the table has not moved while its first capacity was enough
(`TableFits`); each call of `LoadPackageRecursive` waits for the import that the next one loads, and what is not
loaded is being loaded (`CallsWait`); targets are loaded and lie where the paths lead (`TargetsFit`).
That an accepted program has no cycle is kept as a *ranking*: when a package has been loaded it ranks above all
the others, and its imports, loaded before, below it (`Ranked`). The visit goes down in rank, so it
never meets a package it is visiting. The ranking is quantified in the invariant and is the one
part that TLC does not evaluate. Proving the invariant found an error in an earlier version of the model, which left
the table alone when a directory's files do not parse; the code has entered the package before it
reads them (`hop_pkg.c:3027`), and the table may move there too.
`CyclesRefused` compares with the closure of the imports, which is computed in rounds, a recursive function
on numbers. Facts about all its rounds are proved from the least number they fail for
(`LeastNumber`): the rounds exist (`RoundsExist`), each holds the one before it, and after as many rounds
as there are directories nothing is added, since each round that adds something uses up a
directory (`ClosureClosed`). So the closure is the least set that holds what
it starts from and is closed under imports (`ClosureLeast`). `GraphInv` then says that packages are
those needed, each entered once, with the imports its files have, unless the load has
given up. An accepted program has no cycle because of the ranking; when a cycle is reported,
the chain of calls that wait for each other is one (`CallsChain`).

**BuildCache.** Assumed: imports are acyclic in the order of a request, and `Closure` is made of
`Imports`. `CacheInv` says of every file of the cache which writes its contents come from, whatever
interrupted them: a text is made of the texts of its imports as they were (`ContentsFit`), what a
build has passed is as new as what it read (`TakenFits`), signatures and links likewise (`ConfigFits`,
`LinkFits`), and an output in the directory of a package a build has passed is no newer than the package's
object, unless this build has linked it (`OutputsFit`). `torn` is a history variable for units whose making was interrupted.

**MirAssembly.** Assumed: `WorldsAssumption`, that each program is an `IsWorld`. `IInv` has to follow code that
is half rewritten while it is moved by insertions into functions before it. Functions lie one behind the
other (`TablesOK`), and frames walk ever later ones (`FramesOK`). Before its
place a walk has left what is meant; from its place on there is what was lowered, shifted by what was
inserted (`Walks`). The walks that wait stand on a reference to the next item (`Waits`), said of the source of
their item, so that what happens above does not touch it. An item in the map has its function, whole when its walk has ended (`MapOK`), and jumps
stay inside and find their instruction where it was or behind an inserted one (`Shapes`). Every step does one of
three things: it appends a function, goes on by some instructions in the last frame, or pops
it; what is said of a function speaks of its places (`At(k, q)`), not of those of the program, so it is
untouched when the function moves. `RewrittenAsMeant` used to filter the instructions that stand for a
place, a recursion over sequences that cannot be reasoned about here; it was restated
instruction by instruction, which says the same and no less.

**CallResolution.** Assumed: functions, parameters and arguments are finite lists, a variadic function has a
parameter, and a conversion has a number as its cost. `Cheaper` orders the cost vectors of a call
(`CheaperTransitive`, `CheaperTotal`), and with the rule for variadic functions `Preferred` orders the candidates up
to ties. `ScanInv` says what the scan has found before its place: none of the candidates is preferred to
the best one, and the flag is up exactly when the best one is not preferred to all of them; a flag set for
an earlier best is rightly taken down by a later one, since that is preferred to all before it
(`PreferredBelow`). For the names, a function that binds the arguments gives each fixed argument a
parameter of its own, so that all are taken (`EachParameterTaken`).

Model-checked only. Liveness (`Terminates`, `ErrorsUnwind`): fairness and ENABLED are out of the
prover's reach. `BuildAgrees` and `RunAgrees`
compare the three cost functions of `CallTypes`. These, `Stmts` and what extends it, the `Narrow` modules,
`ConstSource` with `ConstEval`, `NameMeaning` with `ImportSurface`, `PackageSource` with `PackageMir` and the
`Format` modules are written with recursive operators over trees, of which the prover knows nothing, and stay with TLC.

## Not modelled

Values and types: results of operators, representations, the type checker's rules but for
definite assignment, narrowing, overloads and the names of packages. Of narrowing: conditions that
are constant in an instance of a template, pointers to optionals. Text: the lexer but for operators, the parser but for
expressions, the layout the formatter chooses, the text of C and Wasm beyond control; they
are functions of their input, compared with expected output by the tests. Of the whole program's MIR: template
instances, implicit builtins, objects of variable size and the types attached to
instructions. The arena, whose
blocks are taken and reset in one place. Two builds at the same time: nothing in the code
promises that they may overlap. Files added to a package or taken from it, and other files made in its
directory (`BuildCache` has a fixed set of files, so the directory's time speaks of outputs only). The limit of
256 candidates at which the type checker's scan of a call stops (`resolve.c:3857`; the instance of
`CallResolution` has three). The library and the platforms are programs in the compiled
language. Memory exhaustion is an error outcome where the code returns one and is not
modelled otherwise.

## Plan

In order:

1. *Evaluator, values of globals*: assignment, initialiser and alias that meet in
   one variable; function values that leave their program.
2. *Arithmetic*: constant folding, executor and back ends at the edges of the integer widths.

Of the invariants that are only model-checked, each compares with a definition that recurses over trees
or paths; theorems about their modules would be about single steps (an expression, a
statement, one rewriting), not about whole programs.
