# A TLA+ model of the Varjus interpreter

Varjus is an embeddable scripting language: a tokenizer and a linter turn a
script into a tree of instructions, a tree-walking runtime executes it, and a C++
program drives both through `Varjus::State`. The specifications here model the
parts of it in which several steps have to fit together: who owns which object,
when a closure dies, in which order modules are loaded, what an abort from another
thread does. TLC checks them on small instances; the `*_proof` modules prove the
central invariants with TLAPS for instances of any size.

Paths are relative to `src/`; `api/` stands for `VarjusAPI/include/varjus_api/`.

## The system: inventory

| Component | State it keeps | Operations | Made correct by |
|---|---|---|---|
| Object pools (`api/internal/pools`) | owned objects, stack of free ones | `Acquire`, `Acquire(n)`, `Release`, `ResetPool`, `GetInUseCount` | an object is free once or held once; the leak report is exact |
| Variables and values (`api/internal/variables.*`, `api/types/default.*`) | reference count and value of a variable, owner of a value | `Construct`, `Copy`, `SetValue`, `Release`, `AcquireNewVariables` | counts equal the pointers held; owner and value agree |
| Closures (`api/types/callable.*`, `runtime/functions`) | captures of a lambda, shared by its handles; self-capturing flag; frames | evaluate a lambda, copy, call, overwrite, return | nothing is freed while reachable or kept when not |
| Arrays, objects, strings (`api/types/{array,object,string}.cpp`) | contents shared between handles, child variables that know their parent | element access, `Push`, `Pop`, member assignment | as above, with aliases |
| Expression evaluation (`runtime/expressions`) | temporaries | `Evaluate*` | operands are alive when used, released once |
| Statements, exceptions (`runtime/statements`) | pending exception, control codes as pointers 1..3 | `Execute`, `ExecuteBlock` | each code is consumed by the statement it is meant for |
| Methods (`api/types/methods`) | iteration over a live array | `transform`, `filter`, `sort`, ... | callbacks cannot invalidate the walk |
| Operators, coercion (`api/types/operators`) | none | 30 operators | every pair of types accepted or refused, widths kept |
| Modules, imports (`linter/modules`, `runtime/modules`) | visited files, dependency graph, modules | `ParseFile`, `CreateNewModule`, `CheckCircularDependencies`, `SetupGlobalVariables` | one module per file, imports first, only cycles refused |
| Linter scopes and functions (`linter/scopes`, `linter/functions`) | names in scope, stack slots | declare, look up | lexical scoping, no shadowing, const |
| Expression trees (`linter/expressions/ast`) | operator lists | `CreateAST` | precedence and associativity |
| Embedding interface (`api/varjus_api.*`, `api/internal/runtime.*`) | linter, runtime, abort flag, return value, error | `LoadScript*`, `ExecuteScript`, `Abort`, `HasFinished` | an abort ends the run; finished means quiet |
| Tokenizer, standard library, vendored code | - | - | not modelled, see below |

How they interact: `ExecuteScript` moves the linter's result into a
`CProgramRuntime`, which owns twelve object pools. Every variable and value of the
running script comes from them (calls `Acquire*`/`Free*`). Frames, capture maps and
modules hold counted pointers to variables; a value belongs to at most one variable
and is a temporary otherwise. Expressions release temporaries by looking at the
owner field. Array methods call back into script functions. The only concurrency is
between the executing thread and a thread that calls `Abort` or `HasFinished`.
The list `hazards` of `PROJECT.json` names the places where this is hard to test.

## Modules

| Module | Models | Checked by | Proved |
|---|---|---|---|
| `ResourceArena` | what a pool promises: resources handed out exclusively | refinement by `ObjectPool` | - |
| `ObjectPool` | `COwningObjectPool` | `object_pool` | types and all properties, `Ownership_proof` |
| `ValueStore` | `CVariable` / `IValue` ownership | `value_store` | types and all properties, `Ownership_proof` |
| `Closures` | frames, lambdas, captures | `closures` | - |
| `CollectedHeap` | what scripts may expect of shared contents: garbage is collected | refinement by `Aggregates` | - |
| `Aggregates` | arrays and objects inside of each other, child variables | `aggregates` | all properties, `Aggregates_proof` |
| `Expressions` | `CRuntimeExpression::Evaluate`: operands, temporaries, folding | `expressions` | all properties, `Expressions_proof` |
| `ArrayMethods` | the methods of arrays, their callbacks, sort | `array_methods` | all but the types, `ArrayMethods_proof` |
| `ControlJumps`, `StructuredControl` | what statements promise: where a jump leads | refinement by `Statements` | - |
| `Statements` | the interpreter of statements, exceptions, control codes | `statements` | types, safety and the refinement, `Statements_proof` |
| `ExpressionParser` | from tokens to expression trees | `expression_parser` | - |
| `Scopes` | scopes, memories, captures, indices, frames | `scopes`, `scopes_nested_capture` | types and all properties, `Scopes_proof` |
| `ModuleLoader` | parsing imports, setting modules up | `module_loader` | types and safety, `ModuleLoader_proof` |
| `StateApi` | `Varjus::State`, abort, the control of a run | `state_api` | types and safety, `StateApi_proof` |

How they fit together. `ObjectPool` is the ground: the slots of `ValueStore`,
`Closures`, `Expressions` and `Aggregates` that are not live lie in a pool, and that
the pool hands out such a slot and no other is what it implements `ResourceArena` for.
`Closures` and `Aggregates` refine the plain values of `ValueStore` to those with
shared contents; `Expressions` keeps plain values and looks at the order of their use.
`ExpressionParser` and `Scopes` produce what `Expressions` and `Closures` start from:
trees, and variables with slots in frames. `Statements` is the interpreter inside of
one execution of `StateApi`, with every statement of the script but only one function
result on its way; `StateApi` adds the other thread and what remains after an abort.
Properties called `HeapIsSound`, `StaysInside`, `ResultsAreRight`, `NothingGoneIsUsed`,
`SlotsStayApart` and `EndIsReported` are conjunctions of parts defined next to them.

Each specification has an `MC...` module with its configurations. Definitions named
after a mistake (`DropUnreset`, `FinishEarly`, ...) stand before the operation they
distort; no specification uses them. They record which plausible bug each property
notices.

Habits. Varjus does not survive everything a script may do. Where a model showed this,
the constant `Habits` says which of these things scripts do; with `Habits = {}` the
scripts keep away from them, which is what the passing runs are about. Naming a habit
in a configuration switches the behaviour on, and the property named below under
"What the checks show" is violated within seconds.

### ObjectPool
`available` is `m_oAvailable` with its top at the end, `pool` is `m_oPool`. The code
keeps no record of who holds an object; `held` is the caller's obligation, and
`Release` is only enabled for an object that is held, as in the callers
`FreeVariable`, `FreeChildVariable` and `FreeValue`. `FreshObjects` stands for
`operator new`. Bounds: 4 addresses and an initial size below it, so that pools run
dry and grow one by one and in bulk. `ResetPool` is `~CProgramRuntime`'s way out; the
code may acquire again afterwards, and so may the model.

### ValueStore
A holder is anything that keeps a counted pointer to a variable: a frame's stack, a
capture map, a module's globals. `Assign` is `OP_ASSIGNMENT` with `SetValue` and with
the release of operands in `CRuntimeExpression::Evaluate`, which happens in the same
expression. Values have no contents of their own here. A variable or value slot that
is not live is in a pool; that the pool hands out such a slot and no other is what
`ObjectPool` implements `ResourceArena` for. Bounds: symmetric sets of three variables,
five values, three holders: sharing, the last release and the reuse of a slot happen.

### Closures
The heap is one record that operators transform, because `Release` cascades: a
variable releases its value, a closure its captures, those their values. One action
is one statement of a straight-line script. `order` is the iteration order of the
`unordered_map`s, chosen anew in each step, the same for all the maps of that step.
A lambda captures every variable a lambda so far in the function mentions
(`GetSharedOwnershipVariables`). A failed assertion ends the run in `failed`.
`Habits` switches on overwriting a self-capturing variable, and closing a cycle through
captures in a way the linter does not mark. Without them, `closures` shows, every
release finds what it expects and nothing leaks. `MayAssign` keeps away from a third
one, assigning a variable while the result of a call is on its way to it: the left
operand's pointer is stale then, which `Expressions` models. Bounds: eight statements,
three frames; the violations need four.

### Expressions
`Evaluate[e][h]` follows `CRuntimeExpression::Evaluate` over a heap of value slots with
the pools of each type, last in, first out, so that a released slot is the next one
handed out and a stale pointer reads somebody else's value. `stale` records that a
pointer was read or released after its slot had gone back; nothing else looks at it.
`placed` says whether the position the runtime remembers is still a node of the tree:
`Folded` replaces operators on constants and destroys them. `Meaning` is the language:
no pointers, an operand is a value or a variable. One action executes the statement;
`Runs = 2` executes it again on the rewritten tree. `Evaluate`, `Meaning` and `Told` are
functions over all expressions of a height (`MaxHeight`), defined by what they do with
the operands.

Habits: `assignWithin` (`x + (x = 5)`), `throwWithin` (`-f()` where `f` throws),
`raiseAfterFold` (`-(true + true)`, and `-(b + (true + true))`, where the node that is
gone is the one evaluated last). `Told` recognises them in the source, from what it tells
of the operands without evaluating them: where their pointer may lead, which variables
they may give a new value object, whether they may throw, be a boolean or a temporary,
and whether the node evaluated last may be gone. Each habit, when allowed, makes
`NothingGoneIsUsed` fail. Bounds: all expressions of up to two operators from a set that
has every way operands are evaluated, and of three where one has constant operands, over
two integers, a boolean and functions that return, assign or throw. Integers have two
bits. That is enough for the run because an operator sees nothing of an operand but what
it returns and leaves behind; that it is enough for every nesting is what is proved.

### Aggregates and CollectedHeap
A value is a scalar or a handle on a content (`contents`), which several handles share;
`uses` is the count of the `shared_ptr` that `CArrayValue::Copy` and its like copy.
The variables of the script are the elements of content 0, the frame. One action is a
statement: assignment to any variable or element, literals, an element of a literal,
swap, `push`, `pop`, `set`, `remove`, a rest initializer, and the return of the
function. Operands are kept as `Evaluate` has them: a place, or a temporary that is
released when it has no owner after the operator has run. `CollectedHeap` has neither
counts nor handles: a statement changes the elements it names, and then what no
variable leads to is gone. The mapping forgets the counts and shows the contents that
are alive, so `ImplementsCollectedHeap` says that releases happen neither too early nor
too late. Habits: `overwriteOwner` (`a = a[0]` with the only handle on the array),
`cycle` (a content inside of itself), `duplicateKey` (`{k: x, k: y}`). Bounds: two
variables, two contents alive at once, two elements each: contents share an element,
lie inside of each other, and are replaced by their own parts. The theorems say the same
for every depth and number of contents, variables and elements.

### ArrayMethods
`task` is a method between two calls of its callback, with the position of its loop and
what it has built; for sort, the copies and the stack of ranges of `IterativeQuickSort`.
`live` counts the value objects out of their pools: every action says what the code
constructs and releases there. A callback answers, throws, or assigns to an element of
the array that is walked (`AfterCallback`). `calls` is a history that the properties
compare the result with. Fairness: weak fairness of the steps of a running method; a
callback that never comes back is not the method's fault. There are `UInts` unsigned
integers, 2^64 in the code and eight here, so that `slice(0, 0)` wraps in `to - 1` and
`-1` is the largest size. Habits:
`throwInTransform`, `throwInSort`, `notBoolean`, `resizeWithin`, `negativeSize`. Bounds:
four elements with two contents, so that ranges of every length between one and four
and equal elements are partitioned; one assignment per method call.

### ExpressionParser
`Texts` are statements as sequences of tokens; the one action lints one. The operators
follow `CLinterExpression` (which cuts tokens into operands and operators) and
`AbstractSyntaxTree` (which splits at the last operator of lowest priority); the
reference is the grammar as the set of trees a stretch of the text has, written without
any order of reading. A statement that can be read is kept when its text starts with an
effect (`StartsWithEffect`, read off the tokens without a tree) and refused otherwise:
`KeptByItsStart` says exactly which statements `CanBeDiscarded` refuses, those whose
effect stands further to the right, in a ternary or in a list included. Bounds: every text of up to four tokens, chains of four operators
between names, and two operators between operands of eight kinds.

### Scopes
A behaviour is a script: every action is a construct the linter meets next (a block, a
declaration, an initializer's end, a function, a use, an assignment). `scopes`,
`functions`, `allVariables` and `allGlobalVariables` are the tables of the code. A scope
also remembers which function declared a name and whether it is const, the lexical
meaning; no action reads it. `Frame` and `Holds` build the frames as `CFunction`'s
constructor does, with captures, arguments matched by sorted index, and locals, and
`Reached` is what `GetVariableByRef` finds. Habits: `reusedName` (a name of an ended
block of an enclosing function or of the file used again), `nestedCapture`,
`catchAfterConst`, `constLoop`, `loopOverOuter`. Bounds: two names, eight constructs,
scopes four deep, two parameters, names symmetric: a lambda in a lambda in a function
with a block has four scopes.

### ModuleLoader
`imports` is chosen in `Init`, so one run covers every project of three files with
two import statements each: chains, diamonds, double imports, self imports, cycles
of two and three. `stack` is the C++ call stack of nested `CBufferLinter::Parse`s;
`MaxDepth` stands for its limit, and is above the depth of any project without a
cycle. `NoConflict` follows `CheckCircularDependencies` with its early `return` in the
loop. Fairness: weak fairness of `Next`, as the loader is one thread that runs until
it is done. `OnlyCyclesRejected` and `NeverParsedWithinItself` are defined but in no run:
the first holds on this instance, the second is violated, see below.

### StateApi
The executing thread is `pc` with `stack`; of a script only the nesting of functions,
blocks and loops remains, with the number of statements left in each. `AbortFunction`
is what `lc_abort` does: every block and loop passes it on and the function returns
undefined, so that its caller goes on until it enters a block itself; if the caller
applies an operator to the undefined (`operand`), the run ends in a `CRuntimeError`.
`ExecuteRefused` is `ExecuteScript` without a linter, which sets the message, or without a
loaded script, where `PushError` throws before the `try` and the message stays as it is.
`Abort` and `HasFinished` may happen between any two steps. Fairness: weak fairness of
the executing thread's steps inside of `ExecuteScript`; no caller has to do anything.
Bounds: `MaxDepth` 4 and `MaxStatements` 2, so a loop in a function in a loop meets an
abort at every level and the callers still have something to do.

### Statements
Every statement of the runtime returns a pointer: null, a value, or one of the small
integers `lc_break`, `lc_continue`, `lc_abort`. `signal` is that pointer, `stack` the
C++ call stack of `Execute`s, one frame for a function or statement. A frame is in its
condition or in its body; `use` of a function's frame says what its caller does with
the result. A `for` is a `while` whose condition includes the end expression, and its
initializer an `Evaluate("initializer")` before it; `else` and `default` blocks are
the other outcome of their condition. `thrown` and `exception` are the runtime's flag
and the fate of the value next to it. One action is one statement of the script, one
outcome of a condition, or one frame that the pointer passes. The script itself is
chosen as it runs, out of what the linter accepts: `LoopControl` has the linter's
check that a loop of the same function is around it.

`StructuredControl` knows no pointers: a `break` leaves its loop at once, a `throw` is
at its handler at once. The mapping `Places` gives each detailed state the abstract
one in which the jump on its way has already happened (`After`), so the steps of the
unwinding are stutters, and a pointer that went astray, or stopped too early, would be
a step the abstract program does not have. A loop that was broken out of while its
condition has still to be evaluated is `left`.

Habits: `throwInInitializer` and `throwInCondition` (`MayThrow` otherwise asks for a
`try` in between), `jumpPastFalseCondition` (`break` or `continue` in a repeat-while whose
condition is false), and `errorInMatch` (a runtime error while `match` looks for its
case). Left out: an exception met or thrown in the iterable of a ranged `for`, and
everything in an expression but a call at its root. Fairness: weak fairness of
`Unwind`, as the interpreter does nothing else until the pointer has arrived. Bounds:
five frames hold a function in a loop in a `try` in a loop in `main`; five statements
reach every action, the violations need at most four.

## What the checks show

Each passing run answers the question its `about` in `PROJECT.json` states: within the
bounds, and with `Habits = {}`, ownership is exact, jumps arrive, expressions mean what
they say, names reach their variables, methods return what they promise and modules are
set up in order. The one violation run shows a disagreement between the code and an
assertion of its own that scripts meet easily:

- `scopes_nested_capture`: an arrow function inside another lambda that names a variable
  of the enclosing function is linted to a slot its frame does not have; the assertion
  at `runtime/functions/rtfunction.cpp:163` fails.

The other disagreements are behind the habits, each confirmed by naming the habit in the
configuration and checking the property:

| Habit or property | What happens |
|---|---|
| `Closures`: `overwrite self-capture` | `f = () => { f = 5; }; f();` frees the callable under its call: `CalleeSurvivesCall` and `AssertionsHold` fail |
| `Closures`: `capture cycle` | `let g = 0; let f = () => { g; }; g = f;` is never released: `NothingLeaks` fails |
| `Statements`: `throwInInitializer`, `throwInCondition` | the pending exception is released like any value: `CaughtExceptionIsAlive` fails |
| `Statements`: `jumpPastFalseCondition` | `repeat { break; } while (false);` hands the code 1 to the function: `CodesStayInLoops` fails |
| `Statements`: `errorInMatch` | `GetCaseIndex` is `noexcept`: `ErrorsAreReported` fails |
| `Expressions`: `assignWithin`, `throwWithin` | a value is used after its release: `NothingStale` fails |
| `Expressions`: `raiseAfterFold` | the error's position is a destroyed node: `PositionIsAlive` fails |
| `Aggregates`: `overwriteOwner` | `node = node.next` releases a value twice: `NeverFreedTwice` fails |
| `Aggregates`: `cycle`, `duplicateKey` | contents stay alive: `ImplementsCollectedHeap`, `UsesAreExact` fail |
| `ArrayMethods`: `resizeWithin`, `throwInTransform`, `negativeSize` | invalid iterators, `std::length_error`: `NeverOutside` fails |
| `ArrayMethods`: `throwInSort`, `notBoolean` | copies stay alive: `NothingLeaks` fails |
| `Scopes`: `reusedName`, `loopOverOuter` | a name reaches another variable or none: `EveryUseReachesItsVariable` fails |
| `Scopes`: `catchAfterConst`, `constLoop` | constness is that of another variable: `ConstIsKept` fails |
| `ExpressionParser`: `DiscardedDoNothing` | `x && f();`, `[f()];` and `c ? f() : g();` are refused as doing nothing |
| `ModuleLoader`: `NeverParsedWithinItself` | a cycle closed by an import that is not the first of its file |
| `StateApi`: waiting for `HasFinished` | it stays false for ever after a run without a return value |

## What is proved

`Ownership_proof`, on pools: the inductive invariant says that `held` and the free stack
partition the pool and that the stack has no duplicates. Type correctness and
`ExclusiveOwnership` follow, `LeakReportExact` by counting, and the same invariant
carries each step to a step of `ResourceArena` or a stutter (`ImplementsArena`).
Assumption: finitely many addresses, at least `InitialSize` of them.

`Ownership_proof`, on variables and values: type correctness, `OwnersAgree`, `CountsAreExact` and
`PooledVariablesAreReset` are inductive together. `CountsAreExact` needs that the set
of holders is finite, and adding or removing a holder changes a cardinality by one.
`VariablesDoNotLeak` follows: without holders every count would have to be zero.

`Statements_proof`, for every nesting, number of statements and set of habits a theorem
does not exclude:
- `TypeCorrect`. The inductive invariant `IInv` adds to the types that only functions
  have a use, that only conditional statements are in a condition, and that a function
  called by a condition lies on the statement it belongs to; without the last one the
  function could return into something that has no condition.
- `CodesStay`, without the habit of jumping past a false condition: `CodesInLoops`, a
  code on its way has a loop above the last function, is inductive with `IInv`.
- `ExceptionsArrive`, without the habits of throwing in initializers and conditions.
  `ExceptionInv` says that a pending exception has a `try` above each use that would
  destroy it. That is known where the script throws; an exception that is the result
  of a function, as in `throw f();`, appears later, so the invariant also keeps that
  the stack below such a function was fit for a throw when it was called.
- `PointersImplementControl`, without any habit: the refinement of `StructuredControl`.
  The mapping forgets codes, exception pointers and conditions; under `IInv` and the two
  invariants above, the step that lets a code or an exception reach a block is the
  abstract jump out of that block, and every other step of unwinding is a stutter.

`ModuleLoader_proof`, for every number of files, imports of them and depth of parses,
cyclic projects included. The inductive invariant says of every nested parse that it is
hoisting a file without a module, that all its imports up to the current one have
modules, and that the parse above it is of the current import's target; only the
innermost parse may be linting, with all its imports cached. At the end of a hoist no
lower parse is of the same file: it would stand at an import that is both cached and
being hoisted. So the new module's file has none yet (`OneModuleEach`), and everything
it imports is earlier in the list (`ImportsComeFirst`). `NoConflict`, the check for
cycles, is not opened: these theorems hold whatever it accepts. `TheWholeProjectRuns`:
only files of the project are parsed (`OfTheProject`), and the modules in the end contain
the entry file and are closed under imports. That the project itself is closed after as
many steps as there are files is a counting argument: each step before the last adds one.

`StateApi_proof`, for every number of modules and statements and every depth:
`TypeCorrect`, `EndsAreReported` (`HasFinished` is only true when nothing of the script is
left, and an execution that failed has a message), `FinishedStaysFinished`, and
`NothingIsEnteredAnymore`: after an accepted abort no step adds a block to the stack or
starts a loop over. The invariant keeps that the bottom of a stack is a function, so that
every frame has an innermost function around it (its existence is the least-member
argument `InnermostIsAFunction`), and ties the linter, the runtime and the program counter
together.

`ArrayMethods_proof`, for every length, every set of contents and any answers:
the inductive invariant counts what each method has taken from the pools (`Built`), says
that only the four methods that build something hold values, and of sort that every range
on its stack, and the range being partitioned with the end of its lower part, lies within
the copies (`Partitions`); it does not matter for that whether the comparisons agree with
each other. `MethodsStayInside` and `MethodsDoNotLeak` follow. `SortKeepsTheElements`: a
swap moves at most one place of a content, so every content occurs as often as before.
`SortPutsInOrder`, when the comparisons are those of `<`: two places that are not in one
of the ranges left are in order (`Settled`), no place is in two ranges (`Apart`), and
within the current range the lower part is not above the pivot and the rest of what was
compared not below (`Parted`); disjointness is what keeps a swap in one range from
disturbing the others. `ElementsAreAskedOnce` and `MethodsReturnTheRightResults` tie the
history of the calls to the position of the loop (`AskedInv`): the calls so far are of the
elements before the position, in order, none of them decided, and what is being built is
`Kept` of them. `Kept` is a recursive function of the history, and that a call more
appends at most one element to it is proved by a least counterexample, an instance of
`LeastNumber`, since the induction theorems of the library cannot be used. Assumption
besides `Habits = {}`: the unsigned integers reach beyond the longest array.

`Scopes_proof`, for every script of any length, nesting, number of names and parameters.
`TypeCorrect` holds with all five habits; its invariant `TypeInv` adds that the functions
that are open form a chain by `lowerFunction`, and that no index exceeds what has been
declared. The others need `Habits = {}`, because each habit is a script for which the
code does something else. They rest on layers, each inductive with those below it:
- `Lexical`: each name a scope declares is a variable of its memory with the constness it
  was declared with, no name is in two scopes or two open functions, and what is being
  initialized is in the innermost scope of its function. `ConstnessIsKept` follows.
- `Indexed`: the name tables, which all open functions share, give each variable of an
  open function its index; no two names of one table have the same index (`Ranked`), and
  the variables of an outer function come before those of an inner one (`OuterFirst`).
  That is what survives the erasing of names at a function's end.
- `Framed`: the frame `CFunction` builds from captures, sorted parameters and locals
  overwrites no variable, and parameters were given increasing indices, so sorting does
  not reorder the arguments. `VariablesHaveSlotsOfTheirOwn` follows.
- `UsesSound`: the node of a use still has the index and the owner of the variable it
  meant, and a variable of an enclosing function is captured, by the function that is
  over as well. With the frame's contents (`HoldsIs`, which follows the frame element by
  element through its recursive definition) `UsesReachTheirVariables` follows.
Assumption besides the bounds being numbers: `None`, which stands for a missing index, is
no number and no name.

`Expressions_proof`, for every height and with `Habits = {}`: `NothingGoneIsEverUsed`,
`TemporariesAreReleased` and `EvaluationMeansWhatItSays`. The invariant between two
executions (`IInv`) is that the heap is `Sound` (a variable owns exactly its value, pools
hold released values once), that there are no temporaries, and that the tree `Simplifies`
the source: it means the same, and nothing worse is told of it. That one execution keeps
it is `AllRight`: `Evaluate[e][h]` `Realizes` `Meaning[e]`. It is proved by induction over
the height (`ByHeight`, again by a least counterexample), with one lemma for each kind of
node and, for operators, one for each way they end: the first operand stops or decides,
the second stops, or both are there and the operator ends in an error, a value or a
variable. Three things carry the induction. `Realizes` says of the heap before and after
that temporaries held by others are untouched and that only the variables `Told` names as
replaced have another value object: without it nothing is known of the left pointer when
the right operand is done (`LeftIsHeld`). `Fits` says that `Told` is right about the
meaning of every expression (`AllFit`). `SimplifiesNode` and `FoldedSimplifies` say that
rewriting an operand, or replacing constants, keeps the meaning and adds no habit. That
the three recursive functions satisfy their defining equations is proved too
(`MeaningIs`, `ToldIs`, `EvaluateIs`). For errors it must be known which node
was evaluated last (`Gone`), which with three operators need not be an operand of the one
that raises the error.

`Aggregates_proof`, for every number of variables, contents and elements. A statement
is a chain of operations on the heap, and each operation is proved once, for a heap in
the middle of a statement: `Balanced(h, Q, x, n)` says that the types are right, that the
elements at the places `Q` count no longer (they are being released or moved), and that
besides the other elements `x[c]` handles on each content `c`, and `n` values in all, are
on their way. Between statements nothing is on its way, and `Sound`, that is
`Balanced(State, {}, Nobody, 0)`, is the inductive invariant.
- A release is as deep as contents lie inside of each other. `Releases` says what it does
  if no more than so many contents are emptied one inside of another; each level is
  proved from the one below, and since the contents that are being emptied are different
  ones, `MaxContents` levels are enough (`ReleasesAll`). That a content is still there
  while its elements are released is `Kept`: each content that must stay has a handle on
  its way, or is an element of another one that stays.
- The operand on the right of an assignment is a place that the assignment may destroy.
  `Anchored` follows the path that led to it: every content on the path is an element of
  the one before, so it stays unless the assignment is to a place on that path, which is
  the habit `overwriteOwner` (`OperandStays`).
- `HandlesAreCounted` needs no habit but `duplicateKey` to be absent: cycles are never
  released and are counted all the same. `FreedOnce` excludes `overwriteOwner` too.
- `CountingCollects`, the refinement of `CollectedHeap`, excludes `cycle` and
  `duplicateKey`. What `StatementStep` says a statement did (`Done`) is the effect of the
  abstract operation on every content that still exists (`Covers`). That the contents
  that exist are the ones the frame leads to (`CollectedIs`) needs `Acyclic`: in every
  set of contents one is not referred to from within the set. A content with handles
  that the frame does not lead to would be held by another such content, and all of
  these together would be a set without such a member. It is kept because
  nothing is stored in a content that it leads to (`MayRefer`), and a literal only refers
  to what was there before.

Only model-checked: `Closures`, which follows references through the heap with RECURSIVE
operators, and `ExpressionParser`, whose operators are RECURSIVE over the tokens and
trees, which is out of the provers' reach; and the liveness properties, which need
fairness and ENABLED.

## Not modelled, and why

- The vendored `nlohmann::json` and Catch2 are most of the repository's lines; they are
  third-party code and no state of Varjus. The rest of what the map does not name is
  text processing and tables.
- Tokenizer: characters to tokens, a function of one string without state; the models
  start from tokens.
- Standard library (math, console, file, JSON): thin stateless wrappers.
- Operators on two scalars and the coercion between types: fifteen operators times the
  types, each a line that applies the C++ operator; `Expressions` has one of every way
  operands are evaluated and released instead. Integer widths only matter where the code
  compares lengths (`ArrayMethods`).
- String contents and the methods of strings: a string holds no other value.
- Lists and arguments that throw while they are built, `match` operands that throw, and
  ranged `for` over a pending exception: listed as hazards, the first two need
  `Expressions` with lists.
- Which module `main` is taken from, and imported names: tables of names, decided
  without a promise in docs or tests.
- Unsynchronised reads of `Abort` and `HasFinished`: calls are single steps, a torn
  string is outside of the model.

## What could come next

`Expressions` with lists and arguments; for `Closures`, releases by levels as in
`Aggregates`, so that its invariants can be proved along the same lines.
