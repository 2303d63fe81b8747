# A TLA+ model of goquickjs

goquickjs is a JavaScript engine in Go: a hand-written lexer and parser, a
compiler to bytecode, a stack machine and the built-in objects. This directory
holds TLA+ modules translated from its source, the TLC configurations that
check them on small instances, and proofs that TLAPS checks for every value of
the constants.

Paths below are relative to `src/`. `PROJECT.json` maps every definition that
models code to the lines it stands for.

## 1. Inventory

The engine is sequential Go except in one respect that decides much of its
design: generator bodies and async functions run on goroutines of their own
that share one unlocked VM with the goroutine of the caller, and only the order
of channel operations keeps two of them from interpreting at once.

| Component | State | Operations | Interacts with |
|---|---|---|---|
| Objects, shapes, inline caches (`internal/value/object.go`) | the shared shape tree; per object a shape, a slot vector, tombstones, accessors, a prototype; per bytecode site a cache cell in the `Chunk` | `Extend`, `GetOwn`, `GetOwnCached`, `Set`, `SetCached`, `Delete`, `PropNames`, `stringify` | `OpGetProp`, `OpSetProp`, every builtin |
| Generators (`vm.go:254-410`, `OpYield`) | `genState.started/done`, channels `yieldCh`, `sentCh`, `stop`, one goroutine each | `next`, `return`, yield, end of the body | the interpreter, for-of |
| Promises and microtasks (`builtins/promise.go`, `vm.go:127-150`) | `promiseStorage` (a package variable), `VM.microtasks` | constructor, resolve, reject, then, catch, finally, all, race, queueMicrotask, drain, unhandled-rejection report | `RunChunk`, async functions, host |
| Async functions (`vm.go:225-290`, `OpAwait`, `OpReturn`) | `asyncCtx` channels `paused` and `resume`, one goroutine per call through `VM.Call` | run a fiber, await in a fiber, await inline, finish | promises, the interpreter |
| Property dispatch (`vm.go` `OpGetProp/OpSetProp/...`) | prototype chains, accessors, proxies, indexed readers | get, set, delete, `in` | objects, functions, arrays |
| Compiler, control flow (`compiler/emit_stmt.go`) | loop stack, jump patches, handler table | statements, try/catch/finally, labels, switch, for-of | the interpreter's operand stack |
| Compiler, scopes and expressions (`compile_fn.go`, `compiler.go`, `emit_expr.go`, `emit_destruct.go`) | scope maps, slots, upvalue lists, captured flags | declare, resolve, addUpvalue, emit | frames |
| Interpreter (`vm.go` `invoke`, `helpers.go`) | frames, locals pool, operand stack, call depth | dispatch, `doCall`, return, throw and unwind | all of it |
| Runtime and host API (`runtime.go`, `eval.go`) | globals, the VM | `Eval`, `Value.Call`, `Set`, `SetFunc`, `Get` | the VM, package state |
| Arrays and their iteration (`value/array.go`, `builtins/array.go`) | item vector, named properties | index get and set, push, truncate, the callback methods | the interpreter through `Caller` |
| Map, Set, WeakMap, WeakSet (`builtins/map.go`, `set.go`, `weak.go`) | flat entry arrays; a package map for weak tables | set, get, delete, clear, forEach | callbacks |
| Typed arrays (`builtins/typed_array.go`) | a shared byte buffer | element get and set, views | indexed readers and writers |
| Lexer and parser (`internal/parser`) | position, previous token | tokens, the regexp decision, arrow look-ahead, semicolon insertion | the compiler |
| Strings, numbers, Math, BigInt, Symbol; JSON, Date, RegExp; Object, Function, Error, Reflect | next to none | pure conversions and helpers | the object model |
| Tools (`cmd`, `benchmark`, `internal/differ`) | none of the engine's | | |

What is hard, and what makes each part correct:

* **Objects.** A cache cell is shared by every object that flows through its
  site, a hit skips the lookup, and deletion leaves the shape alone. Correct
  means: cached and uncached reads agree, each object is a map of its own,
  shapes never change once made, enumeration lists what reads find.
* **Generators.** `next`, `yield`, `return` and the end of the body meet over
  unbuffered channels and `select`s. Correct means: one goroutine interprets,
  nobody blocks for ever, `return` is final, the script sees a coroutine.
* **Promises.** Reactions are queued before and after settlement, by programs,
  callbacks and host calls, and settle other promises. Correct means: settled
  once, each reaction once, in order, on the right side; the combinators count
  correctly; queued work is served.
* **Async.** A fiber's resumer may be any goroutine at any depth, since an
  await outside a fiber drains the queue on the spot. Correct means: one turn,
  one wakeup, the right outcome, and the call's promise settled by its body.
* **Property dispatch.** Setters and getters may run JS in the middle of an
  access; caches must step aside for accessors and proxies.
* **Control flow and frames.** Jumps and exceptions have to leave the operand
  stack at the depth the target expects; recycled locals must not be captured.
* **Closures.** The vector of a frame's locals is recycled when the frame
  returns, and closures point into such vectors. Correct means: a vector is
  recycled only when nothing can reach it, which depends on a mark that the
  compiler sets when it resolves names, and every name denotes its binding.
* **Expressions and patterns.** The emitters keep operands, receivers, keys and
  temporaries on the operand stack and in slots by convention. Correct means:
  the code computes the value and the effects of the source in their order.
* **Collections and arrays.** A callback may change what is being iterated, and
  the loops that move elements read and write one vector.
* **Typed arrays.** Views of different widths share bytes.
* **Parser.** A rule per construct, precedence by nesting of calls, look-ahead
  and reinterpretation. Correct means: a tree that is written down is read
  back, and no source makes it look behind the last token.
* **Runtimes.** Package variables are shared by Runtimes that are documented to
  be independent.

`PROJECT.json` lists the hazards line by line with the properties aimed at them.

## 2. Modules

| Module | Models | Constants |
|---|---|---|
| `PropertyStore` | abstract: objects are independent maps from names to values | `Objs Names Vals Missing` |
| `ShapeCache` | `value/object.go`: shapes, slots, tombstones, `PropCache`, `SetCache` | and `GetSites SetSites GetName SetName` |
| `OrdinaryObjects` | abstract: property access over prototype chains, accessors and proxies | `Names Functions get set ...` |
| `Dispatch` | `OpGetProp`, `OpSetProp`, brackets, `delete`, `in`, `instanceof`, `new`, the lookups of `object.go` and `function.go`, `proxy.go` and the builtins on objects | `PlainNames Functions Scripts MaxObjects MaxCalls ...` |
| `TypedArrays` | `builtins/typed_array.go`: elements over the bytes of a buffer, as operators | `Base` |
| `IteratorProtocol` | abstract: a generator is a coroutine | `Gens Main Vals Undefined Nobody` |
| `Generator` | `genState`, `genCtx`, `OpYield`, channel by channel | and `NoGen Reentrant` |
| `PromiseHeap` | the functions of `promise.go` over (promise slots, microtask queue), without who calls them | `MaxProms Array NoVal` |
| `Promise` | scripts, the event loop and the host over `PromiseHeap` | and `Vals Features MaxTasks MaxWaits NoTask` |
| `AsyncVM` | fibers, `OpAwait` and the drain loop on every goroutine's stack, over `PromiseHeap` | and `MaxFibers MaxDepth` |
| `Bytecode` | the instructions that steer control and what each does to the operand stack | |
| `StackMachine` | `invoke`, `doCall`, `unwindTo`, `findHandler`: frames over one operand stack | `Progs Fns MainFn MaxCalls MaxChoices` |
| `Lowering` | `emit_stmt.go`: statements to code and handler tables, as operators | |
| `Completions` | reference: what the statements mean | |
| `ControlFlow` | `Lowering` and `StackMachine` together, against `Completions` | |
| `Frames` | locals vectors and their pool, upvalues, `doCall`, `VM.Call`, returns, exceptions, both depth limits | `Progs Names MaxSize MaxCalls MaxNative MaxBucket` |
| `Scopes` | `compiler.go`, `compile_fn.go`: names to slots, upvalues and globals | |
| `Closures` | `Scopes` and `Frames` together, against a reference of what programs mean | |
| `ArrayOps` | `value.Array`, and the methods of `Array.prototype` that call nothing back, as operators | `Undefined NaN ArrayIds ...` |
| `Dictionary` | abstract: a collection is a finite map | `Ids Keys Vals Absent` |
| `Collections` | `map.go`, `set.go`, `weak.go` under scripts and callbacks | `Maps Sets WeakMaps WeakSets ... MaxCalls MaxSteps` |
| `ArrayMethods` | the methods that call back, together with `Collections` | `Elems Written Results Indices Rank Contents MaxLen` |
| `ExprValues` | what single operators do with values (`vm.go`, `helpers.go`) | |
| `ExprCode` | `emit_expr.go`, `emit_destruct.go`: expressions and patterns to code | |
| `ExprMeaning` | reference: what they mean | |
| `Parser` | `internal/parser` on tokens | |
| `ExprMachine` | `Eval` of a source: parsed, compiled, run one instruction a step | `Families Globals Objects` |
| `Expressions` | the properties of the three together | |
| `SourceText` | reference: how a tree is written down | |
| `ShapeCacheProofs`, `DispatchProofs`, `InterpreterProofs` (of `StackMachine` and `Generator`), `FramesProofs`, `PromiseHeapProofs`, `PromiseProofs`, `AsyncProofs`, `CollectionsProofs` | the proofs | |
| `MC...` | the finite instances | model values, programs |

Operators marked "Slip" in a comment are the plausible bugs the properties are
tested against; no specification uses them.

What composes what: `Promise` and `AsyncVM` are two drivers of `PromiseHeap`;
`ControlFlow` is a compiler, a machine and a meaning, and so are `Closures` and
`Expressions`, each over the part of the compiler and of the interpreter it is
about; `ArrayMethods` puts arrays and collections under one stack of callbacks;
`Dispatch` takes from `ShapeCache` that own properties are a map, which is what
`ShapeCacheProofs` shows.

### ShapeCache and PropertyStore

`shapes` is the heap of `Shape` values in allocation order; `shape`, `values`
and `deleted` are the fields of each object (`deleted` remembers whether the map
exists, since the caches test for nil); `propCache` and `setCache` are the cells
in the bytecode. The actions are `Set`, `SetCached`, `GetOwnCached` and
`Delete`. A read through a cell that hits changes nothing and is therefore the
state function `CachedRead`, compared with `GetOwn` in every state. Slots count
from 1. The refinement mapping sends the heap to `Contents`, the map from
objects and names to what `GetOwn` answers; a read that fills a cache and a
cache hit are stuttering or abstract writes.

### Dispatch, OrdinaryObjects and TypedArrays

`heap[o]` is the object with address `o`: its data properties as a map (slots
and caches are `ShapeCache`), accessors, prototype, proxy, view and bytes.
`fprops` is `Function.Props`. Getters, setters, traps and constructors are
script functions: `calls` is the stack of those that run, and any operation may
happen in them, so the state an operation began in is not the one it ends in.
`answer` says what the last operation was and what it pushed. A script starts
from one of the heaps of `MCDispatch` and has a number of operations of some
kinds; objects that are made later lie behind these in the heap.

`OrdinaryObjects` does not know of accessor tables or of an order of lookup: an
object has at most one property of a name, and an access goes to the nearest
object of the chain that has it. `ImplementsOrdinary` says that every operation
of `Dispatch` is a step of it where `Conforming` holds, and `Conforming` spells
out where the code is at odds with it (section 5): chains that come round, a
proxy of a proxy, an object with a data property and an accessor of one name,
a data property in front of an inherited accessor, and lists of an object into
which `set` or `slice` of a typed array has mirrored elements.

`TypedArrays` has the byte order, the wrapping and the signs of the code; a byte
has `Base` values instead of 256, and an Int32 therefore `Base^4`.

### Generator and IteratorProtocol

`pc[t]` says where goroutine `t` is: interpreting (`js`), at the send or receive
of `advance`, at one of the three selects of a body, unborn or gone. A send and
its receive are one step, as on an unbuffered Go channel; a select with two
ready cases may take either. `callee` and `offer` are what the goroutine in
`advance` waits for and holds out. With `Reentrant = FALSE` no script steps a
generator from inside its own execution (directly or through others); with
`TRUE` all scripts are allowed, which is what `MutualExclusion` is proved for.
The mapping to `IteratorProtocol` forgets channels: a body parked at its second
select is suspended, and `running` is the goroutine that has the turn.

`advance` does not look at the error a body ends with, and the model does not
either: `BodyEnds` answers a value or undefined.

### PromiseHeap, Promise and AsyncVM

A heap value holds `promiseStorage` (`slot`) and `VM.microtasks` (`queue`). A
pair of closures `(wrapF, wrapR)` is a record: what kind it is, the promise it
settles, whether the script passed a callback for each side, and the index in
`Promise.all`. `onFulfill` and `onReject` always grow and are cleared together,
so they are one list. `PromiseHeap` has no variables: `Promise` and `AsyncVM`
drive it differently.

In `Promise` there is one goroutine and a `phase`. JS runs as the program of an
`Eval`, as a microtask's callback, or as a function that the host calls through
`Value.Call`, which (unlike `Eval`) does not drain. Thenables that are not
promises do not exist: `resolvePromise` only looks for promise objects. An
executor runs inside the caller's JS, so its calls of `resolve` and `reject` are
that JS's calls.

In `AsyncVM` each goroutine is a stack of activities (JS of several kinds, a
drain loop, a wait on a channel). `VM.Call` of an async function pushes `spawn`
and starts a fiber; `OpAwait` in the body of a fiber subscribes a `wake` and
offers on `paused`; in any other JS it pushes a drain. A `wake` microtask sends
on `resume` and waits on `paused`, whoever runs it. `OpReturn` in an async
function wraps a plain value in a fulfilled promise, so the fiber's own promise
settles a microtask later.

### Lowering, StackMachine, Completions and ControlFlow

`Lowering` is the part of the compiler that steers control, written as the Go
code is: an `Emit...` operator per `emit...` function, loop frames that collect
the jumps to patch, handler tables in the order of `AddHandler`, completion
values kept for the last statement of the script. Code is a sequence of
instructions instead of bytes, so the i16 range of jump offsets (the compiler
refuses a larger one) is not in it. Each instruction also carries the depth
(`at`) of the operand stack of its frame that the emitter has in mind; the Go
code leaves it implicit, the machine never looks at it, and `Verified` asks
whether the instructions and handlers of a chunk agree about it.

`StackMachine` is the dispatch loop over such chunks. A frame has a base in the
operand stack that all frames of an `invoke` share, as in Go. Expressions and
conditions are single instructions; how a condition, a case test or `next()`
turns out is the script's choice, recorded in `taken`. An exception comes from
a `throw`, from `next()` (an iterator that throws, or a value that is none) or
from a call beyond the limit. `Completions` says what a program logs and how it
ends, given the same choices, and a run compares the two when the machine halts.
Its `finally` follows the comment at `emit_stmt.go:275-279`: it runs on the
normal exit and after a caught exception.

Two classes of programs are set apart, because the code is at odds with its own
contract there. `KeepsContract` excludes those that jump out of an inner for-of
or switch (section 5). `FinallyPlain` excludes a `try` inside the finally block
of a try that is the last statement of the script: its handler does not count
the completion value below it, and an exception caught there drops that value.
`Disciplined` is both.

### Scopes, Frames and Closures

`Scopes` is `declare`, `resolve`, `addUpvalue` and the compilation of functions:
the compilers of a function and of those around it are a stack, each with its
scopes, slots and upvalue descriptions; a name that is found further out is
captured through every function between, and the function that owns the slot is
marked `localsEscape`. `Frames` runs what it emits. A locals vector is a place
in `heap`; `pool[n]` holds the vectors of length `n` that `getLocals` may hand
out, at most `MaxBucket` of them; a frame has its vector, a closure the cells
(vector and slot) it captured, which is a pointer into a slice in Go. A call of
a function (`Call`, `doCall`) pushes a frame in the same invoke; a call through
a native function (`Reenter`, `VM.Call`) starts a nested one, with the two
limits `MaxCalls` and `MaxNative` for `maxCallDepth` and `maxNativeReentry`.
An exception drops frames and invokes down to the first that catches, without
returning vectors; the vector of a call beyond the limit has been taken already.

`Closures` adds a reference in which every variable is a location of its own and
a function remembers its environment, and compares the logs.

### Collections, ArrayOps, ArrayMethods and Dictionary

A Map is the flat array in its `__entries__` and its property `size`, a Set the
one in `__values__`; weak tables are the package maps by handle. Every native
method that calls back (`forEach` of both, the callback methods of arrays, the
comparator of `sort`) is a record on `calls` with its place in the loop; while
it waits, the script's callback may do any operation, call other methods
included, and then answers. What an iteration has looked at (`seen`, `start`,
`touched`) is history. The loops that move elements (`shift`, `unshift`,
`copyWithin`, `delete`) are written with their direction and read what
they overwrote if that is wrong.

Contents are compared with finite maps by refinement (`ImplementsDictionary`)
and the methods with their definitions in ECMAScript: those that call nothing
back for small arrays and all combinations of their arguments (`MethodsExact`), the others from the
elements they showed to their callbacks and the answers they got
(`IterationsExact`); `sort` is held to its comparator's order, and to that of
ECMAScript where no element is undefined.

### Parser, ExprCode, ExprMachine and their references

`Parser` has an operator per method of the Go parser, from a state (tokens,
position, previous token, error) to a state and a node. A token is its kind;
what the lexer makes of characters is the input. `SourceText` is the reference:
it writes a tree down by the grammar of the language, once with no parenthesis
that precedence makes superfluous and once with all of them.

`ExprCode` is an `Emit...` operator per function of `emit_expr.go` and
`emit_destruct.go`; where two emitters differ only in the instruction they end
in, they are one operator. `ExprMachine` reads a source, compiles it and runs
the code one instruction a step over the operand stack, the variables and a heap
with objects, arrays and functions whose calls are logged; `boom` throws.
`ExprMeaning` says what the same tree means by recursion over the tree, without
code or an operand stack. `ExprValues` has what both need of single operators.

## 3. Runs

Every run is TLC on the instance its `.cfg` describes. Deadlock is checked
except in the runs of programs and scripts that end: `control_flow`,
`finally_rethrow`, `closures`, `library`, `dispatch`, `expressions`.

| Run | Instance | Distinct states |
|---|---|---|
| `shape_cache` | 2 objects, 2 names, 2 values, 1 read site, 1 write site on the same name | 38,422 |
| `dispatch` | 7 starting heaps and kinds of operations (below) | 88,242 |
| `generator` | 2 generators, 2 values, no re-entrance, fair | 136,421 |
| `promise` | 3 promises, 2 values, every operation but `queueMicrotask` | 317,354 |
| `promise_loop` | 3 promises, 2 microtasks at once, fair | 364,509 |
| `async` | 3 promises, 2 fibers, depth 3 | 272,452 |
| `async_progress` | 3 promises, 1 fiber, depth 2, fair | 113,874 |
| `control_flow` | 1,532 programs, 2 nested calls, 4 choices | 83,360 |
| `closures` | 1,554 programs of nested functions | 53,325 |
| `library` | one array, one Map, Set, WeakMap and WeakSet | 188,626 |
| `expressions` | 14,668 sources | 88,793 |
| `finally_rethrow` | the scripts of `control_flow` | violated |

What they show:

* `shape_cache`: `IInv` (types, and the coherence of layouts, slot vectors and
  cells), `CachedReadsExact`, `EnumerationExact`, and `ImplementsPropertyStore`:
  tombstones and two kinds of cells make no difference to what objects hold.
* `dispatch`: `ObjectsSound` (types, and that instances of one function share
  one prototype that `instanceof` knows, whichever of the two places that make
  it came first), `ImplementsOrdinary`, `ElementsReadBack`.
* `generator`: `OneTurn`, `PartnersWait`, `ClosedForGood`, `ImplementsProtocol`,
  and, under fairness, `StoppedBodiesUnwind` and `CallersAnswered`.
* `promise`: `ReactionsSound` (types, each reaction delivered once, on the side
  its source settled on), `ReactionsInOrder`, `AllCounts`, `FinallyTransparent`,
  `SettledForGood`. `promise_loop`: `ReactionsRun`, although callbacks queue
  others without end.
* `async`: `TurnsSound` (types, one goroutine has the turn, whoever waits has a
  partner), `OneWakeup`, `ResumedWithOutcome`, `ResultFollowsBody`.
  `async_progress`: `AwaitsEnd`.
* `control_flow`: `DepthsKept`, `DisciplinedVerified`, `Faithful`.
* `closures`: `PoolExclusive`, `DepthsCounted`, `CompilerMarks` (what the proofs
  of `FramesProofs` assume of programs holds of compiled ones),
  `ClosureSemantics`.
* `library`: `CollectionsSound` (types, flat arrays whole, reads agreeing with
  them between any two operations), `ImplementsDictionary`, `OrderKept` (keys
  stay in the order of insertion, and a walk goes along them), `MethodsExact`,
  `IterationsExact`.
* `expressions`: `ParserNeverPanics`, `ReadsBack`, `OperandsSound` (types, and
  the operand stack as deep as the emitters mean it to be),
  `ExpressionsFollowSource`.

Properties whose names end in `Sound` are conjunctions: a type invariant and the
invariants that make it meaningful, which are defined one by one in the modules.

**Why the bounds are enough.** *Shapes:* the shape tree of two names has five
shapes and both orders of construction; two objects through one site give every
switch of a cell between its update and add regimes, tombstones on one object
while the other fills the cell, and re-insertion. The proofs remove these
bounds. *Dispatch:* a chain of three objects has a nearest, a farther and a
farthest owner of a name; a proxy with and without traps; constructors that are
constructed from, assigned a prototype and asked by `instanceof`, up to four
operations; a view that begins in the middle of a buffer of eight bytes next to
views of either width that scripts make, from byte 0, 2 or 4, which
may be behind the end, and written at the indices -1, 0 and 1. A getter that gets or sets again needs
two calls. With `Base = 4` an Int32 is between -128 and 127: -1 has all four
bytes set, and 200 wraps to a negative number; both wrap in a Uint8. *Generators:* two generators are
the fewest for which a body steps another body. The proofs remove this bound
too. *Promises:* three promises are a source, a derived promise and one more to
adopt, to combine or to chain; `Promise.all` of two items has both arrival
orders, repeated items, plain items and a rejection. `MaxWaits = 1` caps how
often one pending promise is resolved with others: the code adds one closure
each time, and resolving twice with a promise does not differ from resolving
with one and settling with a value, which the instance has. *Fibers:* two fibers
are what one waiting for another, both waiting for one promise and a drain on
one fiber's stack resuming the other need. `MaxDepth` bounds how deep a
goroutine calls; depth 3 has a drain on top of a native callback on top of the
program, and a callback on that. *Statements:* a script is a loop, switch or try
around a second one (with and without a label and an `if`) around a statement
that logs, breaks, continues or throws; a caller calls, in and out of a try and
a loop, a function whose body is one of them around a return, a throw or a call
of itself. Two levels are what a jump needs to cross a construct, an exception
to find an outer handler and a finally to follow a catch. Four choices let a
loop come round twice with a decision inside; the third nested call exceeds the
limit. *Closures:* a function whose body is any three of the statements listed
in `MCClosures`, one of which makes a closure at depth one, two or three, called
before and after another function has recycled vectors of the same length, from
scripts and from natives, returning, throwing and calling itself past the
limits. `MaxBucket = 2` has a pool that is empty, used and full. The proofs
remove the bounds on calls, programs and the pool for `PoolExclusive` and
`DepthsCounted`. *Library:* `MaxSteps` is a weight, one for an operation
on a collection and two for one on an array, so that a `forEach` has three
operations of its callbacks and of the script around it, a method of an array
one or two, and one method can be called from the callback of another; arrays have up to three elements, one of
which may be the array itself. `MethodsExact` is about the arrays a
script starts with and those that one operation makes of them, and all indices
in `MCIndices`: negative, inside, and missing; lengths up
to three put 1 and -2 on both sides of the middle, and the proof of
`MethodsHold` takes these bounds away. *Expressions:* every operator
over operands that call, throw, are undefined or decide, one operator of each
sort inside one of each sort, and patterns with targets of every kind over
sources of every kind (4,006 programs that run); every form of expression and
statement inside every other, in two texts (8,744 that are read); 1,918 sources
broken off after any token or with one missing.

**Symmetry** is used where model values are only compared (objects and values
in `shape_cache`, values in `promise`), and only in runs whose properties are
invariants and action properties or a safety refinement.

**Fairness.** *Generator:* weak fairness of the channel operations that can
proceed, which is what the Go scheduler gives; a script may compute for ever.
*Promise:* the interpreter's loop goes on, and programs and callbacks return:
the promise is for scripts that terminate, and says so. *AsyncVM:* weak fairness
of the drain loop and channel operations of each goroutine, and for each depth
of its stack strong fairness of the end of the activity there: a script may call
and await again and again in between, but each function it is in ends. Strong
fairness is needed because a callee suspends its caller's return. The other
components are sequential and always terminate or are bounded; they promise
nothing about progress.

**Mutants.** For every property of every passing run `PROJECT.json` names a
mapped definition and a slip; with the slip in its place TLC finds the property
violated. Among them: a write cell whose `newShape` is not cleared, `Extend` in
place, an accessor that is looked for before the nearest data property, a
prototype that is made and not remembered, big-endian elements, a select without
its stop case, a yield answered to the wrong goroutine, a late `then` run first,
`Promise.all` by arrival order, a dropped error of an async body, a drain that
ends early, handlers searched from the wrong end, a handler that does not count
the iterator of the loop around it, locals that are recycled always, an
exception that does not uncount the invokes it leaves, the capturing function
marked instead of the owner, `unshift` copying from the front, a `size` counted
on every write, a delete that slides one pair short, a walk over the live
length, an operator level that associates to the wrong side, a method call that
leaves receiver and callee in the wrong order.

## 4. Proofs

TLAPS checks these for any sets of objects, names, values, sites, generators,
programs, collections and arrays, and any limits.

**ShapeCacheProofs**, from `SitesAssumption` (each site has one name) and
`MissingAssumption` (the answer for a missing property is no value). The
inductive invariant is `IInv == TypeOK /\ Coherent`. Neither half is inductive
alone: a cell's slot and shape are followed without a check, so the types of
the vectors depend on the coherence of the cells, and the add regime of a write
cell keeps the vector as long as the shape only because the cached child
extends the cached shape. The proof has one lemma per operation (`ReadKeeps`,
`SetWrites`, `SetCachedWrites`, `DeleteRemoves`), which also says what the
operation does to the abstract map, and rests on `ExtendKeepsHeap` and
`HeapGrows` (a step adds at most one shape and changes none).

* `TypeCorrect`, `Coherence`: the invariant.
* `CachedReads`: a read through a cell answers what the full look-up would.
* `Immutability`: no step changes a shape or redirects a transition.
* `Refinement`: `Spec => ImplementsPropertyStore`.
* `WritesExact`: a write, cached or not, changes the name it is given and
  nothing else.
* `Sharing`: no two shapes have the same property list. Strengthened by the
  root's list being empty; a new list is new because a child is remembered.
* `Enumeration`: `EnumerationExact`. The loop of `PropNames` is a recursive
  function; that it exists, and that each round lists what it should, are
  inductions over the numbers up to the length of the list (`Rounds`), which
  take a set where the library's induction takes an operator.

**InterpreterProofs, the goroutines of generators**, from the assumptions on the constants in `Generator`.

* `GeneratorTypes`, `MutualExclusion`: for every script, re-entrant ones
  included, by `TurnInv` (types, a goroutine exists once started, one turn).
* `Rendezvous`, `Closed`: under `~ Reentrant`, by `CalmInv`, which adds that a
  closed generator's body does not execute, that only a closed one has its stop
  channel closed, and that a started open one executes or is parked.
* `Coroutines`: `Spec => ImplementsProtocol` under `~ Reentrant`, by the same
  invariant: the step that hands a value or an end to the caller is the step of
  the iterator, every other step of the goroutines stutters.

**PromiseHeapProofs** are the lemmas `PromiseProofs` is built from, for
any set of subscribers and any set of values. `Count(h, K)` is the number of
places, in the queue and in the lists, that hold a subscriber of `K`. Settling
moves subscribers from a list to the queue and changes no count
(`SettlePlaces`, by a bijection between the places before and after);
subscribing, queueing and taking a microtask change one count by one
(`SubscribePlaces`, `QueuePlaces`, `TakePlaces`).

**PromiseProofs**, from the assumptions on the constants in `PromiseHeap` and
`Promise` (values are not promises, nor is the marker for "no callback runs" a
microtask). The properties are about states between two steps; the invariant
is about a heap and the set `F` of subscribers that have left the queue and are
not answered yet, `HeapInv(h, F, X)`, so that it also holds between the calls
that make one operation up. What it says of promise `p`, counting places and
`F` together (`Total`):

* one of `then` or `finally` has one subscriber while pending and none after;
* one of `Promise.all` has at most one for each item, as many as `left` says
  while pending, and none once fulfilled; an item without one has arrived, at
  its own index; one that is rejected has a rejected item. `X` holds the one
  that has just collected its last item and is about to fulfil;
* one of `finally` settles only after the promise it was called on, and fulfils
  only as that one did.

And of the others: a subscriber targets a promise of its kind, a microtask is
for the side its source settled on, settled promises have no list, and the
reactions of one promise are, in its list and in the queue, in the order of the
promises they settle. `ReactionsDeliveredOnce` alone is not inductive: a
subscriber's kind decides what serving it does to its target, and `AllCounts`
is kept by a fulfilment only because the item's value is still the one it
settled with. Seven lemmas each say that one step of `PromiseHeap` keeps
`HeapInv` (`Adding`, `Settling`, `Subscribing`, `Taking`, `Collecting`,
`Answering`, `Reporting`); the operations are sequences of these.

* `Invariance`: `Spec => []Inv`.
* `Settlement`: `SettledForGood`, an action property.
* `Reactions`, `ReactionOrder`, `AllCounting`, `Transparency`:
  `ReactionsSound`, `ReactionsInOrder`, `AllCounts`, `FinallyTransparent`.

**AsyncProofs**, from `BoundsAssumption` and `ValsAssumption` of `AsyncVM`
(values are not promises) and that of `PromiseHeap`. `Inv` has two halves.

*The stacks.* `TurnFits` is about the tips: one goroutine is at an activity that
can go on (`Holders`), one that waits for a fiber at `paused` is the only one
to, that fiber is neither asleep nor gone, and every fiber that is neither has
such a partner. `StackFits` says what is below a tip: JS or a drain, and at the
bottom a program or a drain of the main goroutine, or a body. `OneTurn` and
`PartnersWait` look at tips only and are not inductive: a tip that ends hands
the turn to what is below it.

*The heap.* `HeapFits` says which subscribers and microtasks there are, as in
`PromiseProofs`; `WakesFit` that `Count(heap, Wakes(f))`, the places that hold a
wake-up of fiber `f`, is one if `f` awaits and is not being served;
`ResultsFit` that nobody else owes the promise of `f` a settlement before its
body ends, and one subscriber does afterwards while it is pending. `OneWakeup`
alone is not inductive: that a subscription is for what `f` awaits (`SrcFits`)
is what makes `ResumedWithOutcome` true when it is served, and only `FibersFit`
(a fiber awaits exactly if it is pausing or parked) makes `OpAwait` find none.
An await in a callback runs a drain inside the callback, of any depth, so the
lemmas about a step of the heap (`Step`) do not mention who takes it.

* `Invariance`: `Spec => []Inv`.
* `Turns`: `TurnsSound`, types included.
* `Wakeups`, `Outcomes`, `Results`: `OneWakeup`, `ResumedWithOutcome`,
  `ResultFollowsBody`.

**InterpreterProofs, the operand stack**, from `ChunksTyped` (chunks are sequences
of instructions and of regions). The inductive invariant is `StackInv`: in verified code, the
types, `Balanced` (each frame is as deep as its instruction expects, a suspended
one up to the base of the next) and `Nested` (bases do not decrease outwards to
inwards). `Nested` is what an exception needs that is caught several frames up:
cutting the stack back for that frame leaves the frames below it alone. The
lemmas are one per way of moving on: within a frame (`GoesKeeps`), an exception
(`UnwindKeeps`), a call and a return; `LowestExists` and `HighestExists` are for
the searches of `findHandler` and `unwindTo`.

* `StackDiscipline`: `StackSpec => []DepthsKept`, for every set of chunks.
* `StackTypes`, `NoUnderflow`: verified code keeps the types, and never reads
  below its own frame. That compiled code is verified is what `control_flow`
  checks (`DisciplinedVerified`), program by program.

**FramesProofs**, from `FramesAssumption` (functions are records of the right
types, limits are numbers) and, as the antecedent of the theorems, `WellFormed`
of the program: references fit the slots and upvalues of their function,
execution does not run off the end of the code, and a function one of whose
slots an inner function captures is marked. The last is the link to the
compiler, and `CompilerMarks` checks all of it for compiled programs.
`PoolExclusive` is not inductive: nothing in it keeps a returning frame from
recycling a vector that a closure points into. `Escapes` does: if a closure
points into the vector of a frame, the frame's function is marked. It is kept
because a closure captures either a slot of the frame that makes it, whose
function `WellFormed` has marked, or a cell its own function has captured, for
which `Escapes` held already; and because a vector that is taken from the pool
is nobody's. `Points` (frames, closures and values refer to what exists, with
vectors of the right length) is what the steps need to be defined, and
exceptions need that frames are only dropped, never moved.

* `Recycling`: `Spec => [](WellFormed(prog) => PoolExclusive)`.
* `Depths`: `Spec => [](WellFormed(prog) => DepthsCounted)`, by adding that the
  first frame begins an invoke. An exception uncounts as many invokes as it
  leaves, whatever handler it finds (`CutDepths`), because those it leaves are
  the frames marked `entry` above the one that catches.

**CollectionsProofs**, from `CollectionsAssumption` (a collection is of one
kind, objects are no symbols, the marker for "not constructed" is no content),
`ArrayOpsAssumption` and `ArrayMethodsAssumption` (what scripts store are
elements, index arguments are integers or missing, arrays are no collections,
the strings of elements are ordered by integers).
The inductive invariant is `LibraryInv`, in three parts, and for the answers of
methods that call back also `LoopsHold`.

*Collections* (`CollInv`). An array that is not `Absent` is rows: as many keys
as values, no key twice that can be matched, `size` their number. `Rows` turns
the arithmetic of flat positions into two sequences, keys and values, and each
operation of `map.go` and `set.go` is a relation between rows (`Overwriting`,
`Appending`, `Removing`), which the lemmas `RowOverwritten`, `RowAppended` and
`RowRemoved` carry over to the finite map.

*Waiting walks* (`WalkOn`). While nothing has been taken out, the keys a
`forEach` began with still lead the keys there are, it has seen the first of
them in order, and its index is at the row it saw last. `ForEachCovers` is not
inductive: it does not say where the index is. What a callback does to a walk
below it on the stack is either to grow what is walked (`Leads` is kept), or to
take something out of it, which `Shrunk` marks.

*Waiting array methods* (`CallSound`, `ArraysInv`). The index of a loop is
below `MaxLen` although the array may have been shortened under it, and what it
holds is an element. `ArraysInv` needs that each mutator returns elements;
these are folds over positions, and what a fold computes is shown by unrolling
it into the function of its intermediate values (`IsFold`, `PutsRun`,
`MovesRun`, `SortedRun`) and an induction over numbers.

One lemma per operation says that it keeps the invariant, puts the keys where
`KeysGoOn` allows, and is a step of `Dictionary` or leaves it alone; an
operation on arrays leaves the collections and, but for its marks, the walks
alone (`ArrayKept`).

*Loops* (`LoopsHold`). While nobody has changed its array, a waiting loop is where
the answers it has had put it: `OnWay` ties its index to their number, the
elements it showed to the array in its direction, and what it has collected to
them (`Collected`: for `filter` by the enumeration of the kept positions), and a
search has had no answer that decides it. `IterationsExact` speaks of ended calls only, so
it says nothing of a loop that has yet to end. A step moves the loop on top
(`NextOnWay`), ends it with an answer that is `Exact` (`ExhaustedExact`,
`DecidedExact`), or leaves the loops or marks them. That `sort` arranges stably
by its comparator is an induction over its insertions, each of which keeps what
is arranged arranged (`OneMoreArranged`), because the comparators rank
(`OrdersRank`). ECMAScript asks the comparator about no undefined element and puts
those last; of an array without one the two orders are the same (`SameOrder`),
so there, and only there, the answer is that of ECMAScript (`SortedStably`).

*Closed forms* (`MethodsAgree`). A method that calls nothing back is a loop of
the code on one side and a definition of ECMAScript on the other, a sequence given
by its length and elements. For each loop that overwrites (`reverse`, `fill`,
`unshift`, `copyWithin`) an induction over its rounds says which positions hold
what after each, in the direction the code goes, which is where overlapping
ranges would go wrong (`Rewritten`, `MovesBack`, `Overlaid`); the searches are the least or greatest
position there is (`IsLeast`, `IsGreatest`). `concat` and `flat` join parts
(`JoinsAll`), and `flat` by its levels: the array flattened to one level more is
the flattened parts of the array (`LevelBelow`, `FlatLevels`), which needs no
end of nesting, so it holds of arrays that contain themselves too.

* `LibraryHolds`: `Spec => []LibraryInv`.
* `CollectionsHold`: `CollectionsSound`, types and reads included.
* `DictionaryRefined`: `Spec => ImplementsDictionary`.
* `OrderHolds`: `Spec => OrderKept`.
* `IterationsHold`: `Spec => []IterationsExact`.
* `MethodsHold`: `MethodsAgree` in every state, whereas `MethodsExact` has TLC look
  at it after one operation only.

**DispatchProofs**, from `BaseAssumption` (a byte has an even number of values)
and `DispatchAssumption` (names, indices and values are apart, what stands for
nothing is nothing else, and literals build typed heaps: addresses refer to
objects there are, views that have elements lie within buffers, bytes are bytes).

*Objects* (`ObjectsInv`). `ObjectsSound` is not inductive. The objects and the
buffers under their views are typed together (`HeapTyped`), since a write
through one view changes the bytes another reads; and an object that a function
has constructed is an instance only because it still has the prototype that the
function had then (`Instances`, per epoch of the function), which says more than
that `instanceof` finds it. Each operation either changes one field of one
object, adds objects, or calls and returns; `TypesKept`, `AllocationStep` and
`InstancesKept` are about these, and one lemma per operation says which it is.
What recursive functions compute (`Walk`, `Filled`) is a function of the rounds
(`WalkingExists`, `FillingExists`) and an induction over numbers.

*The refinement* (`StepIs`). The mapping forgets tables, elements and the order
of lookup. `FirstOf` over the walk is the nearest object of `OrdinaryObjects`
(`NearestIs`); that accessors are searched along the whole chain before data
gives the nearest property only where no data property lies in front of the
accessor (`NearestAccessor`, `NearestData`), which is where `Conforming` is
used. Behind a proxy this is shown of the target (`ResolveIs`). An operation on
elements or functions is `Elsewhere`: bytes are no properties, and mirrored elements have no
names (`ElementIs`, `ElementsIs`). The attempt to prove it has shown that
`Conforming` must exclude lists of objects with mirrored elements.

*Elements* (`ElementWritten`). An element in range is one that the buffer has
room for only because views with elements lie within their buffers (`Lies`, part of
`HeapTyped`), which no operation undoes: a buffer never changes its length. The
bytes of a word make it up again (`OctetsValue`: four divisions by `Base`, of
which the last leaves nothing), the sign is that of the one congruent number in
range (`SignedUnique`, `Int32Wraps`), and an aligned view has a whole number of
elements in front of it, so that bytes are apart where places are (`SlotPlace`,
`PlacesDisjoint`). The solver has no theory of division by a constant that is
not a literal; `Division` to `OwnRemainder` are what it needs to know.

* `ObjectsHold`: `Spec => []ObjectsSound`, types, views and instances.
* `OrdinaryHolds`: `Spec => ImplementsOrdinary`.
* `ElementsHold`: `Spec => ElementsReadBack`.

**Only model-checked:** liveness (`StoppedBodiesUnwind`, `CallersAnswered`,
`ReactionsRun`, `AwaitsEnd`), which the prover does not reach; and what
recursive definitions compute: `DisciplinedVerified`, `Faithful`,
`CompilerMarks`, `ClosureSemantics` and all of `expressions`.

## 5. Where the code and its texts, or the language, disagree

*finally after an uncaught exception* (`finally_rethrow`, a finding in
`PROJECT.json`). The comments in the lowering of `try` say that a try without
catch rethrows "so a finally clause still runs"; the `OpThrow` it emits leaves
the code before the finally is reached. (That an exception of the catch block,
and a return, break or continue, skip it too is the limitation the comment below
it admits or does not speak of; `Completions` does the same.)

The rest was read in the code while modelling. The models do what the code does;
where a property compares with the language, its text, or `Disciplined`,
`Conforming` or the choice of programs, says what it leaves out.

*Control, generators, promises.* `break` and `continue` out of an inner for-of
or switch are plain jumps that leave its operands, contrary to the "stack
contract" of `emitForOf` (`emit_stmt.go:199`, `516-522`). A body that `return()`s
its own generator may leave the caller of `next` waiting for ever, because the
caller does listen when the comment in `advance` says nobody does
(`vm.go:371-372`, `704`). Exceptions of generator bodies are dropped
(`vm.go:375`). A for-of that breaks never calls `return()` (`vm.go:387`).
`VM.Call` never drains, where the header of `promise.go` has the queue drained
after every nested call (`runtime.go:223`). An await outside a fiber drains the
queue in the middle of the program. `handled` is documented to be set "directly
or transitively" and is set on the receiver of `then` only (`promise.go:24`).
`promiseStorage` is never pruned (`promise.go:44`). Promises resolved with
themselves or each other stay pending (`promise.go:64`).

*Objects.* `stringify` does not consult `deleted` (`object.go:338-357`). An
inherited setter is called although data of the object shadows it, and an
inherited accessor is read before nearer inherited data; `SetAccessor` leaves a
data property of the name in place; `delete`, `keys`, `hasOwn` and `assign` do
not see accessors. `delete` answers false of a name that is missing, deleted
before or only an accessor (`object.go:324-335`, `vm.go:775-776`), where
ECMAScript answers true. Brackets, `in`, `delete` and `Reflect` pass by proxies and
accessors, though the header of `proxy.go` lists their traps; a proxy of a proxy
reads a bare object. `in` does not look at prototypes. `new` and
`Reflect.construct` keep the answer of a constructor only if it is a plain
object. Prototype chains can be made to come round, and lookups then do not end
(`object.go:125`). The offset of a view is cut to a multiple of its width and,
like its length, not compared with the buffer (a view that begins behind the end
has length zero or less); `set` writes past the end of the view,
and copies elements into named properties that then go stale. `set` of an
`Int32Array` in front of the first byte panics in Go, because only the upper
bound is checked (`typed_array.go:292-297`) and nothing recovers; the model has
the script go no further.

*Scopes.* The slots of a block are used again by the next one while closures of
the first still point into them (`compiler.go:222`); a parameter after one that
is a pattern gets a slot that is not its position (`compile_fn.go:100`); a
function's own name inside it is looked up as a global (`emit_stmt.go:293-311`).
The values `"blocks"`, `"patterns"` and `"recursion"` of `Family` in `MCClosures`
are the programs that show it: `ClosureSemantics` fails on them. The run has
the others.

*Library.* A `forEach` whose callback deletes skips entries and may hand out a
pair of undefined. The callback methods read the length again, so a callback
that pushes keeps them going. Symbols and BigInts never match as keys, contrary
to `map.go:16`. A weak table stores arrays and functions under a handle that is
made for the occasion, never finds them again and never drops them
(`weak.go:97-100`). `indexOf` and `includes` do not find references.
`__entries__` and `size` are properties that scripts can write. `reduce` of an
empty array is an error of the host, not an exception. `sort` asks its comparator
about undefined elements too, and without a comparator takes them for the string
`"undefined"`, where ECMAScript puts them last without asking
(`array.go:953-966`).

*Expressions.* `a?.b.c` goes on after the short circuit and `a?.b()` loses
`this`. `x++` of a string concatenates; `undefined + 1` is 1; the parser drops a
unary plus. Destructuring undefined yields undefined, array patterns read
indices instead of iterating, a member target in a pattern is evaluated after
the value. Writing a string key of an array is an error of the host. The index
of a constant wraps beyond 65,535 of them (`bytecode.go:340`).

*Grammar.* Rejected: `const` and patterns in the head of a for-of declaration,
`in` inside parentheses in the head of a for (`parser.go:22-26`), an empty
statement, a missing semicolon before a line break, `++` of anything but a name,
a nested pattern with a default and computed keys in assignment patterns, the
comma operator, async arrows and async function expressions. Accepted: `-a ** b`,
`||` next to `??`, elements of an array pattern without commas, elements after
the rest element of an assignment pattern (those of an array are never bound,
`emit_destruct.go:111`).

## 6. What is not modelled, and the plan

Not modelled: string and number methods, `Math`, BigInt, JSON, Date and RegExp
(pure conversions, floating point, text, Go's `regexp`), Error, `bind` and the
wiring of globals, and the tools. The lexer works on characters and is left out;
the parser takes its tokens. In the compiler, classes, object accessors, bitwise operators
and the flags of generators and async functions are read by `Parser` and
compiled in no model. In the interpreter, division, powers,
BigInt arithmetic, the keys of for-in and the receiver of arrow functions are
left out. `Float64Array` is outside TLC's arithmetic, and a view has the length that is
left in its buffer, never one given as a third argument, which may reach past
it, nor a negative offset; array iterators, `entries()`, `subarray` and `toString` are not in the
library modules.
Properties of primitives and of functions other than `prototype` are not in
`Dispatch`. Thenables do not exist in the code. Garbage is not modelled.
`PROJECT.json` says so component by component.

The plan, in this order:

1. **Runtimes**: two Runtimes over the package variables, and the conversions of
   the host API.
2. **Iteration**: for-of over `Generator`, with the exceptions of bodies and
   loops that break, composed with `StackMachine`.
3. Classes and accessors in `ExprCode`, and the lexer's decision
   between a regular expression and a division.
4. String index arithmetic (`slice`, `substring`) and shifts as operators
   against reference definitions.
