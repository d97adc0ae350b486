# A verification development for ort-builder

ort-builder is a directory of shell scripts that turn an ONNX model into a
static, size-reduced ONNX Runtime library per platform, together with the
headers an application compiles against that library.  Two bodies of code live
in it, and both are modelled here:

1. the **build scripts** (`convert-model-to-ort.sh`, `build-*.sh`,
   `build-win.bat`), programs of a dozen commands each that share one directory;
2. the **C++ API headers** (`include/onnxruntime_cxx_api.h`,
   `onnxruntime_cxx_inline.h`, `onnxruntime_float16.h`), which are not
   declarations only: the wrapper classes manage the life of every object of the
   C API, hand over arrays of results, pass the caller's own arrays to the
   runtime's threads, pass configuration to custom operators, and convert
   half-precision numbers.  With them comes the C interface they wrap,
   `include/onnxruntime_c_api.h`, whose signatures and comments say who owns what.

The runtime itself is a submodule whose directory is empty.  The modules model it
as far as the headers use it, and mark those definitions external in
`PROJECT.json`.

Line numbers below refer to files under `src/`; `API` is
`include/onnxruntime_cxx_api.h`, `INL` `include/onnxruntime_cxx_inline.h`, `F16`
`include/onnxruntime_float16.h`, `C` `include/onnxruntime_c_api.h`.

## Inventory

| Component | State | Operations | Interacts with | What is hard |
|---|---|---|---|---|
| Build scripts | files and directories, `$?`, which half of a platform is built | conversion, build, libtool/lipo/lib.exe, mkdir, rm, xcodebuild | each other through files, external tools, the developer | a tool fails at any command, ^C, a run repeated, two terminals, leftovers of an older configuration |
| Owning wrappers `Base<T>`, `Status`, `ThrowOnError` (API 555-585, INL 14-37) | `p_` of every wrapper, life of every C object | construct, adopt, move, `release()`, destroy, a failing C call | all wrapper classes derive from it | exceptions out of a half-built constructor, sequences of moves and releases |
| Result transfer (INL 351-409, 951-960, 1074-1097, 1849-1866) | C arrays, guards, result vector | five functions from a C array to a vector | allocators, wrappers | an exception at any point, order of destructors |
| Allocators, `MemoryAllocation` (INL 160-216) | block, size and allocator of every variable | Alloc, Free, GetAllocation, three-swap move | allocators | which allocator a block goes back to, self-moves |
| Custom operator configuration (INL 602-630, 722, 853-864, 999-1017, 1868-1884) | flat map, entries of the options | AddConfig, AddConfigEntry, RegisterCustomOpsLibrary, GetSessionConfigs | session options in several hands | entries that change between the calls of one lookup, a failed registration repeated |
| Custom operators (API 2158-2206, INL 1671-1793) | function table, kernels, a read in progress | fill the table, create, read attributes, compute, destroy | runtime, logger | uninitialised entries, two-call reads, errors through C code |
| Logger and macros (API 1890-1960, INL 1529-1593) | cached level, buffer, status | make, log, format, send | environment's logger, kernels | a level that changes, size of the buffer, status on each way out |
| Half-precision floats (F16, API 160-427, INL 136-158) | 16 bits | to and from float, classify, negate, abs, ==, < | none | rounding, carries, zeros and NaNs |
| Runs of a session: `Run` in three forms, `RunAsync`, `IoBinding`, `RunOptions` (INL 945-990, 351-409, 724-770, C 699-706, 4327-4349) | calls in progress, the arrays they were given, what is bound, the terminate flag | start, compute, stop, complete, throw, bind, clear, set and unset the flag | the runtime's threads, the caller's `Value`s | arguments used by another thread after the call has returned, two runs side by side, a flag set and taken back, a failure after some outputs are written |
| Copyable views (`Base<Unowned<T>>`, `ConstXXX`, `UnownedXXX`, API 543-640) | a pointer | make from an owner, copy | the owner's wrapper | outliving the owner, `const` lost on the way through a cast |
| Accessors: every other method of the wrapper classes | the locals of a program | one or two C calls each | the C interface, views, owners | which of the nearly equal methods hand an object over and which lend one |
| C interface (C 719-4530) | objects of the runtime | 237 functions | all of the above | ownership said in comments only |
| Provider options, provider factory headers, key headers | none of their own | create, update, append | session options | none |

The properties that make each part correct, and the hazards they are aimed at,
each at its line, are in `PROJECT.json` under `hazards`.

## Modules

`A -> B` reads "A extends or instantiates B".

```
BuildPipeline      -> BuildScripts                            BuildPipelineProofs, MCBuildPipeline -> BuildPipeline
OrtHandles         -> ExclusiveOwnership                      OrtHandlesProofs -> OrtHandles
MemoryAllocations  -> OrtHandles, ExclusiveOwnership          MemoryAllocationsProofs, MCMemoryAllocations -> MemoryAllocations
SessionRuns        -> RunCalls, ExclusiveOwnership            SessionRunsProofs -> SessionRuns
ResultTransfer     -> ExclusiveOwnership
Accessors          -> CxxBodies -> CxxDeclarations -> CApi    AccessorsProofs -> Accessors
Accessors          -> ResultTransfer, ExclusiveOwnership
SessionConfigs     -> ConfigStore                             SessionConfigsProofs, MCSessionConfigs -> SessionConfigs
CustomOps          -> Logger, AttributeReads                  CustomOpsProofs, MCCustomOps -> CustomOps
HalfFloats                                                    HalfFloatsProofs, MCHalfFloats -> HalfFloats
```

A definition whose comment begins with **Slip:** is never used by a
specification.  It is the form that its neighbour would have after a plausible
mistake (a dropped guard, a swapped order, a forgotten NUL); putting it in the
neighbour's place makes the property that `PROJECT.json` names under `mutants`
fail, which is how we know that the property says something.

### Three abstract specifications

`ExclusiveOwnership` is what the comment at the head of the C++ API promises,
"all the resources follow RAII and do not leak memory": a resource is born into
the hands of one holder, may change hands, is given back once, and nothing
happens to it afterwards.  Five modules implement it, each with a refinement
mapping of its own: `OrtHandles` (objects held by wrappers), `MemoryAllocations`
(blocks), `ResultTransfer` (elements of a C array), `SessionRuns` (`OrtValue`s
written by another thread) and `Accessors` (whatever a method hands over, held by
a local).  A resource that was freed twice, has two holders or none maps to a
value that is no state of the abstract specification.

`RunCalls` is what the caller of `Run` or `RunAsync` may count on: a call is
refused, or answered once, and a successful answer is its own result.
`SessionRuns` implements it.

`ConfigStore` is a key-value store with lookups answered at one instant.
`SessionConfigs`, where a lookup is three calls with changes between them, is
shown to implement it.

### BuildScripts, BuildPipeline

`BuildScripts` has each script as a sequence of commands; a command is what it
reads, what it writes, and how the script reacts if it fails (`set -e` stops, its
absence goes on, `|| exit \b` of `build-win.bat` either leaves the script or ends
the block, because `\b` is not `/b`).  `BuildPipeline` runs them: one action per
kind of command, `Fail` for a command that is refused (an input is missing) or
whose tool fails, `Interrupt` for ^C, `Launch` for the developer.  The content of
a file is the set of conversions that went into it, so a library with halves from
two conversions is a set with two elements.  A build in progress or broken off
leaves its tree with the old and the new conversion together.  `plan` is chosen
in the initial state and says which scripts the developer uses, in how many
terminals, with how many faults.

### OrtHandles

A `Slot` is a C++ variable of a wrapper type, `Ptr` the C objects (an `OrtStatus`
is one of them).  The actions are the constructors, `Adopt`, the two halves of
`operator=(Base&&)` (`MoveAssign`, `MoveAssignTake`: between them the target
stores a pointer that it has already given back), `release()`, the destructor, and
a C call that fails in a constructor (`CreateFails`, `ConfigureFails` for the
second C call of `Env`'s) or a member function (`MemberFails`), after which
`UnwindStatus` and `UnwindObject` run.  A function in progress is in `call`.
`raw` holds what the application has as a plain pointer, through the C API or
`release()`.

`AllowSelfMove` says whether the program may write `x = std::move(x)`.  It is FALSE
in the run and an assumption of three theorems here and one about blocks: `operator=` (API 567-571)
releases `p_` and then takes `v.release()`, the pointer just released.  With TRUE,
TLC finds `NoDoubleRelease` violated within four steps.  `std::unique_ptr` and
this header's own `MemoryAllocation` survive a self-move; `MemoryAllocations`
includes it.

### ResultTransfer

One module for the five functions that turn a C array into a vector.  The C call,
each declaration of a guard, `reserve`, each iteration of the loop, and each
destructor is a step; `scope` is the stack of locals whose destructors are
pending (a guard that has been released stays there and frees nothing).
`reserve` throws, a copied string throws, a moved pointer does not.
`Session::Run` differs in the order (room first, call last), and in that the runtime
may have written some outputs before it fails.

### MemoryAllocations

`MemoryAllocation`'s three members, the swaps of its move assignment done as the
code does them, blocks that know which allocator they came from, `AllocatorFree`
that may fail in a destructor, which the code ignores on purpose.  The module
extends `OrtHandles`: a block's allocator is one of its objects, owned by one of
its wrappers, which may be moved, released or destroyed, and whose construction
may fail, while the block holds a plain pointer.  `MemoryNext` takes a step of either; a step
of the wrappers is subject to `KeepsAllocators`, the promise that the header asks of
the application (API 645): an allocator stays until the blocks that came from it are
back.  `FreesThroughLive` says that with this promise, and whatever is moved where, no
block is given to a released allocator.

### SessionRuns

Calls of `Run` and `RunAsync` side by side, over `Value` variables of the caller and an
`IoBinding`.  What the wrapper does is little, and all of it matters: it hands
the runtime the caller's arrays themselves (`Arrays`, a `reinterpret_cast`, no
copy), and the caller's options themselves (`Options`), so that the flag a run looks
at is the one that `SetTerminate` writes; the form that returns a vector
constructs it before the call and loses it when the call throws.  The runtime's
threads are external: they compute, fail before or after writing, find the flag
set, and report, in any order.

The caller meanwhile does anything the interface allows.  What it must leave alone is
spelled out: the values of a run in progress (`Busy`; an input may serve a
second run unless it is `BeingWritten`), values that are bound (`Bound`: the
binding keeps the pointer), and the binding while a run uses it (`BindingBusy`).
One application either passes values or uses a binding (`style`, a bound chosen in
the initial state): nothing relates the two but the values, and together they would
multiply the states.

### CApi, CxxDeclarations, CxxBodies, Accessors

`CApi` has one entry for every function of `OrtApi`: the class it works on, whether
its signature lets it change the object, and what it gives: data, a pointer
into the object, an object to be released (`Handed`), a part of it
(`Lent`, `ConstLent`), a string from an allocator.  Signatures say the first two; the
third is what the comment of each function says of its out parameter, and where that
says nothing, what the wrapper's use of it implies.
`CxxDeclarations` has for every method of a wrapper class the part of its class
that declares it (views of a const object have the const part only) and what
it returns; `CxxBodies` the C functions that it calls, in order.  These are three
tables, each translated from its own file, and `Accessors` is where they meet.

In `Accessors` a program calls methods in any order and keeps what it gets in local
variables: owners, views, strings, raw pointers.  The locals are a stack, which goes
from the top when a scope ends, when an exception unwinds it, and one below
the top when a function returns a local.  A method counts by its effect (`MethodEffect`,
`FunctionEffect`): methods with the same effect on lifetimes are one step, which is
what keeps 206 methods and 237 functions within reach of TLC.  Objects have parts, parts go
with the whole (`GiveBack`); of an object that is gone only who it
belonged to is remembered (`Gone`), so that histories which differ in nothing else are
one state.  A part is recorded with the whole it goes with (`Whole`), not with the part it was
reached through.  Methods that return a vector are the functions of `ResultTransfer`, which run with
the program's locals below them; one such call ends a behaviour.

Whether the three tables fit together is an assumption by name, `TablesAgree`, which TLC evaluates
row by row whenever it runs the module: what a C function hands over comes back in
something that gives it back, and only that; what is lent as const comes back in a const
view; a method that changes its object is not one a const view has.  An entry translated
wrongly, or a method of the header that returned the wrong kind of wrapper, fails there before any
state is explored.  `TablesAgree` also says which row does not fit, and that it is the only one:
`GetOptionalElementType` (INL 1180-1185) returns an owner of what C 4211-4212 says "is owned by
OrtOptionalTypeInfo instance".  `TakesOptionalElement` says whether the program calls it; the run
and four theorems are about programs that do not (`Callable`), because for those that do the
properties are false (below).  What the wrappers make of tables that agree is what the
properties, and the proofs, are about.

`ClassesInUse` names the classes that a program has objects of. The ten of the run bring in 25
of the 28 kinds of method there are (what it is called on, what it gives and returns, whether
it changes its object); left out are a const view that is never null, of which the run has the
form that may be, and an object handed over by a function that works on no object and no
wrapper calls. They include an owner from a constructor, from an owner and from a view; parts
of parts; a method that may answer with nothing; a string and the allocator it was asked from,
the runtime's or one of the session's own, which can go; and the classes that have a method for
a vector. Other classes differ from them in which rows of the tables are theirs, and the rows
are what `TablesAgree` covers; the theorems hold for any choice.

The program promises one thing: it does not return a view of what goes with its
function's scope, nor a string whose allocator does (`ReturnYoungest`).  A view made from
a temporary (`session.GetTypeInfo().GetTensorTypeAndShapeInfo()` kept beyond the
statement), and calls on a null view, are likewise the caller's and not in the
model.

### SessionConfigs

The application's thread collects entries (`AddConfig`) and registers a library
(`RegisterCustomOpsLibrary`, one C call per entry, then the load, any of which may
fail); reader threads run `GetSessionConfigs`, with `HasConfigEntry`, the size
query and the fill as separate steps, any of which may fail (`LookupFails`) and between which the
application may change the options, and the one string of keys that the loop reuses.  A string is a sequence
of pieces, so that lengths and dots are real.

### Logger, AttributeReads, CustomOps

`Logger` has the cached level, the choice of buffer in `LogFormattedMessage`, and
the status that the four macros either throw or ignore.  Making one may fail, in either of
its two C calls (`MakeLoggerFails`).  Nobody looks at the result of the second `snprintf`
(INL 1573, 1582): if it fails, the runtime is given a buffer that nothing was written to
(`Unwritten`).  `AttributeReads` is the
pattern of two calls by which a kernel's constructor reads names, attributes and
constant strings, with the local that only a complete read swaps into the
caller's variable.  `CustomOps` composes them in the life of an operator: the
function table in memory that was zeros or not, the two flavours of
`CustomOpBase`, kernels created one at a time, threads that compute and log.  The entries
of the table catch nothing, with or without statuses (API 2193-2198, 2203-2206): an exception
that the operator's own code lets out goes into C code, after which the model leaves it open whether
the process ends (`ExceptionInC`) or the runtime goes on as after an error (`KernelFails`,
`ComputeEnds`).

### HalfFloats

Both 16-bit types in one module, `kind` choosing the constants.  A float is a
record of sign and the 31 remaining bits (TLC's integers have 32 bits); the
conversions are those of the code with shifts as divisions.  The reference is
defined independently: the value of a pattern as a scaled integer, and the
nearest pattern with ties to even.

## Runs

| Run | Module, configuration | What it shows |
|---|---|---|
| `handles` | MCMemoryAllocations | 3 wrapper variables, 4 objects, 2 blocks in 2 variables: exactly one holder until the one release, for objects and blocks; an exception leaves complete wrappers alone; a block goes back once, to the allocator it came from, which is still there; refinement of `ExclusiveOwnership` by both |
| `session_runs` | SessionRuns | 2 runs of any form, 3 variables, 3 values: what the runtime works on is there; every value keeps one owner through success, failure and termination; every call is answered by its own result; a run told to terminate ends |
| `accessors` | Accessors | any program of up to 3 locals, 4 objects and the runtime's allocator, which does not call `GetOptionalElementType`: nothing lent is released, nothing is used or released after it is gone, nothing const is changed, nothing handed over is lost; up to 3 results in a vector, an exception anywhere: nothing leaked, nothing freed twice, all results returned in order |
| `pipeline` | MCBuildPipeline, Pipeline.cfg | no library of two conversions; status 0 means delivered and cleaned up; a library changes only in its own script's run; builds side by side do not make one another fail |
| `pipeline_retry` | MCBuildPipeline, PipelineRetry.cfg | after any two faults, running the scripts again succeeds; the framework is built in the end |
| `pipeline_other_model` | violation | `convert-model-to-ort.sh other.onnx` serializes `model.ort` |
| `pipeline_fresh_ios` | violation | `build-ios.sh` fails in a fresh checkout |
| `session_configs` | MCSessionConfigs | a library finds the configuration given for its operators, whatever failed before; a lookup in three calls answers like one |
| `session_configs_flattened` | violation | the flat key is not the documented one |
| `custom_ops` | MCCustomOps | the runtime calls only functions that were set, reads are whole or leave no trace, messages arrive whole or the failure is accounted for (unless it is the second `snprintf`'s, which the code does not look at), no status is lost |
| `half_floats` | MCHalfFloats | all 65536 patterns of both types converted, classified and negated; rounding around every exponent; order |
| `float16_equality` | violation | the two zeros are not equal by `operator==` |

### Bounds, and why they are enough

- *handles*: a step involves at most two variables and two objects (the one
  released, the status thrown); the others leave room for bystanders.  Two blocks and
  two variables are enough for a swap to mix them up; 34,663 states up to symmetry.
  The theorems then remove the bounds.
- *session_runs*: two runs to disturb one another; three variables are an input
  and two outputs, or an output and a variable to move it to; only one run is given
  options, so that the flag can miss the other.  165,632 states.  The theorems remove
  the bounds from everything but the liveness property.
- *accessors*: an object, a part of it and something that depends on it are three
  locals; five objects are the environment, a session, an allocator made for it, a string from
  that allocator, and the runtime's own allocator, which is always there.  One
  local below a call that fills a vector (`MaxBelow`) is enough for the unwinding to go on into the program.  The loops treat all elements
  alike; with three of them an exception can strike before the first, between two,
  and after the last.  738,562 states.
- *pipeline*: two conversions are what it takes to mix two; the plans give every
  script a failing command at every position, and two faults (a fault, and one
  in the run that repairs it) where the scripts are short.  `Stems = {"model"}`
  except where the argument of the conversion is the question.
- *session_configs*: three changes cover "was there, grew, shrank" between the
  calls of one lookup; the values have length 0, 1 and 2.
- *custom_ops*: two levels, two threads, two kernels, values of up to three
  elements, and messages of 1022, 1023 and 1024 characters: the longest that fits the stack
  buffer with its NUL, the shortest that goes to the heap, and one more.
- *half_floats*: conversions and classification are exhaustive over patterns; floats
  are those around the midpoint of two neighbours, for every exponent, and their
  immediate neighbours, which is where a rounding function changes its result.
  Comparison is between the patterns at the ends of every exponent and one of
  each class.

Model values are symmetric where no property tells them apart (`Symmetry` in
the MC modules), and never in a run with a liveness property.

### Fairness

A command of `BuildPipeline` that runs returns (weak fairness of `Step` in
`FairSpec`); the developer keeps following the README, that is, comes back to
every script of the plan with the default model whenever a terminal is free (strong
fairness of `Launch`, because terminals are free again and again, not always) and
creates the missing `libs/ios-arm64`.  Faults and interruptions are not fair, and their
number is bounded by the plan: with tools that fail forever nothing can succeed.

In `SessionRuns` the runtime looks at the flag of a run again and again, and reports
what has been computed or has failed (weak fairness of `Stop`, `Complete` and
`Throw`).  That a computation ends is not assumed: `EndsWhenTold` would otherwise
hold without the flag.  The flag itself may be set and taken back at any time.

### Where the system may stop

`SessionRuns` is checked without deadlock: each call is made once, and
the caller may have nothing left to do.  So is `pipeline_other_model`, whose
developer has a plan that ends.  Everywhere else deadlock is an error, and
the end of a program is a stuttering action (`Over`).

### What contradicts its documentation

Each is the violation run of its name, quoted in `PROJECT.json` under `findings`.

- `convert-model-to-ort.sh` line 8 serializes `model.ort` whatever it converted.
- `build-ios.sh` line 27 writes into a directory that no script creates.
- `AddConfig("my_op", "key", ...)` makes `custom_op.my_op.key`, documented as
  `my_op.key`.
- `operator==` of both 16-bit types compares bits, although the comments beside it
  say that the two zeros are equal.

More behaviours are known and outside the runs: the self-move above; on a
volume that distinguishes case, `build-mac.sh` fails at lipo (`macOS` and `macos`;
`CaseSensitive = TRUE` violates `BuildMacWorks`); and an operator `a.b` beside an
operator `a` can share a flat key (`DottedNames` violates `ConfigReachesItsOp`).
`xcodebuild` refuses to overwrite a framework, so that `build-xcframework.sh` works
once until the developer deletes its result.  `KernelContext::GetAllocator`
(INL 1634-1638) returns a raw `OrtAllocator*` that nothing but `ReleaseAllocator` of the C
interface gives back.  `GetOptionalElementType`
(INL 1180-1185) makes an owning `TypeInfo` of a result that C 4211-4212 says "is owned
by OrtOptionalTypeInfo instance"; `CApi` follows the comment, and `TablesAgree` finds the
disagreement.  With `TakesOptionalElement = TRUE` and `ClassesInUse = {"KernelInfo", "TypeInfo",
"OptionalTypeInfo"}` TLC finds `LocalsStayValid` violated: the `TypeInfo` that goes releases a part
of another one, or goes after it.  Which of the two, header or comment, is wrong is
decided in the runtime, which is not here.
Some casts (INL 1147) leave their out pointer uninitialised and
rely on the runtime to write it also when it answers "no".

## Proofs

| Module | Theorem | States | Assumes |
|---|---|---|---|
| `OrtHandlesProofs` | `TypeCorrect` | `Spec => []TypeOK` | |
| | `OwnershipSafe` | `Spec => []Ownership` | `~AllowSelfMove` |
| | `FailureContained` | `Spec => FailureIsContained` | `~AllowSelfMove` |
| | `Refinement` | `Spec => ImplementsOwnership` | `~AllowSelfMove` |
| `MemoryAllocationsProofs` | `MemoryTypeCorrect` | `MemorySpec => []MemoryTypeOK` | |
| | `BlocksFreedAtHome` | `MemorySpec => []FreedAtHome` | |
| | `BlocksRefinement` | `MemorySpec => BlocksImplementOwnership` | |
| | `AllocatorsOutlive` | `MemorySpec => FreesThroughLive` | `~AllowSelfMove` |
| `SessionRunsProofs` | `RunTypeCorrect` | `Spec => []TypeOK` | |
| | `ArgumentsOutlive` | `Spec => []ArgumentsOutliveTheRun` | |
| | `ValuesOwned` | `Spec => ImplementsOwnership` | |
| | `CallsAnswered` | `Spec => ImplementsCalls` | |
| `CustomOpsProofs` | `CustomOpsTypeCorrect` | `Spec => []TypeOK` | |
| | `DispatchAlwaysDefined` | `Spec => []DispatchDefined` | |
| | `ReadsWhole` | `Spec => []ReadsAllOrNothing` | |
| | `MessagesAccounted` | `Spec => []MessagesAccountedFor` | |
| `SessionConfigsProofs` | `ConfigsTypeCorrect` | `Spec => []TypeOK` | |
| | `ConfigsReach` | `Spec => []ConfigReachesItsOp` | `FlatKeysApart` |
| | `LookupsAtomic` | `Spec => ImplementsConfigStore` | `FlatKeysApart` |
| `BuildPipelineProofs` | `PipelineTypeCorrect` | `Spec => []TypeOK` | |
| | `LibrariesUniform` | `Spec => []LibraryUniform` | |
| | `SuccessesDeliver` | `Spec => []SuccessDelivers` | |
| | `LibrariesFromTheirRuns` | `Spec => LibraryFromItsRun` | |
| | `SideBySideUndisturbed` | `Spec => ParallelUndisturbed` | `Stems = {"model"}`, `~CaseSensitive` |
| `AccessorsProofs` | `NoResultMisused` | `ApiSpec => []NoMisuse` | |
| | `ThrowsLeaveNothing` | `ApiSpec => []ThrowsClean` | |
| | `AllReturned` | `ApiSpec => []ReturnsAll` | |
| | `ResultsOwned` | `ApiSpec => ImplementsOwnership` | |
| | `ProgramsTyped` | `ApiSpec => []ApiTypeOK` | `~TakesOptionalElement` |
| | `LocalsValid` | `ApiSpec => []LocalsStayValid` | `~TakesOptionalElement` |
| | `ConstKept` | `ApiSpec => []ConstStaysConst` | `~TakesOptionalElement` |
| | `ObjectsOwned` | `ApiSpec => HandedOverIsOwned` | `~TakesOptionalElement` |
| `HalfFloatsProofs` | `FloatTypes` | `Spec => []TypeOK` | |
| | `ValuesComeBack` | `Spec => []RoundTrip` | |
| | `FloatsRoundToNearest` | `Spec => []RoundsToNearest` | |
| | `BitsOrderedLikeFloats` | `Spec => []LessLikeFloats` | |
| | `BitsClassifiedByValue` | `Spec => []ClassifiedByValue` | |

All of them use the assumptions on the constants that the modules name:
`HandleConstants` (NULL is neither an object nor a variable, and the two holders
that are no variables, App and Thrower, are different), `AllocationConstants`,
`RunConstants`, `LoggerConstants`, `ReadConstants`, `NodeConstants`, `ConfigConstants`,
`ResultConstants`, `AccessorConstants`, `TablesAgree`, `HalfFloatConstants` and
`PipelineConstants`.  The last column names the assumptions that
some theorems add to them.  The sets of terminals, models, objects, variables, blocks, runs,
threads and nodes are arbitrary (but for the one model of `SideBySideUndisturbed`), as are the
levels, the lengths of messages and of attributes; only `MaxObjects` of `SessionRuns`
and of `Accessors`, `MaxLocals`, `MaxLength` and the number of results `MaxCount` are natural
numbers, of any size.

*Wrappers.*  `Ownership` is not inductive: that `Destroy` releases a live object
needs to know which wrapper holds one, and that depends on the function in
progress.  `IInv` adds to it the types, that the operands of `call` exist
(`OperandsExist`), what each stage of a function has in hand (`FrameOK`: an
exception in flight has a status, a constructor between its two C calls is
building a variable that is not yet alive, `operator=` between its two statements
has two different operands, both alive), and that only variables alive or under
construction store an object (`OnlyWrappersHold`).
The lemmas `OneTouched` and `NothingTouched`
say that a step that changes the state and holders of one object (of none) keeps
`Ownership` for all others, so that each action needs an argument for the object it
touches only.  `OwnershipInductive` has one step per action; `OwnershipSafe` follows.

`FailureContained` takes from `IInv` that what unwinding releases is held by nobody
else.  `Refinement` maps every object to its one holder (`MappedState`: under `IInv`
the mapping is a state of `ExclusiveOwnership`), and `HeapLife` shows that an
object's state only ever goes from unborn to live to freed; the two give every step
as a lawful change of hands or a stutter.

*Blocks.*  `FreedAtHome` does not say who may free a block next, so `BlockInv` gives
every block one of the stages of its life (`BlockOK`: not handed out; held by exactly
one variable that names its allocator, by the application, or by nobody after a
failed free; given back and held by none).  Every step changes the stage of one block, also an
assignment of a variable onto itself, which needs no assumption.
`AllocatorsOutlive` adds that the allocators of outstanding blocks are live
(`AllocatorsLive`): steps of the wrappers keep that by the application's promise,
steps of the blocks because they borrow only from wrappers that own, and this last is
where `OwnershipSafe`, and with it `~AllowSelfMove`, comes in.

*Runs.*  The invariant `Inv` of `SessionRuns` relates three things that separate
steps change: the values (`ValuesOK`: an object is live just if one variable that exists
stores it), the binding (`BindingOK`: what is bound is live and stored by some
variable), and the calls (`CallsOK`: a call in progress has its variables, with its
preallocated output still in place; a written result is still where it was put).
`RunsApart` is what makes the last one inductive: the output of a run is neither
output nor input of another, and one run at most is on the binding.  That is the point where
the caller's restraint (`Busy`, `BeingWritten`, `BindingBusy`) is needed, and leaving
any of them out makes the proof, and TLC, fail.  Fairness plays no part.

*Custom operators.*  Three invariants, of three parts that share no variable, are put
together by `StepOK`.  `ReadOK` says after each of the two calls what the size
and the local are, so that cutting the NUL off leaves the value (`NulIsCut`).  `LoggerInv`
says that a macro about to send has room for the whole message and its NUL.  `OpsInv` says that there are
no kernels before the table is filled, and which entries are then set or null.

*Results.*  `Inv` says for every stage of the five functions what is in the scope
(`ScopeOK`: a prefix of the function's locals in the order of their declaration), what is
in the vector (`ResultOK`: the first elements, which `owned` counts where it matters), and
what is live (`StageOK`): on the way out, exactly what the vector has taken over or
some destructor still pending will free.  `TopApart` is the heart of it: what the
next destructor frees is live, is not the vector's, and is freed by no destructor
below, and the array is there if the destructor reads it.  This is where the order of
the guards' declarations comes in, and that `strings_guard` is released before the
first string is moved.  The programs of `Accessors` around a call do nothing to it
(`CallerSteps`).  For `ResultsOwned`, `OneResponsible` shows that the function, a guard or
the vector, and only one of them, answers for each live resource.

*Programs.*  That a destructor releases a live object, and takes nothing from under another
local, needs to know how locals, parts and what a string was made with lie on the stack.
`ProgramInv` says it: what a local refers to is live, and the whole that it is part of is
kept (by a local that will give it back) at or below that local; what it needs, a string its
allocator, is kept below it (`Grounded`, `LocalOK`); what was handed over and is still live is
kept by exactly one local (`KeptOnce`); parts belong to a whole that is part of nothing and is
live as long as they are (`ObjectsOK`).  Calls add one object and one local on top, for
which it is enough that the call's own object and allocator are grounded (`NewKept`, `NewUnkept`,
`PushOK`); `GiftOK` gets from `TablesAgree`, for every effect but the one the program does without
(`CallsAgree`), that the local has the right kind.  A local that goes
is `RemoveOK`, once for both ways: those below it cannot depend on what it alone keeps
(`NotLostBelow`), and the one above it that a function returns does not, by the program's
promise.  `ObjectsOwned` maps each object to its one keeper.  `TablesAgree` is taken as
assumed: the tables build names out of strings, which the provers cannot, and TLC evaluates.

*Half floats.*  The provers know nothing of powers of two, and the reference is made of them.
`PowerTable` and `OneOctave` give them the numbers: a magnitude is in one octave, between two
powers of two, in which the units of a float are all of one size.  In an octave the
conversions are quotients and remainders: `SubnormalToNearest` follows the addition of
`denorm_magic`, `NormalToNearest` the rounding by 4095 and the odd bit, `Bits16Nearest` and
`BitsB16Nearest` put the octaves together with overflow, infinity and what is too small.
`MidpointBelow` and `MidpointAbove` are what makes a nearest value of a nearest one among its
neighbours.  The way back is exact (`BackAgain`), it keeps order (`OrderKept`) and classes
(`ClassesKept`).  `HalfInv` says of each step what float and value came from.  The theorems are
about all 65536 values and all 2^31 magnitudes of a float with both signs, whatever
`Starts` and `Deltas` say.

*Configuration.*  `ReadInv` says where each reader is, which key it asks for (the prefix
followed by the entry's key: `PrefixAndKey` shows that cutting the one string back
restores the prefix), and that an entry once found is still there, since the options have no
way to remove one.  With it, `BufferCut` shows that the answer is the value the entry has
when the buffer is filled, the instant at which `LookupsAtomic` lets the abstract store
answer.  `Passed` says of every entry how far registering has got with it, also after a
registration that failed.  `FlatKeysApart`, that no two entries have one flat key, is what
names without dots give; with an operator `a.b` beside `a` it fails, and TLC finds
`ConfigReachesItsOp` violated.

*Scripts.*  `LibraryUniform` is not inductive: that lipo puts equal things together needs
to know what the commands before it have left.  `Sure` says that of every run: it has
read one configuration, which cannot change under it because a conversion runs alone,
and certain names hold exactly that (`Fresh`, a table of the names by script and
command), others are gone again (`Gone`).  The programs meet the steps in one place:
`Commands` shows, command by command, that an output is not yet fresh and its inputs
are, that a command whose failure is passed over adds nothing to what is sure, and where
`|| exit \b` may lead.  `Others` needs only that no two scripts write the same name
(`Owned`) to keep what the other terminals are sure of.  `NothingMisspelt` covers
`build-mac.sh` on a volume that distinguishes case: its lipo finds no input there.
`SideBySideUndisturbed` adds `Steady`: in the scripts that run side by side no command has
failed, and the directory of the library is there once it is made (`Ready`; nothing removes
it).  What a command of theirs needs is then either in place or, being in `Fresh`, as empty
as the configuration, so that one that refuses has none.  The theorem is about one model,
because the property names the configuration of `model.onnx`, and about a volume that does
not distinguish case, because `build-mac.sh` fails on the other kind.

*Only model-checked.*  Liveness (`RetrySucceeds`, `EndsWhenTold`), which needs fairness
and ENABLED, both beyond the prover, and `TablesAgree`, which TLC evaluates.
No module declares a RECURSIVE operator.

## Not modelled

- What the functions of the C interface compute.  `CApi` has their effect on the
  lives of objects; the data are the runtime's.  `GetTrainingApi` and
  `GetBuildInfoString`, which return constants, are left out.
- What provider options say, the flags and functions of the two provider factory
  headers, which no wrapper calls, and the key headers, which are string constants.
  The 8-bit floats: a byte, stored.
- Duties that the C interface's comments lay on the caller and no wrapper enforces:
  an initializer (C 2514), a custom operator and its domain (C 1043, 1058) and a
  container of prepacked weights (C 2816) must outlive their session, a run tag its
  run options (C 1262).  The model takes no position: these objects are owned like
  all others, and that the runtime keeps a pointer to them is not seen in the
  headers' code.
- What a `Logger` suppresses when the level has changed since it was made: the header
  documents that it caches, not what follows from it.  Levels do change in the run.
- What status 0 of `build-win.bat` means after `|| exit \b`: nowhere said.  The
  script is modelled as it runs.
- A view from a temporary (INL 1146) and calls on null views: see `Accessors`.
- The runtime, `build.py`, libtool, lipo, xcodebuild, bin2c: external, modelled by
  what the code relies on.
- When a run in progress looks at the terminate flag: the runtime's decision.

## Plan

Done: all modules above, and proofs of every invariant and action property that the passing
runs check.  What those runs check beyond them is liveness.
