# jnisafe in TLA+

jnisafe lets Java hold Rust values through `long` handles. It has two halves: a
Rust runtime (`jnisafe/`) whose handle types check every use against a side
table in debug builds, and a static checker (`jnisafe-check/`) that compares the
Java and the Rust side of the JNI boundary and follows handles through Java
bytecode. `example/` shows how a Java class should own a handle.

This directory models those parts in TLA+, checks them with TLC on small
instances, and proves with TLAPS, for every instance, the central invariants of
the runtime, of `NativeObject` and of their composition in `Document`; that the
checker's flow analysis tells the truth about every execution of a method; and that
its report on the boundary is clean when, and only when, the JVM links each native
to a function that agrees, and says of references what the JVM finds. Every definition that stands for code is listed in
`PROJECT.json` under `map` with the lines it translates.

## The system

| component | state | operations | who it interacts with | what is hard | what makes it correct |
|---|---|---|---|---|---|
| runtime: `registry.rs`, `handle.rs`, `traits.rs` | the side table (address to type, owner count, borrow flag); the allocations behind the handles | `register`, `validate`, `deregister`, `begin_mut_guard`, `end_mut_guard`; `from`, `from_raw`, `deref`, `deref_mut`, `borrow_mut`, `clone_arc`, `into_inner`, `into_raw`, `drop` | Java (handles come and go as longs), the allocator, other threads | a check and the use it protects are two steps; addresses are reused; a violation unwinds through a destructor | no reference is lost or counted twice; no bad access under the contract; a correct caller is never accused |
| `NativeObject.java` | the handle field, a `ReentrantReadWriteLock` | constructor, `nativeRead`, `nativeWrite`, `close` | subclasses, native code, callbacks | threads closing under a borrow; callbacks on the same thread; exceptions | a handle in native code is live; writers are alone; freed once; locks given back |
| `Document.java`, `document.rs` | a `NativeObject` over a `Box<String>` | `create`, `get`, `append`, `drop` | both of the above | a handle between owners | keeps the contract of the runtime; nothing leaks |
| checker, flow analysis: `flow.rs`, `cfg.rs`, `code.rs`, lowering in `java_loader.rs` | a frame per instruction, a worklist | lowering of opcodes, transfer and merge, then a reporting pass; checks of declarations | the class loader gives it bytecode | loops, handlers, merges of paths, provenance that goes stale, an effect of one opcode that is off by one | ends; its frames describe every execution of the bytecode; what it reports happens |
| checker, JDK resolution: `lib.rs`, `jdk.rs`, `java_loader.rs` | the queue, the names seen, the models read | the seeds, the closure of the supertypes | the front ends' references; the jmods or the rt.jar of a JDK | cycles, unreadable files, an order that comes out of a hash set, the border between user and JDK classes | the least closed set is read, each class once; it ends |
| checker, boundary comparison: `check.rs`, `ir.rs`, `mangle.rs` | the index of exports, the symbols seen and matched, the report | pairing by mangled symbol, `compare`, lints, lookups in the class hierarchy | both front ends, the models | overloads on two sides that are counted apart, two exports of one symbol, two rules for when handles agree | a clean report means that the JVM links every native to a function that agrees; what agrees is not reported |
| checker, front ends: `rust_loader*.rs`, `java_loader.rs`, `typemap.rs` | none | lowering of syntax and class files | `syn`, `cafebabe` | two front ends that must agree on overloads | symmetric treatment of both sides |
| command line: `cli.rs`, `main.rs`, `diagnostics.rs` | none | options, rendering | the above | nothing | not modelled |

Concurrency is found in the first three rows only; the checker is sequential.

## Modules

| module | models | kind |
|---|---|---|
| `HandleRegistry` | the runtime: side table, handle types, allocator, Java as the environment | detailed |
| `MCHandleRegistry` | instances of it | TLC |
| `HandleRegistryProofs` | type correctness, reference accounting, records and memory, and what makes an access sound, without any discipline; the five properties that hold when the Safety sections are kept | proofs |
| `BorrowCell` | what the class comment of `NativeObject` promises: a cell lent to readers, to one writer, taken once | abstract |
| `NativeObject`, `MCNativeObject` | `NativeObject.java` | detailed; implements `BorrowCell` |
| `NativeObjectProofs` | types, the balance of the lock, one destroy: with callbacks and consuming writes; live handles, the borrow rules and the refinement of `BorrowCell`: without | proofs |
| `Document`, `MCDocument` | `Document.java` over `document.rs`; instances of `NativeObject` and of `HandleRegistry` | composition; implements both |
| `DocumentProofs` | both refinements, no leak, and the safety of handles that follows | proofs |
| `Lowering` | `build_flow_class`, `lower_code`, `classify_op`: from a class file to the instructions that are analysed | operators |
| `FlowDomain` | abstract values, joins, transfer functions and out-edges of the flow analysis | operators |
| `HandleFlow` | the worklist of `analyze_method`, every finding, `@SuppressJni` | detailed |
| `Jvm` | what each instruction of the JVM takes from the stack and leaves there | environment |
| `HandleFlowProofs` | the worklist reaches a solution of the flow equations | proofs |
| `HandleRun` | the bytecode of the analysed method running on a JVM after the analysis | composition with the environment |
| `VerifiedRun` | the class files the JVM's verifier accepts, and what `flow.rs` does not follow | assumptions |
| `OperandProofs` | the lowering and `transfer` have the effect of the JVM on the stack; the shapes of frames; W010 | proofs |
| `HandleRunProofs` | the frames simulate every execution; what is reported is so | proofs |
| `MCHandleFlow` | some 4 070 methods, assembled as javac would | TLC |
| `Mangle` | JNI symbols and the names the macros derive | operators |
| `Ir` | the types both sides are lowered to, the lowerings of single types, `compare` | operators |
| `JavaLoader` | natives, members and annotations of a class file | operators |
| `RustLoader` | exports and references of a crate's functions and macros | operators |
| `Jdk` | where a JDK home keeps its classes | operators |
| `JniLink` | what the JVM links and finds: the reference the checker is measured by | environment |
| `JdkClosure` | which JDK classes are read | abstract |
| `JdkClosureProofs` | the classes read are the least closed set | proofs |
| `Checker` | `run`: resolution, `check`, `check_java_refs` | detailed; implements `JdkClosure` |
| `CheckerProofs` | the refinement of `JdkClosure`, the models, the whole report, that mangling can be read back; then that what is reported of references, slots, handles and links is so | proofs |
| `MCChecker` | some 8 300 projects | TLC |

### HandleRegistry

A *frame* is one handle in native code, from the moment Java passes the `long`
(or Rust makes the value) until it is dropped, returned or lost in a panic. A
frame's `pc` says where in its native it is; `table` is `TABLE` of
`registry.rs`; `heap` the allocator's view of each address; `java` the owned
handles Java may still give up; `rust` the values recovered by `into_inner` or
made by `clone_arc`. A step is one critical section of the table's mutex or one
use of memory, so what can happen between `validate` and the dereference does.
`Pass` and `from_raw` enter; `Deref`, `DerefMut`, `BorrowMut`, `CloneArc` borrow;
`IntoInner` and `DropOwned` consume, in the three steps validate, deregister,
reclaim. A violation ends the frame; one that owns its handle is dropped while
unwinding, and a second violation there aborts.

`Disciplined` selects the environment. TRUE: Java passes handles as the Safety
sections of the `from_raw` functions ask (`Permitted`). FALSE: any handle, stale
or not, as any type and role. Left out: the null handle and `check_align`, which
touch neither table nor memory.

### NativeObject and Document

Each thread has a stack of calls; a call goes lock, check, function (or
destroy), unlock. The lock is the library's: a writer may read, a reader waits
for ever if it asks to write. `Reentrant` lets the function call the objects
again, `Consuming` passes it a native that takes its handle. `BorrowCell` has no
lock, no field and no phases: `Make`, `Lend`, `GiveBack`, `LendMut`,
`GiveBackMut`, `Take`. `Document` is one state machine with the variables of
both, `native` being the frame of each thread's call in Rust; its two refinement
properties check that whatever threads do to documents are steps of
`NativeObject` and steps of `HandleRegistry` with `Disciplined = TRUE`, which is
where the contract proved there gets its user.

### The flow analysis

A *method* is what the class file has: access, descriptors with their pointer
annotations, opcodes at byte offsets with relative jumps, the exception table and
the annotations of locals with their ranges. `Lowering` turns it into what the
analysis sees (`body`): `ClassifyOp` gives each opcode its kind or its effect in
values, `ParamInfos` lays the parameters out in slots, `LocalHandles` keeps the
ranges. `FlowDomain` translates the value lattice and the per-instruction
transfer; a stack entry has a value and a width, as in the code. `HandleFlow` is
the loop: `Visit` pops an instruction and computes what it sends, `Flow` merges
one such frame, `Emit` is the reporting pass with W010, W011 and W013; W014 needs
no frames and is reported first. `members` are the findings about declarations.

`HandleRun` then runs the method, and not from `body` but from its opcodes: a JVM
with assertions enabled (which the analysis assumes by design,
`flow.rs:145-148`), natives that do what their annotations say and that may throw
before or after, parameters that are distinct live handles. A property relates a
finding to the executions that reach its instruction, so a mistake of the lowering
shows as well as one of the analysis. The ghost `moved` remembers which locals
were moved out of on this path, `held` which handles a field has held.

* `Covered`, `AnalysisEnds`: the worklist reaches a solution of the flow equations.
* `OpcodesBalanced`: the effect `classify_op` and `transfer` give an instruction is
  the one it has on the JVM, for the 139 instructions and 7 forms of
  shuffles of `Jvm`.
* `Described`: an execution only reaches instructions the analysis reached, with
  the stack of its frame, entry by entry.
* `ProvenanceIsReal`: a handle said to come from a field is one the field held.
* `UseAfterMoveIsReal`, `AliasIsReal`, `UnannotatedIsReal`: no false E063, E065,
  W010. `OverwriteIsReported`: no store over a handle goes without W012.
* `InScope`: the methods of the run are among those the theorems speak of (Proofs,
  below).

### The boundary check

A *project* is what the command line names: the classes on `--java`, the JDK
home, the crate's files. The two front ends are functions of it and have been
applied in `Init`: `JavaLoader` lowers each native's slots with their pointer
annotations and picks the short or the long symbol; `RustLoader` lowers legacy
`Java_*` functions, `#[jni_mangle]` functions, `native_method!` and
`bind_java_type!`, after a first pass for the wrapper types, and re-mangles
overloads. Names are sequences of characters only where mangling is about
them; a Rust type is the sequence of its idents from the outside in.

`Checker` then runs, one action per iteration of a loop of the code:
`ResolveJdk`/`SkipJdk`, `LoadJdkClass`/`DropJdkClass`, `EndJdk` (the queue of
`load_jdk_models`, from which any class may come next, since the seeds come out
of a HashSet), `IndexExport`, `MatchNative`, `LintExport`, `CheckRef`. A
diagnostic is its code and the positions of what it is about. During resolution
`Checker` implements `JdkClosure`, whose classes are names with supertypes.

`JniLink` says, from the same declarations and without looking at what the
front ends made of them, what happens when the program runs: the function the
JVM calls for a native (a registration, else the short symbol, else the long
one), whether it takes what Java passes, and which member a name and a
descriptor find. It is not code of the repository. Two tables, `Wire` and
`Fits`, say for each Rust type of the instance which descriptor it has and which
Java slots mean the same. The properties compare the report with it:

* `CleanMeansLinked`: no diagnostic about natives and exports (but W003, a lint)
  means each native is linked to one function, with the right receiver and slots,
  and everything the crate registers is a native. It assumes that a `#[jni_mangle]`
  signature next to an overload is right (`HonestSignatures`), and that receivers are
  classes or objects, as others are not compared (`ReceiversKnown`).
* `NoFalseAlarm`: where each native is linked to one function that agrees, and
  nothing else is exported, the report is clean. It assumes javac's own naming and
  an ABI `rust_loader.rs` knows: see `Conventional`.
* `SlotsExact`: the slots reported are those that differ.
* `SymbolsDistinct`: no two natives share a symbol.
* `AcceptedExists`, `MissingIsReal`: a reference accepted is found by the JVM, one
  reported missing is not, in every class graph that can be resolved (`Resolvable`). Part of the
  second is `UnverifiedIsAbsent`: W004 is about the classes that are neither the
  user's nor the JDK's, and about all of them.
* `HandleFieldExact`: a handle field is accepted, warned about or rejected by its
  annotation exactly as `@Ref`, `@Mut`, `@Owned` and `nullable` mean, if it is the one
  field of its name in the class and above it and has one such annotation at most.

All but `SlotsExact` and W004 suppose that a class is given once on `--java` (`ClassesOnce`):
of two, the JVM would load the first.

## Runs

| run | instance | shows |
|---|---|---|
| `registry_contract` | 2 frames, 2 addresses, `Box<X>` and `Arc<Y>`, `MaxRefs` 3, contract kept | `SoundAccess`, `NoFalseAlarm`, `MutIsExclusive`, `GuardFlagExact`, `OwnersAreHandles` |
| `registry_misuse` | the same with `MaxRefs` 2 and any misuse | `TypeOK`, `RefsAccounted`, `RecordDescribesMemory` |
| `registry_one_handle` | 1 frame, any misuse | `SoundAccess`: with one handle in native code the checks are enough |
| `registry_throwable` | 1 frame, 1 address, any misuse | **violated**: a violation is not always a `Throwable` |
| `native_object` | 3 threads, 2 objects, 2 handles, no callbacks | `TypeOK`, `HandlesAreLive`, `BorrowRules`, `ImplementsBorrowCell`, `CallsReturn` |
| `native_object_reentrant` | 2 threads, 2 objects, callbacks to depth 2, consuming writes | `DestroyedOnce`, `LockBalanced` |
| `native_object_consume` | 1 thread, 1 object | **violated**: `HandlesAreLive` when a write consumes the handle |
| `document` | 3 threads, 2 documents, 2 addresses | `NothingLeaks`, `KeepsTheContract`, `IsANativeObject` |
| `flow` | the methods of `MCHandleFlow`, 6 objects | the ten properties above |
| `flow_leak` | two methods that return an owned local | **violated**: the returned handle is reported as leaked |
| `flow_take` | the move-out idiom with a null test | **violated**: a cleared field is reported as not cleared |
| `checker` | the projects of `MCChecker` | the properties above; `ClosureExact`, `ClosureSpec`, `CheckerEnds` |

### Bounds

* Frames, threads: the hazards of the runtime are between two handles (a check
  of one, a free by the other), so two frames suffice to meet them; a third adds
  another thread to the same pairs. Three threads in `NativeObject` allow two
  readers and a waiting writer.
* Addresses and handles: two, so that an address is freed and reused while
  another object lives. Two pointer types, one per smart pointer, so that a
  handle can be of the wrong type.
* `MaxRefs` bounds the strong count of an `Arc`; 3 allows one reference in each
  of table, Rust and transit.
* `MaxDepth` 2: a call and a callback in it.
* `MaxObjects` bounds what a method may create: four parameters, one in the
  field, one created; loops repeat without creating more, and at the bound a
  creating call can still throw.
* The methods have three statements in eighteen shapes; a fourth statement adds
  no kind of merge that two branches and a loop do not have. Their locals and
  parameters have both widths, static methods among them, so that slots and
  offsets differ from indices. Not in the alphabet are the statements for which
  the analysis is known to be wrong (see below). `OpcodesBalanced` does not depend
  on the methods.
* The projects of `checker`: (1) up to two of eight natives against up to two of
  21 exports of every kind the loader knows, in both orders where the class
  overloads, since pairing is a matter of two exports or two overloads; (2) each
  of the Java slots against each of the Rust types, as a parameter and as a
  return; (3) two user and two JDK classes and a missing one, in every class
  graph over them, with five sets of bindings and five kinds of JDK home (none,
  jmods with a foreign file among them, rt.jar, jmods of which none can be opened,
  alone and beside an rt.jar): chains of three, cycles
  over two and both borders between user and JDK classes are among them; (4) one
  field, method or constructor, here or inherited, against one reference.

### Deadlock

Checked in `registry_contract`, `native_object`, `document`. It is off where the
system stops: after an abort or an access that has no defined outcome
(`registry_misuse`, `registry_one_handle`, `registry_throwable`); where a
callback asks for the write lock its thread reads under, which blocks for ever
in Java too, or an object's handle is used up (`native_object_reentrant`,
`native_object_consume`); when a method has returned (the flow runs); and when the checker is done
(`checker`; that it gets there is `CheckerEnds`).

### Fairness

`NativeObject!FairSpec` has weak fairness of each thread's `Proceed`: the JVM
schedules runnable threads, callbacks and `destroy` return. Taking the lock is
part of `Proceed`; under `CallsReturn` threads have stopped making calls, so the
lock is given back by everyone and stays available: weak fairness is enough and
no fairness of the lock is assumed. `HandleRun!RunSpec` has weak fairness of the
analyser's step, a loop in one thread, and `Checker!Spec` of the checker's, which
waits for nobody. Nothing else is assumed to happen.

## Proofs

Constants are assumed finite where they are counted and the null values distinct
(`ConstantsAssumption`, `NativeAssumption`, `DocumentAssumption`), a method's opcodes
are a sequence (`MethodsAssumption`), and class files are what a compiler writes and
the JVM's verifier accepts (the assumptions of `VerifiedRun`, below). What a project
is, and what its names and types mean, is assumed in `Checker` (below). Nothing else
is. The models of the runtime are proved for any
number of frames, addresses and pointer types.

* `TypeCorrect`, `NoDoubleFree`, `NoStaleRecord`: with no discipline at all. The
  type invariant is not inductive alone (`owners - 1` could leave the naturals),
  nor is the accounting (a free is sound only if the record was the
  allocation's), so the inductive invariant `Accounting` is their conjunction
  with what each phase of a frame says of memory. A step changes the sets that
  are counted by at most one frame; lemmas on cardinalities say so once.
* `ContractTheorem` and its corollaries `NeverAccused`, `AccessIsSound`,
  `MutExcludes`, `OwnersCounted`, `FlagIsExact`: under `Disciplined`. The
  inductive invariant `Contract` says, of each address, that its record's owners
  are the handles in Java's hands plus the armed frames, that a mutable borrow is
  the only frame, that a borrowed frame is backed by a handle that stays, and
  where every frame may be. Soundness of access follows from the count: while a
  frame is there the record is, and the record describes the memory.
* `OnlyRacesAreUnsound` and `OneHandleIsSound`: again without discipline. Its invariant
  adds to `Accounting` that what a frame has checked is still so until its last use
  (`Checked`). Stale, mistyped, aliased and copied handles, in any number of frames,
  cannot break it; a frame that deregisters an object which another has just
  validated can. So the theorem supposes `ConsumesAlone` at all times, which says that
  this does not happen, and is trivial of one frame; and that a type is handed out
  behind one smart pointer (`OnePointer`), as a record does not say which.

* `LeastClosure`, with `TypeCorrect` and `ReadOnce` in `JdkClosureProofs`, for any
  class graph, home and bindings. The inductive invariant says that what was
  seen of the JDK is loaded or waits (`FrontierInv`), that a class does not do
  both and was seen (`OnceInv`), that the user's classes are left alone
  (`HomeInv`), and that a closed set already has everything loaded or waiting
  (`LeastInv`); with an empty queue the first and the last make `loaded` the least
  closed set.

* `TypeCorrect`, `LocksBalance`, `DestroyedAtMostOnce` in `NativeObjectProofs`, for
  callbacks to any depth and writes that consume or not. A hold count stays a
  natural number only because the calls account for it (`LockBalanced`), and two
  calls cannot be destroying one object only because a write hold excludes every other
  thread (`Exclusive`) and because the field is null once one does
  (`Destroying`): the inductive invariant `LockInv` is these with the types.
  `DestroyedOnce` is about steps, so that it reaches over the whole life of an object
  without a variable for its history: destroy starts only by a step that takes the
  handle out of the field, a null field stays null, also when destroy throws, and so
  no second start can follow. That `destroy` starts with a handle at all, and not
  on an object that was never constructed, is in `LockInv` (`Made`).
* `HandlesStayLive`, `BorrowRulesHold`, `IsABorrowCell` in the second part of
  `NativeObjectProofs`, each under `~Reentrant` and `~Consuming`, without which the first two are false. `BorrowInv` adds to `LockInv` that a thread is in
  one call, that a handle in a field is alive and in no other field
  (`FieldsOwn`), and that no two calls destroy one handle (`DestroyApart`), since
  a free under a second object would take the first one's value. For the
  refinement each action is shown to be a step of `BorrowCell` or to leave its
  state, readers and writer alone.

* `ContractIsKept`, `DocumentIsANativeObject`, `NoLeak`, `DocumentIsSafe` in
  `DocumentProofs`: the composition. Neither invariant is proved again: the module
  instantiates the two proof modules above, whose constant assumptions become
  `AssumptionsHold`. Their invariants are preserved by a step of `Document` if the
  step is one of `NativeObject` and one of `HandleRegistry`, and that it is follows
  from them and from how they meet (`Fits`: what a thread does in Rust fits its call
  in Java; `JavaHas`: Java has a handle exactly if a field, or a close that has not
  entered `drop` yet, has it). The heart is `LockPermits`: what `HandlesAreLive` and
  the exclusion of the lock say is what `Permitted` asks. In the end the theorems
  of the runtime about programs that keep the contract hold of every program
  that uses only `Document`.

* `NothingIsForgotten`, `EmitsFromASolution` in `HandleFlowProofs`, for any class
  file: any opcodes, jumps, handlers and annotations, well formed or not. Joins are
  idempotent, what is absorbed stays absorbed when more is merged in, and `merge`
  keeps the height of a stack (`MergeAgain`, `MergeMonotonic`, `MergeHeight`); so what
  an instruction sent is in the queue or absorbed for good, and it is visited again
  whenever its frame changes. `Covered` alone does not name the entry frame, nor say that the queues are
  sequences, which taking their heads needs: `IInv` adds both. The emission pass
  then reads a solution. Nothing is asked of the transfer functions, so the theorem
  is about the loop. `JoinOrder` says the order of two joins makes no difference to a value.

* `KeepsHeights`, `EffectsAgree`, `BalancedHolds`, `FramesShaped`, `HeightsAgree`
  in `OperandProofs`, for the class files of `VerifiedRun`. A
  *stack map* gives the widths of the operands before each opcode; `Verified` says
  that each opcode finds its operands and that the map of a successor, or of a
  handler, is what it leaves. The table of the JVM (`Jvm`), the lowering and
  `transfer` are three accounts of one effect: `Balances` and `Classified` compare
  them family by family, `KeepsHeights` puts them together, and by the worklist
  every frame has the shape of the map (`ShapesHold`, inductive with `IInv`). So
  `merge` never meets two heights, and `OpcodesBalanced` holds with no assumption
  on the methods at all.
* `RunInvariant` in `HandleRunProofs`, and from it `FramesDescribe`, `ProvenanceHolds`,
  `UseAfterMoveHolds`, `AliasHolds`, `OverwriteHolds`: a simulation. `Described` is not
  inductive. That a handle loaded from a local is still what the local holds, that
  one marked moved was consumed or left the local on this path, that a token stands
  for the field as it is now, is nowhere in it, and a store, a call or a branch
  needs each. `Rel(r, w, f)` says all this of an execution r and a frame f: what
  each value is (`Says`), which local, field or call it came from last
  (`Identified`; w has the last result of each call), which field held it, and
  whether it was moved. Each instruction takes a related pair to a related pair
  along an edge of the analysis (`StraightStep`, `JumpStep`, `CallStep`,
  `ThrowStep`), and the frame at the end of that edge, having absorbed what was
  sent, says no more (`FrameAbove`): here the solution of `EmitsFromASolution`
  is used. What is reported is then read off the frame: E063 from a value
  marked moved, E065 from two of one identity, and no W012 from a field that
  is `Null`.

  The theorems of `HandleRunProofs` suppose `[]InScope`: at the end, no instruction is
  one the analysis does not follow (`Followed`), and fields hold what they are
  annotated with. Each clause is a limit of `flow.rs` that its name and its line in
  `VerifiedRun` give, and without it a false report or a false frame can be
  written down (most are among the known limits below; `LoadsReference` alone is what
  the verifier's types would say, of which a stack map keeps the widths): a local or a field
  assigned while an operand is still known by it, a copy compared in place of its
  field, a call made again while its last result is in use, a handle stored where
  the annotation says another type. `InScope` speaks of the frames the analysis ends
  with, so it can be read off an analysis; it is an invariant of the run `flow`,
  hence none of the 4 070 methods is outside, loops, handlers, moves and overwrites
  included. The assumptions on constants are evaluated by TLC in the flow
  runs: `VerifiedAssumption` and `CalleesAssumption` (the class files and the
  callees), `NamesAssumption`. Out of `Accepted` are `jsr` and `ret`, the `dup_x` forms, and an
  `invokedynamic` that captures anything but one narrow value, for which the
  lowering is known to be an approximation.

* `CheckInvariance`, `TypeCorrect`, `ImplementsClosure`, `ModelsAreExact`,
  `ReferencesReported`, `UnverifiedExact`, `ReportIsExact`, `SymbolsAreDistinct` in
  `CheckerProofs`, for any project. The
  positions a diagnostic has come from loops over what the front ends lowered, so
  their types need those of the lowering, through `FlattenSeq`: what it makes of a
  sequence of sequences (`Flatten`) is shown by induction over its length. `CheckInv`
  adds to the types that the two sides are what the front ends read (`SidesRead`),
  that the queue works on the home's classes (`QueueInv`), and that the symbols met
  and matched are those of natives and exports (`LoopInv`). For the refinement, every
  iteration of `load_jdk_models` is a step of `JdkClosure` and every other step of
  the checker leaves its variables alone: the seeds, worked out from references in
  the code, are those of `JdkClosure`, worked out from the bindings (`SameSeeds`,
  `ReferencesType`: a binding has a reference if and only if one of its entries parses),
  and what the first readable source has of a class is what the home has of it
  (`ClassBytesExact`). So what `JdkClosureProofs` proves holds of the checker:
  `ClosureExact`. `RefsInv` says of the last loop that the references it has passed are
  reported with the codes of their classes and nothing else; with the models exact,
  W004 means what it says (`UnverifiedIsAbsent`).

  `ReportExact` says the same of the whole report: what each export, native and
  reference is reported for, as a function of what was read, without the loops. Its
  invariant `SideInv` follows the four loops: the index leads from a symbol to the last
  unbroken export of it so far (`IndexInv`), the symbols seen are those of the natives
  passed (`SeenInv`), and the report is what the positions passed have to say
  (`SaidInv`). That W001 looks at symbols matched by the whole second loop, and a pair
  at the index after the whole first, are the places where the order matters.

  `SymbolsDistinct` then comes down to the mangling. A symbol is the mangling of class,
  method and what it takes with slashes between them, one or two (`SymbolIs`). Mangling
  distributes over concatenation (`MangleFacts`), the escape of the first character can
  be told from what follows it (`HeadDecodes`), so by induction over the length what is
  mangled can be read back (`MangleDecodes`), and the slashes cut it into its parts
  (`SlashedLast`, `SlashedFirst`): `SymbolReadBack`. A native is then found at one class
  (`NamesApart`) and one position (`FlattenOrder`), and a short symbol shared by two
  would be that of an overloaded name (`TwoOverload`). What is needed is that no digit
  follows a slash: the mangling of `/1` is that of an underscore. `JavaNamesAssumption`
  says this of identifiers, and that a class has one native of a name and arguments. Of
  the characters escaped by their UTF-16 unit the model has `$` alone.

  `ProjectAssumption` is what these theorems suppose of a project, and TLC evaluates it
  for the projects of the run: what the code keeps in vectors are sequences, classes
  are named by a `ClassName`, a module or jar has each class under its name, and a JDK
  home is as a JDK is laid out (jmods that can be opened or an rt.jar that can, not both; no two
  modules with one class). A home of another layout is read, but which of two
  classes of one name then counts depends on the order the files are listed in.

* `AcceptedIsFound`, `MissingIsMissing`, `CleanIsLinked`, `NoAlarmIsFalse`,
  `SlotsAreExact`, `HandlesAreExact`, in the second half of `CheckerProofs`: the report,
  which `ReportExact` has as a function of what was read, against `JniLink`, which never
  looks at what the front ends made of the declarations. All that both have in common
  is what a single type and a single name mean, and that is assumed:
  `BindingAssumption` and `ExportAssumption` say that the jni crate makes of a Rust name
  what `snake_to_lower_camel` does and of a type the descriptor that `typemap.rs` has,
  and that `compare` finds nothing in one slot exactly if its two types mean the same
  (`Fits`). So the theorems are not about types. They are about reading, overloads,
  pairing, linking and lookups, for any number of classes, natives, exports, macro
  entries and overloads, and TLC evaluates the assumptions on the projects of the run,
  which have every Java slot against every Rust type.

  *References.* What `Hierarchy` looks at after as many rounds as there are classes is
  the least set with the class that is closed upwards (`HierarchyLeast`), and so are the
  JVM's `Ancestors` (`AncestorsLeast`); the model of a name is that of the class the JVM
  has under it (`LookedUp`), and by `ClosureExact` the search stays within the ancestors
  and, where they are `Resolvable`, gets to all (`LookedThrough`). A reference asks for
  the name, the arguments and the result it was written with (`ReadAs`), so each code is
  said of a member that the JVM does not find, and `AcceptedIsFound` and
  `MissingIsMissing` are the two directions. For `HandlesAreExact`, `pointer_matches`,
  which is asked of fields, is `compare`, which is asked of slots (`OneRule`), and a
  field keeps the same annotation as a parameter would if there is one (`SaidOnce`).

  *Exports.* The folds over the properties of a macro's entries leave a declaration with
  all its parts (`FoldKeeps`, `EntryShaped`), which is lowered as it stands, and after
  `resolve_overloads` an export has the long symbol of its Rust types if another has its class and name, else its own
  (`ResolvedAs`). `JavaNamesAssumption` and its counterpart for exports let the symbols
  of both be read back.

  *Clean means linked.* If nothing is reported (`CleanSays`), each native has an export
  of its symbol that agrees (`PairAgrees`), each unbroken export has a native, and
  natives have different symbols. The JVM, however, asks for a registration first, then
  for the short symbol, then for the long one, and what it finds first need not be what
  the checker paired. It is, because whatever it could find is an export too, which has
  a native of its own, and a symbol that can be read back has one native
  (`SymbolShared`, `LinkCases`). That the crate builds, with no symbol defined twice, need
  not be assumed, as the checker reports it; that the receivers are known must be.

  *Linked means clean* (`NoAlarmIsFalse`). Exports that implement one native each
  (`AllImplemented`) are as many as the natives, and the heart is that two sides that count
  overloads apart come to one result: an export shares its class and name with another
  if and only if its native does with another native (`GroupsOverload`). So it is
  looked for under the symbol that it has (`OwnIsLooked`, `ImplementsCalled`), and
  nothing is left to report. Here a class given twice and an ABI that `is_system_abi`
  does not know would be false alarms, and are left out by `ClassesOnce` and
  `Conventional`; the run has neither, and only the proof asked for them.

Model-checked only: liveness and anything with ENABLED (no backend); `InScope`,
which is about the methods of the run and is what the theorems of `HandleRunProofs`
suppose; and `UnannotatedIsReal`, which is false of some class files javac writes (known
limits, below). The library's theorems on induction take an operator, which the provers do
not instantiate. Where an induction over numbers is needed it is made over a set of
numbers (`NatSet`, `LeastNat` in `CheckerProofs`); no module that is proved about is
recursive.

## What the checks found

* `registry.rs:5-6` says a violation becomes a Java `Throwable`. A violation met
  while a `JOwned` is in use unwinds through `JOwned::drop`, which validates the
  same bad handle and panics again: the process aborts (`registry_throwable`).
* `NativeObject.java:21-23` allows `nativeWrite` to pass the handle to an
  `@Owned` native, but nothing can clear the private field, and the next call
  passes a freed handle on (`native_object_consume`).
* `flow.rs:630-631` says a leaked handle was never returned; the handle being
  returned is still a live local and is reported (`flow_leak`).
* `flow.rs:994-996` asks to clear the field before consuming; when the copy is
  then tested against 0 the field counts as live again (`flow_take`).

Known limits that the passing runs are built to stay clear of, none of which is
claimed:

* Two frames over one object outside the contract: one validates, the other
  frees, the first dereferences. By `OnlyRacesAreUnsound` this and the next are the only ways in which
  `SoundAccess` fails; `registry.rs:4-5` ("before any unsafe dereference") reads stronger.
* A record keeps the pointee's type, not the smart pointer: with both `Box<T>`
  and `Arc<T>` of one `T` exported, one is accepted as the other
  (`registry.rs:84`). The instances have one smart pointer per pointee.
* `begin_mut_guard` locks twice and its comment (`registry.rs:127`) says the
  record exists the second time; outside the contract it may be gone.
* Callbacks: the lock is reentrant, so a function under `nativeWrite` may read,
  write or close the same object; `BorrowRules` is checked without callbacks and says nothing of them,
  `DestroyedOnce` and `LockBalanced` with.
* The flow analysis keeps the identity of a local on the operand stack after the
  local is assigned (`m(x, x = create(), x)`), does not type-check or move what
  is stored into a field, gives a `@Ref` handle to an `@Owned` parameter without
  a word, and takes `x == 0` for a test of the field `x` was read from even when
  the field was assigned since. Methods of these kinds are not in `MCMethods`.
* `invokedynamic` is lowered to nothing (`java_loader.rs:903-907` says so): the
  captured operands stay in place of the result. The stack is only balanced if one
  value is captured, so in `k > 0 ? () -> {} : null` the two paths meet with
  different heights, which `flow.rs:300-301` excludes, and `merge` drops the later
  one with whatever it knew of locals. The methods of the run capture one int.
* The `dup_x` forms push a copy of the top in place of theirs (`flow.rs:850-852`):
  `y = this.f = create()` is then a store of another operand. Only assignments that
  need no such form are in the methods.
* W010 looks for an annotation of a local variable; the annotations of a parameter
  are elsewhere in the class file, so a handle assigned to an annotated parameter is
  reported. So is a store that ends the scope of its local, as the next
  instruction lies outside the range. `UnannotatedIsReal` speaks of locals only, and
  those of the run's methods stay in scope to the end.
* A field annotated `@Ref` or `@Mut` is tracked like an owned one: it gets W012 when
  it is assigned twice (`flow.rs:34-39`, where the comment says "owned").
* Resolution reads the supertypes of bound user classes only: a bound class that
  extends another class of the user's that extends a JDK class has its inherited
  members reported missing (E040), against `lib.rs:86-89`; so has one that extends
  a JDK class when there is no JDK home, where `lib.rs:72-73` speaks of W004.
  `Resolvable` names these cases.
* `split_top_level_commas` splits `-> JOwned<Map<K, V>>` of a macro entry at the
  comma, against its comment (`macros.rs:746-748`); the entry is dropped and the
  native is reported as E001. The project `fMap` with `macroMap` has it.
* `resolve_overloads` replaces the symbol of a `#[jni_mangle]` function by one made
  from its Rust types, so an explicit signature is checked by nobody; and an
  overload without a signature is exported under the short symbol, which the JVM
  tries first for any of the overloads (`HonestSignatures`).
* An `@Ignore`d overload counts as an overload (`java_loader.rs:222-227`) though
  javac gives the other one the long name in its header only; a crate that uses
  the short one works and is reported. A crate that implements one overload by a
  `Java_*` function and another by a macro is reported too (`Conventional`).
* Two pointer annotations on one slot: the last counts on a method, the first on
  a field, nothing is said. Two classes of one name on `--java`: the first gives the
  seeds, the last the members. Two wrappers of one name: the last file's.
* A receiver that is neither a class nor an object (`JString`) is not compared
  (`check.rs:505`). A `Java_*` function with an ABI other than `"system"`, `"C"` and the
  bare `extern`, such as `"C-unwind"`, is reported W002 though the JVM can call it.
* `-> ()` of a plain function is an unsupported type, in a macro it is void.
* A reference with a type that has no descriptor is accepted by name, and
  reported nowhere, against the comment at `check.rs:270-271`.
* The class hierarchy is one set of members: a field that is shadowed counts as
  well as the one that shadows it, and a static method of an interface as
  inherited. The instances have neither.
* `macros.rs:11-12` still calls overloaded methods a gap of the macros;
  `resolve_overloads` supports them, and so do the models.
* `array_of` says a handle has no array; the code makes it `[J` (`typemap.rs:85`).

## Not modelled

Of the runtime: `Display`/`Debug`, release builds (the table is compiled out).
Of the flow analysis: source locations, the tables of lines and of local names, and
wording. Of the front ends: reading and parsing files (`syn` and `cafebabe` do it),
entries that do not parse (they are dropped), the members of `@SuppressJni` as
annotations. The command line, rendering and the annotations' declarations are not
modelled.

## Plan

1. `HandleRegistry` with its contract, checked and proved: done.
2. `NativeObject` refining `BorrowCell`; `Document` refining both: done.
3. `Lowering`, `FlowDomain`, `HandleFlow`, `Jvm`, `HandleRun`, the join laws and
   `Covered` for every method; that one transfer step describes one step of `Jvm`,
   and the simulation that follows: done. Next for them: that frames only grow and are
   finitely many, from which `AnalysisEnds` follows outside the prover.
4. `JdkClosure` and its proofs; `Mangle`, `Ir`, `JavaLoader`, `RustLoader`, `Jdk`,
   `JniLink`, and `Checker` over them: done, and that `Checker` implements
   `JdkClosure`, with its types, the whole report, that symbols are distinct, and that
   what is reported of natives, exports and references is so, for any project.
5. Proofs of `NativeObject` and that it implements `BorrowCell`; that `Document`
   implements `NativeObject` and `HandleRegistry` and loses nothing: done; so is
   item 1 for callers who do not keep the contract (`OnlyRacesAreUnsound`).
