# A TLA+ model of ptx-emulator

ptx-emulator runs CUDA programs without a GPU.  A shared library that is
preloaded into the program replaces the CUDA runtime; the PTX embedded in the
program is parsed and its kernels are interpreted warp by warp, on one thread or
on one OpenMP thread per warp.  While it runs, it can write a profile, which a
Python tool turns into a report.

This directory holds TLA+ modules that model the parts of it whose correctness is
hard to test, TLC configurations that check them on small instances, and proofs
that TLAPS checks for every value of the parameters.  Paths below are relative to
the repository.  `PROJECT.json` records which definition models which lines.

    tlc -config BlockBarrier.cfg BlockBarrier      check a run
    tlapm WarpProofs.tla                           check the proofs of a module

## 1. Inventory

| Component | Code | State | Operations |
|---|---|---|---|
| Kernel launch | `app/runtime/rt_stream.cpp` | current block, first exception, profiling buffers | loop over blocks, parallel region or passes over the warps, rethrow, flush |
| Block barrier | `app/context/block_context.h` | `total_active_`, `arrived_`, `generation_`, a condition variable | `sync`, `warp_done` |
| Warp execution | `executors.tpp` (bra, ret, exit, brx, call), `warp_context.h`, the loop of `rt_stream.cpp` | `pc`, `execution_mask`, `execution_stack` | fetch, convergence pop, branch, return |
| Shared memory | `app/context/block_context.cpp` | arena, symbol table, `shared_mutex_` | register a symbol, look one up, access |
| atom and red | `executors.tpp` | memory | read, compute, write, lane by lane |
| Integer and warp-wide instructions | `executors.tpp`, `instruction.cpp.j2` | registers | one executor each, over the lanes of a warp |
| Loads, stores, floating point | `executors.tpp` | registers, memory | one executor each |
| PTX module | `app/ptx_asm/module.cpp`, `function.cpp` | instruction list, functions, basic blocks | parse, look up by pc or label |
| Grid construction | `global_context.cpp`, `block_context.cpp`, `warp_context.cpp` | contexts, initial registers and masks | `Init` |
| CUDA runtime | `app/runtime/runtime_def.cpp`, `rt_interface.cpp` | interface, streams, functions | register, launch, unregister |
| Profiler | `app/context/profiler.cpp` | file, `launch_counter_`, mutex | `BeginLaunch`, `Flush` |
| Metrics | `profilers.tpp` | none | coalescing, bank conflicts, branch efficiency |
| Code generator | `app/ptx_asm/codegen` | tables | make a pattern and a list of metrics for each instruction |
| Launcher | `app/emulator/main.cpp` | | run a program, return how it ended |
| Report: parsers | `tools/ptx_report/parser.py`, `ptx_parser.py` | records; instructions, files, sources | parse profile, parse PTX, merge, load sources |
| Report: aggregation | `aggregator.py` | rows per launch, function, instruction, line, register | aggregate, annotate, averages, hotspots |
| Report: page | `renderer.py` and the script in it | sections, tabs, grids, highlight and pin | render; navigate, hover, click |
| Report: command line | `__main__.py` | parts, temporary files, exit code | run each binary, extract PTX, write |
| Configuration, logger | `app/utils` | | text in, text out |

How they interact.  The host program calls the runtime, which creates a stream and
calls its `KernelLaunch`.  That builds the contexts, announces the launch to the
profiler and goes through the blocks.  The warps of a block share the block's
barrier and its shared-memory arena, and all of them the program's memory.  A warp
asks the module for the instruction at its `pc`; the instruction changes the warp
and appends a record to the warp's buffer.  After a block the buffers are flushed
to the profiler's file.  The report tool may run the programs itself, through the
launcher; it reads their files, and the PTX, much later, and numbers the
instructions a second time, with patterns of its own.

What is hard about it, and what correctness means:

* *Barrier.*  Threads arrive, leave an older generation and end in any order, the
  condition variable wakes spuriously, and the same counters serve every
  generation.  Nobody may pass before everybody who is still there has arrived, and
  nobody may wait for a warp that is gone.
* *Launch.*  Any warp may throw at any instruction while others wait.  Every launch
  must end, with the first exception or with the whole profile.
* *Sequential build.*  `bar` does nothing; the order in which warps are run has to
  make it a barrier.
* *Divergence.*  The point where paths join is guessed from the direction of
  branches.  Each lane has to follow the program, none may be lost, run twice or be
  on two paths; the stack has to stay small.
* *Shared memory.*  The arena moves when it grows; look-ups take no lock.
* *Atomics.*  A read, a computation and a write have to be one step.
* *Integer instructions.*  Slots of the register file are 64 bits wide and remember
  no type: each executor has to cut, sign, widen and clamp by itself, at every
  boundary, and lanes are executed one by one where PTX means all at once.
* *Profile.*  Headers and records go to one file, perhaps from several host
  threads, and the program may be killed in the middle of one; the reader has to
  attribute each record to its launch, function and block.
* *Report.*  Two parsers of PTX have to agree on every pc; files and functions of
  several binaries have to be kept apart; every sum, row and link of the page has to
  agree with the records; whatever fails has to end the tool without leaving
  anything behind; timers and mouse events come in any order.

## 2. Modules

| Module | Models | Checked by | Proofs |
|---|---|---|---|
| `PhaseBarrier` | what `__syncthreads()` promises (abstract) | as a property of the next two | |
| `BlockBarrier` | `BlockContext`'s barrier | `BlockBarrier.cfg` | `BlockBarrierProofs` |
| `RoundRobin` | the scheduler without OpenMP | `RoundRobin.cfg` | `RoundRobinProofs` |
| `KernelLaunch` | the launch with OpenMP; composes `BlockBarrier` | `KernelLaunch.cfg` | `KernelLaunchProofs` |
| `LaneSemantics` | a program run by each thread for itself (abstract) | as a property of `Warp` | |
| `Warp`, `MCWarp` | one warp and its divergence stack | `Warp.cfg` | `WarpProofs` |
| `MCWarpJoins` | kernels whose paths are joined wrongly | `WarpJoins.cfg` | |
| `SharedMemory`, `MCSharedMemory` | the shared-memory arena | `SharedMemory.cfg` | `SharedMemoryProofs` |
| `AtomicMemory` | memory with atomic requests (abstract) | as a property of `Atomics` | |
| `Atomics`, `MCAtomics` | `atom` and `red` | `Atomics*.cfg` | `AtomicsProofs` |
| `Registers`, `Executors` | register slots; the integer executors as functions | with the next | |
| `PtxMeaning` | what the PTX ISA says of the instructions (abstract) | as a property of the next | |
| `WarpInstructions`, `MCWarpInstructions` | one instruction on one warp | `WarpInstructions.cfg`, `UnlikePtx.cfg` | `WarpInstructionsProofs` |
| `CodeGen` | patterns and metrics that the code generator makes | with `ReportTool` | |
| `PtxText` | the emulator's and the report's parser of PTX | with `ReportTool` | |
| `ProfileStream` | a program under the emulator, its profile, and the parser of it | with `ReportTool` | |
| `Aggregator`, `Renderer` | the report and its page, as functions | with `ReportTool` | |
| `ReportPage` | the page in a browser | with `ReportTool` | `ReportToolProofs` |
| `ReportTool`, `MCReportTool` | the tool from command line to page; composes the six above | `Report.cfg`, `ReportUnlikeDocs.cfg` | `ReportToolProofs` |

Operators whose name ends in an underscore and a word (`SyncWait_NoIncrement`) are
mutants: a definition as a plausible mistake would have it.  `PROJECT.json` pairs
each with a property that fails when it takes the place of the original.  They are
not part of any specification.

### BlockBarrier, PhaseBarrier

A thread's place is `run`, inside `sync()` (`leaving` for the last to arrive,
`blocked` in the wait set, `woken` and about to test the predicate) or `done`.  A
critical section of `mutex_` is one action: `SyncLast` and `SyncWait` are the two
ways through `sync()`, `Recheck` is the predicate of `cv_.wait`, `WarpDone` is
`warp_done()`.  `notify_all` wakes the whole wait set, `SpuriousWake` any member of
it.  `PhaseBarrier` knows only whether a thread is out, in or done, and lets a
thread leave its n-th synchronisation when all others have entered it or are done;
`BlockBarrier` implements it, with its liveness, under the mapping `Phase`.

### RoundRobin

The cursor is the loop variable of `for (auto warp : warps)`, `inside` says that the
inner `while` is running, and a warp is `ready`, `atbar` (it stopped after a bar) or
`over`.  Instructions other than bar and the end are left out.  The module also
implements the safety part of `PhaseBarrier`.

### KernelLaunch

The barrier's variables and actions are those of `BlockBarrier`; around them are the
loop over blocks (`StartBlock`, `EndRegion`, `ReturnNormally`), the iterations of
`#pragma omp parallel for schedule(static, 1)` on a team of `Team` threads
(`StartWarp`), `catch (...)` (`Throw`) and the `WarpDone()` that follows on every
path.  A history variable records the order of the exceptions, another the flushed
buffers.

### Warp, LaneSemantics

The state is the warp's `pc`, `execution_mask` and `execution_stack`, for one of a
set of kernels.  `Converge` is the inner `while` of the interpreter loop; `CondBra`
a predicated branch, whose set of taken lanes is arbitrary; `BraSwap`, `BraMerge`
and `BraJump` the three cases of an unconditional one; `Ret` and `Exit` the others
(`brx` does what `exit` does, `call` what a plain instruction does).
`NoInstruction` is the exception for a `pc` outside the program.  `LanePc` tells
where each lane is, according to mask and stack; `LaneSemantics` is what each lane
ought to do: one instruction after the other, as if it were alone.

Which programs the stack handles is read off their text (`Joinable`): for each
address, the paths that may be saved there (`SavedAt`), the joins that may be ahead
(`JoinsAt`) and the paths that may be pending (`PendingAt`), and for each instruction a
condition on how these change.  The kernels of `Warp.cfg` are joinable, those of
`WarpJoins.cfg` are not; TLC evaluates both.

### SharedMemory

A warp executes its kernel's `.shared` declarations and then takes addresses and
accesses memory.  `Lookup` and `Place` are the two halves of `RegisterSharedSymbol`
under the mutex; `GetSharedPtr`, `GetOffset` and `GetSharedBase` read without it, as
the code does; growing the arena may move it.  Base addresses are versions: each
move makes a new one, and a pointer remembers the version it was computed from.

### Atomics, AtomicMemory

`Issue` starts an instruction for the lanes of its mask; then lane after lane
`Load`s its cell and, in a step of its own, `Store`s what `NewValue` computes.
`OneThread` selects the build: with one thread no other warp is between the two.
Words have `2 * Half` values, so wrap-around and the sign of min and max are real.
`AtomicMemory` executes each request in one step by its definition in the PTX ISA;
bitwise operations are given to both by a table.

### Registers, Executors, PtxMeaning, WarpInstructions

`reg_cast` and `to_u64` are conversions modulo a power of two.  `Executors` has one
operator for each integer executor, from source slots to destination slot, by the
arithmetic the code does.  `PtxMeaning` says with other means what the PTX ISA says
of them: numbers as the two's complement reading of a slot, an upper half as the
number that leaves a remainder in range, the remainder as what some quotient
leaves, bit instructions as sets of positions.  `WarpInstructions` is the loop the
code generator writes: `ExecuteThread` for one active lane, `ExecuteWarp` for vote
and activemask, `Retire` when no lane is left, `Trap` for a division the processor
refuses.  `shfl` reads other lanes' slots in the middle of the loop; the module
implements `PtxMeaning`, where all lanes change in one step.

Two kinds of difference from the ISA are kept apart.  Where an executor gives another
result for an instruction it claims to execute, `PtxMeaning` states the ISA, the
operands concerned are in `UnlikeInstrs` and `UnlikeStarts` of `MCWarpInstructions`, and
the run `unlike_ptx` reports them (section 6); `ScalarStarts` has the others.  Where the
emulator has a simpler instruction altogether, `PtxMeaning` states the emulator's own
promise, so nothing is shown about the ISA: addc, subc and madc take no carry; fns has no
base and no signed offset; szext extends a narrow type; cvt to a narrow signed type leaves
zeros above it; rem by 0 is 0; shfl has no segments and takes its offset whole; vote,
activemask and shfl know no member mask but the active lanes, and a lane whose source is
inactive gets its own value.

### CodeGen, PtxText

A name of a parameter is a sequence of parts, so that `$mask` is a prefix of
`$mask_imm`; a word of a line is its class, and a register's prefix.
`make_regexp` replaces placeholders in the order of the parameters, as the generator
does; `Matches` is the match of a line with the pattern, `ProfilingMetrics` the list
of metrics.  `ISA` has the thirteen entries of `instructions.json` that the programs use
(without brx: a line with its closing brace ends a function, so no program with it loads).

A program's text is a sequence of headers, `.file` lines and functions, whose lines
are labels, `.loc`, `.reg`, instructions, braces, and lines no pattern matches.
`Make` and `FunctionMake` are the emulator's module and functions, with the numbers
of instructions and the starts of basic blocks; `parse_ptx` (with `ParseFunction` and
`ParseLine`, one function and one line of it), `merge_ptx` and `load_sources` are the
report's.  Sets that the Python code
walks are walked in every order.

### ProfileStream

`Start` runs a program under the emulator: it is killed by its own exception if its
text does not load.  Its host threads launch kernels (`BeginLaunch`), whose
warps follow one of the given `Paths`; `Recorded` is what an executor records.
`Flush` appends a buffer (`Lines`), `Torn` is a `Flush` during which the program is
killed, `EndLaunch` and `Exit` end a launch and the program.  A line of the file is a
record of its kind and fields; `RecordLines` are those of one record, with a header
if the block is another.  `ReadLine` is the loop body of `parse_profiling`, and
`ReadAll` the loop from any state on: the tool reads the parts of all runs as one text.
Histories say which launch a record came from and which launches overlapped.

### Aggregator, Renderer

Functions of the records and of the PTX: `aggregate` with its steps (`CountRecord`,
`AnnotateAll`, sums per line, registers, rows from the PTX, averages, hotspots),
`render_html` with the tables, rows and cells of each section and of its split view.
Fractions stay fractions; a cell carries the heading it is meant for.

### ReportPage

The variables are those of the script: the section shown, the tab of each section,
which sections have had their timer set, the timers that have not fired, and the
grids.  `_saInitGrids` is a timer that fires; `onCellMouseOver`, `onCellMouseLeave` and
`onRowClicked` are the handlers of a grid's cells, which can only be called for a grid
that is in view.

### ReportTool

`phase` is where `main` is.  Each action is a stretch of it between two things that
the environment may refuse, and has a disjunct for each way it ends: a file that is
missing, an emulator that returns an error, a profile that cannot be read, a binary
without PTX.  While `main` waits for the emulator, the actions of `ProfileStream`
are the program's.  When the page is opened (`Open`), what made it is forgotten, so
that the states of the page do not multiply with the ways it was made.

## 3. Runs

All runs but those of the report check for deadlock too; every module that can stop
has an action for the only places where it may.  `ReportTool` has none, as the tool
simply ends.

| Run | Instance | What it shows |
|---|---|---|
| `BlockBarrier.cfg` | 3 warps, up to 3 syncs each | counters exact, no lost wakeup, lockstep, implements `PhaseBarrier` with liveness, all threads finish |
| `KernelLaunch.cfg` | 2 blocks of 3 warps, up to 2 syncs each, exceptions anywhere | profile in grid order, first exception, bar is a barrier even so, every launch ends |
| `RoundRobin.cfg` | 3 warps, up to 3 bars each | the sweep invariant, nothing left over, implements `PhaseBarrier`, the block ends |
| `Warp.cfg` | 4 lanes, families of structured kernels, and kernels that stray | lanes follow the program, meet at bar, the stack is disciplined; programs without loops end |
| `WarpJoins.cfg` | four kernels of four lanes | where the divergence stack fails (section 6) |
| `SharedMemory.cfg` | 3 warps, up to 3 declarations | symbols do not overlap or move, unlocked reads are safe, every access hits its own symbol |
| `Atomics.cfg` | 2 warps of 2 lanes, one instruction each out of all | atomic and correct in the single-threaded build |
| `AtomicsOpenMP.cfg` | the same with a thread per warp, `red.add` | an update is lost (section 6) |
| `WarpInstructions.cfg` | every integer instruction, mode and type; 4 lanes | lane by lane is as good as at once, and computes what PTX says, but for the operands of the next |
| `UnlikePtx.cfg` | nine families of instructions and operands | those that do not (section 6) |
| `Report.cfg` | 6 command lines, 7 programs, 2 host threads, up to 3 launches | the profile reads back, is attributed and summed right; both parsers agree; the page adds up; the tool ends properly; the grids appear and mark one line |
| `ReportUnlikeDocs.cfg` | 7 command lines, programs that fail or are run together | where report and documentation differ (section 6) |

Bounds and why they are enough.

* `MaxSyncs`, `MaxIssues`, `MaxUses`, `MaxLaunches`, `MaxRecords`, `MaxSections` cut
  counters the code does not bound.  A barrier has at most two generations alive at once (`Lockstep`),
  so three syncs show a warp leaving the first while another enters the next,
  and one more; three warps allow one to leave, one to wait and one to
  arrive or end.  Proofs cover the rest.
* Four lanes make three nested divergences, with one lane left to each path.  Three
  are not enough: a loop in the fall-through path of an if/else goes wrong only when
  two of its lanes leave it before the last, and the other side has a lane too.  The
  families combine ifs with and without else, loops and
  both ways of falling into a join, up to three nested or successive, around a
  barrier.  The invariants of the stack are proved for every program and every
  number of lanes, what lanes do for every joinable program.
* A PTX word of 32 bits has `N = 4` bits in the runs, one of 64 has 8, of 16 two, of 8
  one, and mul24 takes three: every boundary of a width exists, and all values of
  narrow words are tried, with zeros or copies of the sign above them
  (`Sources`).  Words of 64 bits take values around the bounds (`Bounds64`), lop3
  eight tables.  Bit positions and lengths reach past the word.  `NarrowAddends`
  restricts wide products to addends of the narrow type; this and the other restrictions
  of `ScalarStarts` leave out what `UnlikeStarts` has (section 6).  Four lanes let every butterfly, shift and index happen
  under every mask; offsets do not wrap around the word (`Offsets`).
* Two warps are the fewest that race, two lanes the fewest that follow each other
  in a warp; four values per word have both signs and both overflows.
* Two launches overlap, a third runs alone before or after them.  Flushing stops
  once three records are written; buffers are flushed whole, so a file has up to ten,
  of a warp that leaves a loop at once and of one whose lanes leave it apart.
* The programs of `MCReportTool` have a kernel with source lines, a loop, directives and
  line 0, one without `.loc`, device functions without parameters, two sections with
  their own file 1, none at all, and a line that does not parse; for the documentation,
  shfl with two destinations, atom, red and nanosleep.  The command lines
  give a profile, one binary, two, or one that fails, with and without PTX files and
  sources.  Two sections are enough for a timer that fires in the other one.

Fairness.  `BlockBarrier` and `KernelLaunch` have weak fairness on each thread's own
steps: each is a thread of the operating system, which runs every thread that can
run; the main thread's steps are another.  A thread blocked in the condition variable has no step, and
nothing is assumed of spurious wakeups or exceptions.  The predicate is tested
under the mutex, which is held for a single action, so no strong fairness is
needed for it.  `RoundRobin` and `Warp` are one thread, which goes on while it can.
A warp is assumed to reach its next bar or its end: a kernel that loops for ever, or spins on
another warp's store, is outside `BlockBarrier`, `KernelLaunch` and `RoundRobin`.
`ReportPage` has weak fairness on each timer: the event loop of a browser gets to
every timer that has expired.  Nothing is assumed of the user.
The modules of data (`SharedMemory`, `Atomics`, `WarpInstructions`,
`ProfileStream`) state no liveness; nor does `ReportTool`, whose programs may run
for ever.

`LaunchEnds` is checked for a team as large as the block.  `num_threads` is a
request; with `Team` smaller than `NWarps` a queued warp never starts, as the thread
that would run it is blocked in a barrier that counts the queued warp.  TLC shows
it when `Team` is lowered in `KernelLaunch.cfg`.  The code has no guard against a
smaller team, so callers need `OMP_THREAD_LIMIT` to be large enough.

## 4. Proofs

TLAPS checks these for every value of the constants.

* `BlockBarrierProofs`, for any finite non-empty set of warps: type correctness,
  `CountersExact`, `NoLostWakeup`, `Lockstep`, and that every step implements
  `PhaseBarrier`'s safety.  The four invariants are inductive together and not
  apart: that a departure empties the barrier exactly when it should needs the exact
  counters; that the counters stay exact when a generation is released needs every
  waiter to be of this generation, which is lockstep; and the refinement needs
  lockstep to know that a thread whose generation is over is followed by
  nobody who has not entered it.
* `RoundRobinProofs`, for any number of warps: `Sweep` (the warps the cursor has
  passed are one bar ahead) is inductive with the types and with what a block that
  has ended looks like; from it follow `ReturnsComplete` and the refinement of
  `PhaseBarrier`'s safety.
* `WarpProofs`, for any warp size, any set of programs whose labels resolve, and any
  outcome of predicates: `MaskDiscipline`, `SomeoneWaits`, `StackBounded`,
  `FetchSucceeds`.  The invariant is `TypeOK /\ MaskDiscipline /\ SomeoneWaits /\
  PathsInProgram`.  `StackBounded` follows from the first three by counting: give each
  frame a lane of its own (a saved path any of its lanes, a convergence frame the
  lane that waits there); no two frames share one and the active lanes are
  different again.
  For every set of joinable programs, with any number of lanes: `BarTogether` and
  `LanesFollowProgram`, without the fairness of `Warp`, as `LaneSemantics` has none.
  `MaskDiscipline` says nothing about where frames lie, so the invariant is
  strengthened by `StackNested`: each frame is one that the text places there (a join
  ahead; the path saved last; a pending path, below which none waits for a join), and
  what is below it may be there when it runs.  From it follows that a forward `bra` takes
  the saved path of its own if/else and no other, that the stack is empty when a
  bar is executed, and that `ret` finds no join.  The
  refinement maps a lane to the topmost frame that holds it; one lemma says that a
  lane above whose frames the stack changes stays where it is, and each action then
  moves the lanes it names to a successor of their instruction.
* `WarpInstructionsProofs`, for every width, warp size, set of instructions, mask and
  register file: `Simultaneous`.  The invariant `Swept` says that the lanes before the
  loop's position have their results and the others what they had.  It is
  preserved because no executor writes a source slot and lanes read only source
  slots of each other; what executors compute is not unfolded.
* `KernelLaunchProofs`, for any number of warps and blocks and any team:
  `FlushedInOrder`, `Outcome` and `PassTogether`.  The barrier is a component: the
  proof instantiates `BlockBarrierProofs`, uses its inductive invariant as one conjunct
  and its lemmas for the barrier's steps, and shows that `StartBlock` establishes it
  anew.  The launch adds that a warp's iteration is over exactly when the barrier
  counts it as gone (`Stages`), without which a step of the barrier outside the
  region could not be ruled out, and that `first_ex` is the head of those that threw.
  That the buffers stay in grid order needs a lemma on quotient and remainder.
* `SharedMemoryProofs`, for any number of warps, any declarations and any initial
  size: `Layout`, `UnlockedReadsAreSafe`, `AccessesOwnSymbol`, `SymbolsStay`.  The invariant
  `Order` says that symbols are placed in the order of the declarations and no warp
  is ahead of them; so while one is missing every warp is among its declarations,
  and none holds a pointer, an offset or a base (`Held`) that placing it could spoil.
* `ReportToolProofs`, for any programs, profiles, PTX and command lines:
  `RecordsReadBack`, `Attribution`, `RowsRight` and `PageRight`; `Outcome`, by what main has done in each phase
  (`Progress`); and `Correspondence`, as every grid is at any time what `_doHl` made of it
  for one sid (`Painted`).  For the first two, a profile is the one of its run
  (`PartRead`) if it gives rows that tell of the run's flushed records one by one,
  *whatever state* the parser is in when it comes to it: the parts of several runs
  are read as one text, and each starts where the last one left off.  `Recording` says
  so of the file that is being written, with what makes it inductive: the last
  header is the one of each busy launch, or both overlapped.  It needs lemmas on the
  two loops: what `Profiler::flush` writes of a buffer is read as one row for each
  record (`LinesRead`), also if the last one is torn (`TornKeyed`); and no record names a
  metric twice (`MetricsOnce`), else the parser's dictionary would lose one.
  `RowsRight` follows from these and from what `aggregate` does with any records and any
  PTX (`AggregateCounts`): a row has counted what the records of its launch, function and
  pc add up to, and the sections of a function have together as many issues as it has
  records at a pc.  The first is about one record (`TableStep`): it changes one cell of the
  table, adds nothing elsewhere, and makes a section at most once.  The second needs that
  no section is lost on the way to the page: a sum over a sequence stays the same when it
  is sorted (`SortedTotal`), the pcs of a row are listed once each (`AscendingIs`), and
  rows that are added for directives have counted nothing (`AnnotateAllRows`).  That the
  set of pcs has a largest one, for any text, is a property of the parser that the
  report's own invariant carries along (`ParsedNumbers`, `MergedNumbers`,
  `LoadedNumbers`; `TextsRead`, `ReportMade`).
  `PageRight` is about the page of such a report (`PageMade`).  That the totals are the
  number of records is one more sum over the table (`AggregateTotal`): no two rows of a
  section have a pc in common and every record has a row.  For a section with source
  lines, the lines shown of a file are a set without repetition, whatever the context
  around the linked ones adds (`LinesShownAre`), and each linked instruction is on one of
  them (`PanelLines`); so every issue is in one row of the source grid or, if its
  instruction has no line or line 0, in its own row of the assembly grid
  (`SourceIssues`, `GridSums`, `PanelsAdd`).  The loop over the assembly grid has the
  invariant `GridRows` with `GridSums`: what it has shown of a line so far are the
  instructions of that line so far, below a separator that is the last one there is
  (`LastSeparator`, `PanelsLink`).
* `AtomicsProofs`: type correctness and `Computes` (the switch of `atom` agrees with the
  definitions) unconditionally; `ReadsStayFresh` and `ImplementsAtomicMemory` under
  `Exclusive`, which is: one thread runs all warps, or no two warps use a common
  cell.  `AtomicsOpenMP.cfg` shows that the condition is needed.

Assumptions on constants are named (`...Assumption`) and TLC evaluates them in the
runs above.  Those of `ReportTool` are about what can be read at all: texts and source
files are lists of lines, the line number of a `.loc` is a natural number, and there
are finitely many source files.

Only model-checked:

* Liveness (`AllFinish`, `LaunchEnds`, `BlockEnds`, `Ends`, `GridsAppear`, the fair part of
  `PhaseSpec`), which the prover cannot do.
* `MeaningSpec`, whose operators compute with powers of two of any exponent.  It
  follows from `Simultaneous` for executors that compute what `PtxMeaning` says
  lane by lane, and that, for every word, is arithmetic the backends do not do.
* `Annotated`: what the report takes from the PTX, checked on the reports of
  `MCReportTool`.  It is not true of every program (section 6): the command lines of
  `Report.cfg` are those where the code keeps it, with programs whose instructions have
  one destination, in the first place, or none and are known to have none.

The induction theorems of the library take an operator as a parameter, which the
provers cannot instantiate.  The inductions over sequences in `ReportToolProofs` use the
form with a set (`NatSet`, from the least element of a well-founded order), and
a recursive function for what a loop computes; what is proved of it is the set of
the lengths for which it holds.  Type invariants are checked by the runs where a
proof has one as a theorem.

## 5. Abstractions

* A warp's instructions other than control flow have no effect in `Warp`; predicates
  are arbitrary.  Registers and memory are in the data modules.  So a property of
  `Warp` holds for every data, and a violation may need particular data (the
  kernels of section 6 depend only on the thread index).
* In `Warp` a kernel is a function from addresses to instructions; parsing is in
  `PtxText`, where an instruction is its name and the classes of its words.
* Where the code has undefined behaviour, two readings are kept apart: plain
  memory races between warps are interleaved at the granularity of a read or a
  write (`Atomics`, `SharedMemory`); weak memory orders are not modelled.
* Timestamps and the ids of blocks and warps in the profile are left out.  Values of
  metrics are inputs, in whole percents; directives record nothing, as in the code.
* A profile is cut at the end of a metric or in a name, not inside a number, which the
  parser would read as another number (`Cut`).
* An exception and its entering the critical section are one step (`Throw`), so the first
  exception is the first to enter.
* A source path that is not in `Disk` does not exist; one that exists and cannot be opened,
  for which the code does not look among the provided files, is left out
  (`ReadReferenced`), and so is an empty file (`LinesShown`).
* `onCellMouseLeave` may be called although ag-Grid has no event of that name (its own is
  cellMouseOut): the page has the handler, and the model more behaviours than a browser.
* Names of functions have no characters that an identifier of the page would replace,
  so two functions have two ids; colours, markup and formats are left out.

## 6. Findings

Each is a run that TLC must find violated, against a sentence of the code base.

* `warp_joins`: after an if without else the parts of the warp are never joined, and
  execute a following bar one after the other; in an if/else inside the taken path of
  an if/else, when the lanes agree on the inner condition, the inner join is taken for
  the outer one; lanes that return inside
  the fall-through path become active again at the join; and with a loop in the
  fall-through path, lanes that leave it in different rounds leave a saved path behind
  that the next forward `bra` takes for the other side of the if/else.  Each of the
  four kernels violates the property by itself.
* `atomics_openmp`: with a thread per warp, `red.add` loses updates; the comment on
  `atom` presumes a single thread.
* `unlike_ptx`, against `README.md:3` (PTX is executed, for correctness testing) and the
  comments on the executors; each family violates the property by itself, when `Instrs` is
  set to it.  `WideInstrs`: mad.wide drops the upper half of its addend.
  `Bfind32Instrs`: bfind of 32-bit types is off by 32.  `Bfind64Instrs`: bfind.s64 of -1 is
  0, not 0xFFFFFFFF.  `High24Instrs`: mul24.hi and mad24.hi take bits 32 and up of the
  product of 48, not bits 47 to 16.  `CnotInstrs`: cnot of 0 is a word of ones, not 1.
  `SlctInstrs`: slct selects by "not 0", not by "at least 0".  `ShiftInstrs`: a count of shl
  or shr that is not below the width is taken modulo it by the processor (C++ leaves it
  undefined), not clamped.  `BfeInstrs`: a signed field above the word is 0, not the sign.
  `BmskInstrs`: bmsk.clamp from beyond the word sets bit 31, not nothing.  The emulator's
  pattern for names, `[a-z]+2?` (`function.cpp:69`), reads lop, mul2 and mad2 for lop3, mul24
  and mad24, so no program text reaches these three yet; what is said is of the executors.
* `report_unlike_docs`: the property is a conjunction of what the documentation says,
  and each part is violated when it is checked alone.  `HeadingsFit`: in a hotspot
  table with source lines the heading Src is over the wrong column.
  `FailuresReported`: the launcher returns a wait status as an exit code, so a
  program that returned 1 counts as a success.  `ExecCountIsThreads` and
  `HotspotsSorted`: the columns named Exec Count show issues, not threads, and the
  hotspots are sorted by the latter.  `SectionsOfOneRun`: each run numbers its launches
  from 0, so launches of two binaries become one section.  `Annotated`, with programs
  of two object files and with functions without parameters: one table of files
  serves all sections, and the report numbers functions that the emulator skips.
  `Annotated` again, for the write operations of registers ("total register writes across
  all threads", `renderer.py:995`): of atom no destination is counted (program t), of two
  destinations only the first (s), and of nanosleep a source (u).
  `PatternsAccept`: the placeholder `$mask` is also replaced inside `$mask_imm`, so shfl
  does not accept an immediate mask.

Also met: with shfl.up, a lane that would read from below lane 0 gets predicate 1,
as its own lane is active (the comment can be read either way; the run has no
predicate there); the sums and products of signed types that C++
leaves undefined are taken to wrap.

Also met, and not a disagreement with any text: a small OpenMP team hangs a launch
(section 3); `exit` while another path is saved stops the kernel with "No
instruction at pc"; the arena of shared memory may move under a raw host address
but no modelled access keeps one; launches of two host threads that
overlap are confused with each other in the report, though nothing is lost.

## 7. Not modelled, and the plan

Not modelled for good: configuration and logger are conversions of text without
state; floating-point instructions have no counterpart in TLC; weak memory is out of
reach of interleavings.  Of the launcher only what it returns is modelled, of the code
generator only what it computes.

Planned, in this order:

1. `Runtime`: registration of several fat binaries, streams, launches and
   unregistration as a protocol of the host program; each registration replaces the
   interface with the streams and functions of the one before.
2. `Metrics`: coalescing, bank conflicts and branch efficiency against their
   definitions, and the operands they read after the instruction has run.
3. `prmt`, `ld` and `st` with address computation, for the executors that are left.
4. `Grid`: which thread is in which lane of which warp, partial warps, order of
   blocks; and, above it, a launch that composes grid, scheduler and warps.
5. Programs for `PtxText` with two labels at one address and with functions that do
   not end in ret.
6. Theorems: `Annotated` for programs of one section whose functions have parameters;
   `MeaningSpec` for the executors without shifts and products.
