# picoJava-II: TLA+ models of the instruction accurate simulator and the core

This directory holds TLA+ models of picoJava-II, the TLC configurations that
check them on small instances and proofs that TLAPS checks for every instance.
The repository contains the Verilog of the processor core (`design/`), its
simulation environment (`sim/`), and the software around it (`tools/`), above
all the instruction accurate simulator, IAS (`tools/iam`, `tools/cache`,
`tools/ldr`), which is the reference the RTL is compared with. Paths below are
relative to the root of the source tree.

## Inventory

### The instruction accurate simulator

| part | state | operations | with whom | what is hard, and what must hold |
|---|---|---|---|---|
| Main loop, `tools/iam/src/iam.c` | `icount`, PC, `bPowerDownState`, breakpoint flags | one iteration: scheduled interrupts, pins, power-down, fetch, execute, exceptions, `icount++` | everything | the order of the tests of one iteration; every `continue` in front of `icount++` |
| Interrupt scheduler, `interrupts.c` | table `intrs`, `last_intr_set`, the cached next interrupt | `intr`, `intr repeat`, `intr disable`, `intr list`, dispatch | main loop (equality test on `icount`), pins, NMI, EOI mailbox, reset | the cached next interrupt must be the earliest of the table after every command and dispatch; none may be passed over |
| Exceptions and traps, `exception.c`, `traps.c` | one pending exception with the saved registers, the trap table | set up, override by priority, despatch at the end of the instruction, build the trap frame | memory accesses, OPTOP updates | an instruction goes on after its first exception, and its later effects must not count |
| Stack cache and OPTOP, `scache.c`, `global_regs.c` | 64 words, SC_BOTTOM, OPTOP, marks in PSR, OPLIM | dribble, overflow, underflow at each update of OPTOP | stack accesses, data cache, traps, debugger | no live word is lost or exchanged; offsets from OPTOP always hit; the stack limit |
| Data cache, `tools/cache/src/cache.c` | two ways of lines with tag, valid and dirty bits, LRU | load, store, store without allocation, flush, index flush, invalidate, zero line, diagnostic accesses | memory model, exceptions, I-cache (flush) | what the program stores is never lost; failing write-backs and refills |
| Instruction cache, the same file | lines with tag and valid bit | fetch, flush, diagnostic accesses | D-cache flush instructions | fetches what was flushed |
| Memory accesses, `javamem.c` | none | `javaMemRead`, `javaMemWrite` with an access type that selects S$, D$ or memory, protection, breakpoints | all of the above | the order of the checks; writes dropped after an exception |
| Memory model, `tools/ldr/src/cm.c` | common and scratch memory, mailboxes | read, write, trap-frame mailboxes, counter | loader, simulator, RTL simulation | which addresses exist |
| Simulator breakpoints, `breakpoints.c` | table, ignore counts, counters | add, enable, disable, match | fetch and memory accesses | the counters against the table |
| Checkpoint, `checkpoint.c` and a hook in each module | files of one checkpoint | query, save, restart | every module's state | each module must save what it needs and rebuild what it does not |
| Instruction set, `jvm_ops.c`, `ext_ops.c`, `global_regs.c` | the registers, stack and memory | one function per instruction | memory accesses, exceptions | an instruction that traps half way is executed again from its start: it must not have destroyed what it needs |
| Objects, arrays, monitors, `object_ops.c`, `array_ops.c` | `lockAddr`, `lockCount`, the object's header | fields, arrays, calls, class checks, monitorenter, monitorexit | traps for everything not quick | the two lock registers against the header; handles; several accesses, each of which may fault |
| Debugger, `gdb_interface.c` | registers, memory through the caches | read, write, step, continue | caches, breakpoints | writes behind the caches |
| Loader, `tools/ldr/src` | `binclasses`, the class and hash tables and class structures in memory, the trap table | load a class with its superclasses, lay it out, copy it, fix up headers, boot | memory model | recursion on superclasses, files missing or bad half way, headers written before the class they name is known |
| Profiler, `profiler.c` | profiles, each with a stack of frames and a table of entry points | create, reset, freeze, switch, close; enter and leave a function | main loop, calls, returns, traps | a profile sees returns of calls it never saw; recursion counted once |
| Statistics, tracing, display | counters, files | record | main loop | none that changes the program's state |
| Serial port and other mailboxes | a file, flags | read, write | memory model | none |
| Command language, `tools/sim/src` | Tcl commands | set-up of the above | all | argument checks |

### The core (Verilog)

| part | state | operations | what is hard, and what must hold |
|---|---|---|---|
| BIU, `design/biu/rtl` | owner of the bus, outstanding request | arbitration between I-cache and D-cache unit, bus requests | one owner, no request lost, neither unit starves |
| DCU, `design/dcu/rtl` | miss, zero-line and write-back state machines, write buffer | loads, stores, dribbler accesses, flushes | a write-back in the buffer against a later access to its line; errors |
| ICU, `design/icu/rtl` | fill state machine, instruction buffer | fetch, fill, flush | critical word first, a branch during a fill |
| SMU, `design/smu/rtl` | stack cache, SC_BOTTOM, marks | background dribbling, overflow, underflow, holding the pipe | the same promises as the IAS stack cache, with dribbles that run behind the pipe |
| IU, `design/iu` (IFU, RCU, EX, pipe, ucode) | pipeline registers, microcode PC, trap state | folding, hazards, traps, microcode | precise traps, interlocks |
| FPU, `design/fpu` | microcode, datapath | IEEE arithmetic | arithmetic, not behaviour |
| PCSU, `design/pcsu/rtl` | stand-by state machine, reset | power-down, wake-up | no wake-up lost |
| Memory controller of the test bench, `sim/env/memc.v` | FIFO of requests | acknowledge, errors | answers match requests |
| Monitors, co-simulation, `sim/env`, `tools/tam`, `tools/verilog` | traces | compare RTL with IAS | none of the core's own state |

Also in the tree: tests (`sim/test`), the trap handlers in assembly
(`tools/traps`), a Java assembler and disassembler (`tools/jasm`, `tools/jdis`),
synthesis scripts, documents (`docs/html`).

`PROJECT.json` lists every one of these components with its status, the lines every
definition stands for, and the hazards found while reading, each with its line and
the properties that would catch it going wrong.

## Modules

| module | models | state and actions |
|---|---|---|
| `Interrupts` | the interrupt scheduler, the interrupt part of the main loop, pins, EOI, power-down | one action per command and one per kind of iteration of `executeBytecode`; variables have the names of the C variables |
| `Checkpoint` | extends `Interrupts` by `checkpoint.c`: the items of seven modules in one file, which may end anywhere, restarts in the same or a new process, and the cache sizes that go with it | `file` is how many items it has and what they hold; `mixed` and `size_cut` remember a restart that failed |
| `AbstractMemory` | what the data cache promises: what the program sees (`ram`) and what memory keeps (`kept`) | |
| `DataCache` | the D$ of `cache.c`, the memory accesses of `javamem.c` that use it, the cache instructions of `ext_ops.c`, a debugger write | `dCacheSelect`, `Refill`, `WrittenBack` are operators on one set; one action per access or instruction; `eid` is the pending exception, `CheckExceptions` the end of the instruction |
| `Caches` | extends `DataCache` by the I$: fetch, and what every flush does to both caches | `stale` is a history variable: code words stored into and not flushed since |
| `OperandStacks` | what the stack cache promises: two operand stacks whose live words keep their values | |
| `StackCache` | the stack cache, OPTOP, OPLIM, calls, returns, traps, changes of stack | an instruction is one action, a composition of operators on the processor record `cpu` that follow the C calls (`vUpdateSCache`, `vUpdateOptop`, `invoke_trap`) in their order |
| `Machine` | registers, memory accesses of every type, exceptions by priority, trap entry, protection, hardware breakpoints | no variables: a state is one record `m`, what the simulator does is a function of it |
| `ObjectOps`, `Bytecodes`, `ExtendedOps` | `object_ops.c` and `array_ops.c`; `jvm_ops.c`; `ext_ops.c` and the register instructions of `global_regs.c` | one operator per family of opcodes, from machines to machines |
| `Instructions` | `executeBytecode` with programs and their trap handlers while interrupts arrive | actions `AcceptInterrupt`, `PoweredDown`, `FetchFault`, `Interpret`, `vSetInterrupt`; `ideal` is the undisturbed machine that runs beside |
| `Loader` | `loadClassFile` with superclasses, layout, copying, fixing up, class tables, `loadTrapHandlers`, init files | `loading` is the stack of activations of `loadClassFile`; one action per way an activation goes on or ends |
| `Profiler` | `profiler.c` | `profiles` is the table with stacks and counts, `current` the one fed |
| `Debugger` | `breakpoints.c`, the run between `sim_resume` or a Tcl command and its end, Ctrl-C, gdb's patched instructions | `brkpts` and `nbrkpts_enabled` as in C, `sim` the flags of the run; one action per reason a turn of the loop has to stop, and one per command |
| `MCStackCache`, `MCProfiler`, `MCLoader`, `MCMachine`, `MCInstructions`, `MCObjects` | | values for TLC; the last three are an assembler, trap handlers and programs |
| `InstructionsProofs`, `CheckpointProofs`, `DataCacheProofs`, `CachesProofs`, `DebuggerProofs`, `StackCacheProofs`, `ProfilerProofs`, `LoaderProofs` | | theorems |

How they are composed: `Checkpoint` extends `Interrupts`, `Caches` extends
`DataCache`, `Instructions` extends `ExtendedOps`, `Bytecodes`, `ObjectOps` and
`Machine`. `DataCache` implements `AbstractMemory` (`ImplementsMemory`), and `StackCache`
implements `OperandStacks` (`ImplementsStack`); these two refinements are what lets
the modules above them leave things out. The memory under `StackCache` is a plain
function because the data cache is a memory. `Machine` has neither data cache nor
dribbler, so that its stack cache is a window of fixed place.

The simulator is a sequential program. What interleaves with it is the user, the
program, the pins, the debugger, the time of interrupts, the disk, the files of
classes: these are actions in any order. The granularity is that of the
simulator's own loop, and within an instruction the order of its accesses is that of
the code, because each of them can fault.

### How instructions are written

`Machine` defines the accesses an instruction is made of (`javaMemRead`,
`javaMemWrite`, `vUpdateGR`, ...) as functions from machines to machines. A read
returns `[m, v]`, and `Then(result, LAMBDA r : ...)` names a result for the rest, as a
local variable of the C code does. Like the code, an instruction goes on after its first
exception: the exception is in `m.exc` with the registers it saved, later writes are
refused, later reads return junk, and the end of the instruction
(`vDespatchPendingException`) puts the saved registers back and enters the trap.

`DataCache`, `StackCache` carry a history variable `op`: what the access or
instruction of the last step was, with its address and the value it read or wrote.
The abstract specifications read it too, so the refinement says more than that
memory changes only in some way: this load returned what was stored last to its
address, this store arrived at its own address, this step was the
`cache_invalidate` that may discard a line. A step reads only `op'`, so it has no
influence on later behaviour, and the runs leave it out of TLC's state
fingerprint (`VIEW`).

`Instructions` compares two machines. `m` is the one with a stack limit, breakpoints,
protected memory and interrupts; `ideal` has none of them. When `m` has completed an
instruction (with the trap that belongs to it, such as the emulation of `lmul`),
`ideal` does the same instruction. `TrapsTransparent` says that their `View`s agree
whenever the program runs: registers, the words of the stack as the debugger reads
them, and the heap. `waits` counts the iterations that complete nothing.

### Abstractions

* Interrupts: a table of `MaxIntrs` slots and one behind it, so that the write
  behind the array is visible; the model stops there. Time ends at `MaxIcount`.
* Checkpoint: the contents of items without structure (`Parts`) are a number; a whole
  file is one whose last item was written. Registers other than PSR and HCR are one
  part. Of the two caches the I$ is modelled, since both are written alike. The table that an
  unsuccessful restart leaves behind (`mixed`) is that of C, with whatever
  was read.
* Caches: an address is the number of a word; bytes and shorts are accesses to
  their word. A line of memory exists as a whole or not at all. The program uses
  a word either with cached or with nc accesses (docs of the instructions), set
  by `Uncached`. Only words of `Watched` are written with more than 0 (the caches
  move words and never look at them). Diagnostic tag writes clear tags only, as the
  reset code does; diagnostic data writes are left out. `ISets > 0`.
* Stack cache: `SCACHE_SIZE`, marks, and the frames are scaled down together;
  `StackCacheAssumption` keeps the proportions the code relies on (a trap or
  method frame fits beside a full spill mark, a fill mark covers the offsets from
  OPTOP, at least two of them: the marks of the PSR are multiples of 8 words). The dribbler is on after the reset code, the fill mark is not 0 and not
  above the spill mark, ordinary loads and stores stay off the stack, and
  `priv_write_sc_bottom` is not used. The two stacks lie further
  apart than the stack cache reaches (`Gap`). The four reads of a return's frame
  are one read. `Watched` words take all values, other words only 0: the
  code moves words and never looks at them, so mixing two words up shows as soon
  as one of them can differ.
* Machine: a word has four bytes of four bits, 16 bits in all, because TLC's
  integers have 31 bits and products of words are needed. Masks keep their shape: the
  two top bits of an address are dropped, one bit says little endian, two non-cacheable,
  the top bit of OPLIM enables it. Sign extension, shifts, carries and
  overflow are those of the narrow word. Code is decoded (`Code`). The values of floating point
  operations are a function of their operands (`Fp`); which operation
  reads and writes how many words, and what happens to NaN and without an FPU, is the
  code's. Not in the model: the value of registers `hcr`, `versionid` and the
  tag and data words of cache diagnostics.
* Trap handlers (`MCMachine`): programs that do what the code relies on
  (`tools/traps`): return with `priv_ret_from_trap`, raise the limit, lift the
  protection or the breakpoint, clear the interrupt, step over the emulated
  instruction, or stop.
* Objects: the heap is laid out by the constants as the loader does.
* Loader: a class file is its fields, methods and superclass; parsing it succeeds or
  fails. A class takes `Footprint` words. `LoaderAssumption`: superclass chains have no
  cycles (with one the code recurses for ever), a class file has no two methods of one
  signature (the format rules it out, the code does not look), and each handler class of
  `loadTrapHandlers` serves a trap of its own. Quickening at load time and the
  wrapper of synchronized methods, `copy.c`'s encodings of names, are left out.
* Profiler: blocks are their entry points; where the program counter is at a return
  is chosen freely.
* Debugger: the program is any program: an instruction goes anywhere and touches at
  most one location. Interrupts and power-down are turns that execute nothing.

## Runs

| run | question | bounds, and why they are enough |
|---|---|---|
| `interrupts_schedule` | is the cached schedule right after every step, is an interrupt ever passed over, does every one-shot interrupt fire or get disabled | 2 slots, NMI and one level, counts up to 2, 3 instructions: two interrupts in every order, with ties, repeats and disables |
| `datacache_memory` | D$ as memory, one copy of a line, clean lines, faults | two sets; in one, three lines, one of them without memory, for its two ways: hits, clean and dirty evictions, failed write-backs and refills; in the other, words of nc use, one of them without memory; PSR.AEM and PSR.DCE change |
| `caches_flush` | is flushed code what is fetched | one set of D$ lines of two words, I$ lines half as long that collide, one line without memory, PSR.AEM off |
| `stackcache_limits` | hits, limits and transparency with two stacks, settings of the marks and two limits | 6 slots, stacks of 8 words: overflow, underflow, wrap-around of the slots and frames beyond the limit all happen |
| `stackcache_breakpoint` | a disagreement with `docs/html/scache.html` | as small as shows it |
| `instructions` | do traps stay invisible to the program, do calls return, do stack instructions do what they mean, is the limit kept, is user mode left only by traps, do handlers end | seven programs that execute every family of opcodes once, every stack limit inside the program's own stack (4 to 26 words), a breakpoint on each heap word and on an instruction of each, protection, user and supervisor mode, and one NMI or interrupt of level 3 before any instruction, nested in any handler; 16 instructions of a handler and 32 iterations without progress are more than the handlers and their nesting need, which `TrapsEnd` checks |
| `objects` | the same for instructions of several accesses; monitors; array stores | objects with and without handles, arrays of words, bytes, shorts, longs and references, virtual, super and non-virtual calls, and a monitor whose count starts at each of the values where it over- or underflows; limits and breakpoints inside each; one NMI |
| `profiler` | does each instruction count once | two methods that may recurse into each other and one block, at most 3 entries, 2 instructions and 2 unmatched returns; methods are symmetric |
| `debugger` | is the count that switches matching off right; does a run stop where it must | two entries, two addresses, ignore counts and steps up to 1, runs of 2 instructions: two entries at one address in both orders, one of them ignored or disabled |
| `loader` | are layouts, vectors, headers and tables right, whatever fails | 8 classes with a subclass two levels down, up to three system files missing, user files missing or bad, repaired at any time, memory that fits all but one |
| `checkpoint` | does a restart bring back what was saved, does the cache geometry stay consistent | one slot and one behind it, one count, two cache sizes (one of them none), two parts, two checkpoints with any number of restarts and new processes between: the file cut at each of its items, restarted in the process that wrote it and in a new one |
| `checkpoint_interrupts` | a disagreement with `docs/html/checkpoint.html` | as small as shows it |

Every property of a passing run has a seeded fault of the code in its module
(`X_Fault`), with which its run fails; `PROJECT.json` pairs them.

Configurations kept beside them, each for one statement of the documentation, a
comment, or the obvious reading of an instruction that the code does not keep:
`Interrupts_ties`, `Interrupts_slots`, `Interrupts_powerdown`, `Caches_nodcache`,
`StackCache_debugger`, `MCOplim` (module `MCInstructions`), `MCHandle` (`MCObjects`),
`MCUnderflow` (`MCProfiler`), `DebuggerEnd` (`Debugger`), `MCBinit` (`MCLoader`). TLC reports a
violation for each. `StackCache_copies` (`MCStackCache`) is a further instance of
`ImplementsStack` with two watched words, and passes.

### Fairness

`FairSpec` of `Interrupts` is weak fairness of `executeBytecode`: the loop of the
simulator runs until the instruction limit and waits for nobody. Commands of the
user, values of PSR and power-down get no fairness. Everything else is sequential code
that never waits, for which no liveness is stated. That trap handlers come to an end is stated
as an invariant on a counter (`TrapsEnd`) and so needs no fairness.

### Deadlock

Deadlock is checked for `DataCache`, `Caches` and `StackCache`, which have no end.
`CHECK_DEADLOCK FALSE` is used where the system stops: `Interrupts` and `Checkpoint` at
`MaxIcount` (`nMaxInstructions`, where the simulator exits) or behind the write behind the
table; `Instructions` at `end_of_simulation`; `Debugger` at its instruction limit; `Profiler` when its
bounds are reached; `Loader` where the code would go on with uninitialised
memory (`ReadsGarbage`).

## Where the code and its documents or comments disagree

Checked by a run or a configuration:

* A data breakpoint hit by the dribbler replaces a stack word by garbage
  (`stackcache_breakpoint`; `javamem.c:222`).
* A restart does not schedule the next interrupt, so one set up before the checkpoint
  is passed over in a new process (`checkpoint_interrupts`; `interrupts.c:276`).
* A dispatch disables only the first of several one-shot interrupts due together;
  another of them then blocks the schedule for ever (`Interrupts_ties`).
* The 1,001st interrupt is written behind the table (`Interrupts_slots`).
* Time stands still in power-down, so a scheduled interrupt never ends it
  (`Interrupts_powerdown`).
* Without a data cache, flushes never reach the instruction cache
  (`Caches_nodcache`).
* A debugger write to a word in the stack cache is lost (`StackCache_debugger`).
* `f2d`, `i2d`, `f2l` and `getfield2_quick` write their result before they update OPTOP:
  an OPLIM trap finds the operand destroyed (`MCOplim`).
* `aastore_quick` masks the handle bit away before it tests it, so that a store into an array behind
  a handle goes to the handle (`MCHandle`).
* Leaving more blocks than were entered loses instructions of a profile
  (`MCUnderflow`).
* When the program ends in the instruction where Ctrl-C arrives, or that a breakpoint matches,
  gdb is not told that it ended (`DebuggerEnd`).
* `A.binit` is never read when a class A is loaded (`MCBinit`).

Met while modelling, in the models as they are in the code, outside what the properties
claim:

* `do64bArrayLoad` writes the first word over the index before it reads the second;
  `returns` and `priv_ret_from_trap` set the PC before the last read of the frame;
  `doMonitorEnter` leaves the lock registers changed when reading the header faults.
* The mailboxes for EOI and end of simulation act even when the store faulted or came from
  user mode. Reads for the trace record can raise exceptions. An exception while a
  trap frame is written is lost. `priv_update_optop` saves the new OPTOP when it traps.
* A checkpoint does not hold power-down and the pins. With a cache switched off the count
  of its lines is written as -1, so such a checkpoint is never whole. A file cut between the two
  cache sizes leaves sizes and counts that disagree (`size_cut`).
* `brkpt_add` looks for a duplicate by matching, which counts ignore counts down; enabling
  twice counts twice (`miscounted`); the limit is compared with the enabled
  breakpoints but the index is the number set. Turns without an instruction count steps and
  ignore counts down.
* END_ADDRESS1 is never matched; `causes_mem_prot_error` is called with one argument
  by `zero_line` and `cache_invalidate`.
* A class whose superclass failed to load stays in `binclasses`, counts as loaded the next time and makes
  its subclasses read memory never written (`ReadsGarbage`); a boot order
  other than `loadTrapHandlers`' leaves headers at zero; a full class table only warns; `cmMalloc`'s
  NULL is not looked at.
* A profile deeper than `PROFILER_MAX_CALL_STACK_DEPTH` writes behind its stack; `Program` is not marked as on the stack
  after a reset.

## Proofs

Proved by TLAPS for every value of the constants that the named assumptions allow.

`CheckpointProofs`, first for `Interrupts` (`InterruptsAssumption`: any table size,
counts, levels and instruction limit):

* `TypeCorrect`: `Spec => []TypeOK`. Not inductive alone: the pins take the level
  of slot `next_intr_id`, which must be a slot in use, so the induction is on
  `TypeOK /\ ScheduleIsEarliest`.
* `ScheduleCorrect`: `Spec => []ScheduleIsEarliest`. Each command and dispatch
  ends in `intr_schedule_next`, whose result is characterised in `ScheduleTyped` and
  `ScheduleKept`; iterations of the loop leave the table alone.
* `OverdueCorrect`: `Spec => []NeverOverdue`. Since the schedule is the earliest
  enabled interrupt, when it is not due no other one is; when it is, the dispatch
  visits the interrupts due now and moves or disables each, unless it breaks off,
  which `left_behind` records.

For `Checkpoint` (also `CheckpointAssumption`: any cache sizes, parts and number of
checkpoints) it reuses the step lemmas of `Interrupts`:

* `CPTypeCorrect`: `CPSpec => []CPTypeOK`, `GeometryCorrect`: `[]CacheGeometry`,
  `RestartCorrect`: `[]RestartTransparent`. The induction (`CPInv`) is on these
  together with `FileOK`, an invariant of the file, which outlives the process: what it
  holds was a state of the machine that had the invariant. That listing the interrupts
  after a restart recomputes the number the file lacks follows because the earliest
  interrupt of a table is unique. After a failed restart (`mixed`) the table and its number of
  slots need not belong together, which is why the step lemmas
  of `Interrupts` about types are stated without `UnusedDisabled`.

`DataCacheProofs` (`DataCacheAssumption`: any number of sets, none included, line
size, memory, words without memory, words used with nc accesses):

* `TypeCorrect`: `Spec => []TypeOK`, and `OneCopyCorrect`: `Spec => []OneCopy`. The
  induction is on both, rewritten entry by entry (`IInv`). The argument: whatever puts a
  line into a way (`PutGood`) either takes the way that has it, or has looked in both
  ways and found none (`SelectGood`, `ZeroLineStep`); a failed refill
  leaves an invalid line (`RefillGood`), a failed write-back leaves the entry alone.
* `CleanCorrect`: `Spec => []CleanIsMemory`. Not inductive alone; the induction
  (`CleanInv`) adds `OneCopy`, since a write-back from one way must not change the
  words of a clean copy in the other, and that valid lines exist only while PSR.DCE
  is on and never of an nc word (`Sound`), since accesses go past the cache in those
  two cases. The arithmetic is that `makeDAddr` and the fields of an address
  are inverses of each other (`FieldsOfWord`, `AddressOfFields`), so that a write-back
  touches its own line only (`WriteBackSound`). For the debugger's write:
  a flush fails only if the line has no memory, and then the write fails too
  (`FlushedIsAway`).

And from there that the cache is a memory:

* `MemoryRefined`: `Spec => ImplementsMemory`, by a step simulation under the invariants
  above: `InitRefines`, and `NextRefines` with one lemma per operation
  (`ReadRefines`, `WriteRefines`, `ZeroLineRefines`, ...), each of which names the step of
  `AbstractMemory` it is. What the program sees is made a function of any cache and
  memory (`Seen`), so that one can ask what putting a line into an entry
  changes (`PutSeen`: the words of that line only, if the line that was there is
  clean), or a write-back alone (`SavedSame`: nothing). Lookups compose the two (`SelectSame`).
  That the entry put in replaces a clean line is where `CleanIsMemory` is needed, that
  the other way does not hold the line too is where `OneCopy` is.
* `FaultsChangeNothing`: `Spec => FaultChangesNothing`: every store looks at the pending
  exception or fails itself, and all else is a step that keeps what the program sees.

`CachesProofs` carries these invariants over to the two caches together: a step of
`Caches` is a step of `DataCache` or leaves its D$ alone (`CachesStep`).

* `CachesTypeCorrect`: `CachesSpec => []CachesTypeOK`.
* `FlushedCodeCorrect`: `CachesSpec => []FlushedCodeIsFetched`, assuming `DSets > 0`. The
  induction (`FInv`) says more than the property: a flushed code word is in memory, in
  the I$ if that holds its line, and the D$ has no newer value. Memory changes only to what the program
  sees (`MemoryFollows`); apart from refills the I$ only loses lines (`Shrinks`). A refill takes a whole line,
  which exists as a whole although lines of the D$ are longer (`ILineExists`,
  `DivDiv`: I$ lines divide D$ lines). Without a D$ the flush ends in front of the I$
  (`Caches_nodcache`), so the assumption is needed.

`DebuggerProofs` (`DebuggerAssumption`: any table, addresses, ignore counts, steps):

* `TypeCorrect`: `[]TypeOK`; `CountRight`: `[]EnabledCountRight`, where each command
  changes the number of enabled entries by what it adds to `nbrkpts_enabled`, also the
  commands by address, which change several; `CodeStops`:
  `[][...]_vars` of `CodeBreakpointStops`, because a table with an armed entry has a count above 0
  and the search stops only at an entry that is not ignored; `DataStops`:
  `DataBreakpointStops`. The induction (`Inv`) adds `TouchedPends`: what was touched and is
  armed is pending until the loop looks, also across the match of the code breakpoint, which changes ignore counts.

`StackCacheProofs` (`StackCacheAssumption`: stack cache, marks, stacks, frames,
methods, limits and values of any size) is about programs without data read breakpoints
(`Broken = {}`): with one, a dribble fails halfway and the word it did not read is
lost (`StackCache_breakpoint`).

* `StackRefined`: `Spec => ImplementsStack`, if also the debugger stays off words
  the cache holds (`~PokeCached`; `StackCache_debugger` shows why).
  `OffsetsCorrect`, `LimitCorrect`, `TypeCorrect`, `NothingLostCorrect`: `[]OffsetsHit`,
  `[]LimitHolds`, `[]TypeOK`, `[]NothingLost`, these without a condition on the debugger.
* The induction is on `Inv` (`InvHolds`): no exception is pending between two instructions,
  OPTOP is in its stack and not past the limit, the bottom of the cache is 0 to
  `SCACHE_SIZE` words above OPTOP, nearer than the other stack, and at most the spill mark, and with the dribbler on at least the
  fill mark. The last part fails inside an instruction, and before the first
  write of the PSR: hence `Loose` (without it) and `Ready` (with it). TLC checked `Inv` on the
  instance of `stackcache_limits` before the proof.
* The argument: `SCACHE_SIZE` consecutive words have different slots (`SameSlot`,
  `WordInSlot`), so a fill or spill keeps every word the program sees above the new OPTOP
  (`FillEffect`, `SpillEffect`, `MovedEffect`). From there what a move, a change of
  stacks and a trap do to a stack (`MoveEffect`, `SwitchEffect`, `TrapEffect`), and
  what an instruction leaves that overflows halfway (`Undone`: PC and OPTOP
  are restored, the words above the restored OPTOP were not touched,
  the dribbling it did is invisible). Each instruction then is a step of `OperandStacks`
  (`PushSteps` to `CallSteps`), which `StepEffect` puts together.
* A call moves OPTOP once for each local variable (`Room`, a recursive function). That the
  moves together are one move or are refused at the first that passes the limit
  (`RoomEffect`) is an induction on their number. The library's rule of
  induction cannot be instantiated, so `LeastNat` derives what is needed from a
  fact that can: that strict inclusion of finite sets is well-founded.

`ProfilerProofs` (`ProfilerAssumption`: any profiles, entry points and bounds):

* `SelfCounts`, `TotalsCorrect`, `LinksCorrect`, `ArcsCorrect`, `TypeCorrect`:
  `Spec => []SelfCountsAddUp`, `[]TotalsCountOnce`, `[]RecursionLinks`,
  `[]CallersShareTotal`, `[]TypeOK`. All of them follow from one invariant of a profile
  (`Profiled`), which a pop (`PopKeeps`), a block entered (`EnterKeeps`), a counted
  instruction (`CountKeeps`), a reset and a change of flags each keep; leaving a block,
  unwinding and closing are pops and blocks entered in a row.
* `Profiled` is stronger than the properties in two ways. Totals and arcs are stated
  for all entry points, unregistered ones included (`Given`), because registering one must start
  from 0. `Linked` states the links between the frames of an entry point frame by frame, without
  `Min` and `Max`, and for "Program" only as far as it holds.
* The argument for the totals: of the frames of an entry point the lowest alone has
  no next frame (`OneOutermost`), so an instruction adds 1 to what they will give, once;
  a pop moves what the frame is charged to the total, and the whole time of an inner frame,
  which the outer one counts too, is what it is corrected by (`PopTotals`).
* Sums over finite sets come from a fold that the library defines without theorems. `SumsExist`
  and `SumIs` give them a meaning; `SumRemove`, `SumChange`, `SumAdd` are what the steps need.
  The induction on finite sets behind them (`SetInduction`) and on numbers (`Induction`, for
  any number of frames popped in a row) are derived from the smallest member of a set of
  finite sets (`LeastSubset`).

`LoaderProofs` (`LoaderAssumption`: any finite set of classes, fields, methods, files, boot
order, and memory of any size):

* `LayoutsCorrect`, `VectorsCorrect`, `HeadersCorrect`, `TablesCorrect`, `TypeCorrect`:
  `Spec => []LayoutExtendsSuper`, `[]VectorsMostDerived`, `[]HeadersFilled`,
  `[]TablesAgree`, `[]TypeOK`. One induction (`IInv`, `InvHolds`) carries all five; TLC checked it
  on the instance of `loader` before the proof.
* Layouts: `IInv` does not say that layouts are right, only that each is what `Resolve` makes of the
  superclass's and that the superclass of a class laid out is laid out (`WellLaid`). That such layouts are
  right is then an induction along the chain of superclasses (`SlotsAreGood`,
  `VectorsAreGood`), which the order that `LoaderAssumption` promises makes well-founded
  (`ClassInduction`).
* That `WellLaid` is kept rests on the stack of activations (`StackInv`): every activation but
  the innermost waits with a class of its own, collected and not laid out, for its
  superclass, the class of the activation inside it. So a class is laid out once, no
  layout changes under the classes above it, and what comes back with success has
  been collected (`SuperFound`).
* Tables: the entry of a bucket is the latest class of the bucket in the class table, and each
  class is chained to the latest before it (`HashInv`); the chain of a bucket then
  holds exactly the bucket's classes, newest first (`ChainsHold`). Headers: the kinds known are
  those in the table up to ExceptionBlock (`BootInv`), all of them in the order of
  `loadTrapHandlers` (`KindsKnown`), and `CopyTables` follows one class through copying, fixing up
  and the count.
* The recursive functions of the model (`Chain`, `OwnSlots`, `NewMethods`, `ChainFrom`) are
  defined by `CHOOSE`: a lemma each shows that a function with the equation
  exists (`OwnSlotsExists`, `NewMethodsExist`, `WalkExists`), by `Induction`, which
  is derived as in `ProfilerProofs`.

`InstructionsProofs` is about every program, set of trap handlers, memory and start, none of
which has to be sensible. `MachinesAssumption`: instructions are decoded as
the decoder can decode them, the start has registers that hold words (of the model's width), no exception
pending and a stack above its limit. `MachineAssumption`: memory holds words, the stack cache
is not empty. `InstructionsAssumption`: interrupts have a level.

* `TypeCorrect`: `Spec => []TypeOK`; `LimitKept`: `Spec => []StackAboveLimit`;
  `PrivilegedRegistersStay`: `Spec => [][UserMode(m) => PrivilegedStay(m, m')]_vars`, the part of
  `PrivilegeKept` that is true of any program.
* The induction is on `IInv`, over iterations of the main loop: `TypeOK` and `AboveLimit`
  with `LimitOff`, that an OPLIM exception has switched the limit off. Without it the
  despatch could enter the OPLIM trap with a limit its frame does not respect: that trap is the one
  that `invoke_trap` does not check. TLC checked `IInv` on the instance
  of `instructions` as well.
* Within an iteration, `Good(s, t)` says what the machine t, made of s by part of an instruction,
  may be. It is kept by each read (`ReadGood`), write (`WriteGood`), move of OPTOP (`UpdateOptopGood`)
  and exception (`SetupGood`), each read or write of several words (`ReadAllGood`, `WriteAllGood`),
  and so by each instruction; `JVMOpDone` and `ExtOpDone` collect one lemma for each
  family of opcodes. `Done(s, t)` says what may be left of s at the end of the iteration, when a trap
  may have changed the PSR (`TrapDone`, `DespatchDone`, `IterateDone`).
* For user mode, `Kept` includes the registers saved with a pending exception, since the
  despatch restores them (`Steady`), and the trap-type field of `trapbase`, which a trap
  may change, is left out.
* `vSetupException` keeps `Steady` but not `Good`: between raising the OPLIM exception and clearing the
  limit's enable bit, `LimitOff` is false; `UpdateOptop` is followed as a whole.
* An instruction that raised an exception in its fetch is not executed (`TopPending`), so each
  opcode may assume that no OPLIM exception is pending when it begins.
* The folds of the model (`ReadAll`, `WriteAll`, `CopyWithin`, ...) are turned into sequences of
  intermediate machines (`ReadSteps`, `WriteSteps`, `CopySteps`), for which `Induction` is
  enough; the bitwise operations are written in bits (`BitsWhere`), since modules with theorems
  cannot use the library's.

Only model-checked:

* `EveryOneShotFires`: liveness under fairness, and `ENABLED`, are out of the prover's reach.
* `TrapsTransparent`, `TrapsEnd`, `MonitorsMatch`, `CallsReturn`, `StackEffect`, `ArrayStoresStay` and, in
  `PrivilegeKept`, the way through the trap table (`ThroughTable`) of
  `Instructions`. These are false for arbitrary programs and handlers: a handler may
  return elsewhere, trap itself for ever, or write the frame it returns through; a program
  may write its own frame, its trap table or the header of an array. What they need is a
  description of correct programs and handlers, which the runs give by example.
* `DebuggerWritesArrive`, `NothingLost` with a breakpoint, and the other properties of the
  configurations in which TLC finds a violation.

## Not modelled

* The Verilog of the core (`design/`) and its test bench (`sim/env`): a second,
  cycle by cycle implementation of the architecture that the simulator defines. Its units
  are listed in the inventory and in `PROJECT.json`; models of them would be a
  project of their own, whose abstract specifications are here: `AbstractMemory` for the data
  cache unit with its bus interface, `OperandStacks` for the stack manager, `Instructions` for the integer unit.
* The FPU and the values of floating point operations: arithmetic.
* Co-simulation (`tools/tam`), the disassembler, statistics, tracing, display, the
  reports, the serial port and system calls: input and output that leaves the
  program's state alone.
* The bytes of class files, names and signatures, quickening, the wrapper of synchronized
  methods; the work of the trap handlers in assembly (`tools/traps`) beyond entry, effect on
  the machine and return.
* Cache diagnostics other than what the reset code does; registers that no instruction's
  behaviour depends on.
* The assembler and disassembler for Java (`tools/jasm`, `tools/jdis`), synthesis scripts, test programs.
