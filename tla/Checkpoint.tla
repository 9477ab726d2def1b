----------------------------- MODULE Checkpoint -----------------------------
(***************************************************************************)
(* Checkpoint and restart (tools/iam/src/checkpoint.c and the checkpoint   *)
(* routines of the modules it calls), on top of the interrupt scheduler.   *)
(*                                                                         *)
(* A checkpoint writes the items of seven modules to a file, one behind    *)
(* the other, and ends early when the disk is full.  A restart, in the     *)
(* same process or in a new one, puts the chip into its power-on state and *)
(* reads the items in the same order until one is missing.  Whatever the   *)
(* file does not hold keeps the value it happens to have, which is what    *)
(* the properties are about.                                               *)
(***************************************************************************)
EXTENDS Interrupts, Sequences

CONSTANTS
    Parts,        \* items without structure whose contents the model tells apart
    ISizes,       \* the codes of I$ sizes used, 0 for none
    DefaultISize, \* the one a new process starts with
    MaxCheckpoints \* bound: checkpoints written

\* The file in the order of checkpoint_modules, one item per variable written
\* (those of the D$ like those of the I$; of the registers the ones modelled).
Items == <<"header", "memory", "icount", "psr", "hcr", "isize", "dsize", "counts",
           "lines", "control", "stack cache", "breakpoints", "last_intr_set",
           "next_intr_id", "intrs">>

ASSUME CheckpointAssumption ==
    /\ Parts \subseteq {"memory", "lines", "control", "stack cache", "breakpoints"}
    /\ DefaultISize \in ISizes /\ ISizes \subseteq 0..5
    /\ MaxCheckpoints \in Nat

VARIABLES
    contents,     \* of the parts, a number; 0 at power-on
    hcr_ics,      \* the size code in the register HCR
    icache,       \* currentISize, numOfIcacheEntries, and the lines malloc gave
    file,         \* how many items it has, what they hold, and as history
                  \* size_cut and all of the state behind a whole file
    written,      \* checkpoints written so far
    since,        \* history: "restarted" just now from a whole file, "listed"
                  \* when the interrupts have been listed since
    mixed,        \* history: this state goes back to a restart that failed
    size_cut      \* history: ... between the sizes of the two caches

cpvars == <<vars, contents, hcr_ics, icache, file, written, since, mixed, size_cut>>

\* icacheInit: -1 lines without a cache, else twice as many for each code.
Entries(size) == IF size = 0 THEN -1 ELSE 2 ^ (size - 1)

icacheInit(size) ==
    [size |-> size, entries |-> Entries(size),
     allocated |-> IF size = 0 THEN 0 ELSE Entries(size)]

\* Everything a later run depends on, whether a checkpoint writes it or not.
State ==
    [icount |-> icount, psr |-> psr, last_intr_set |-> last_intr_set,
     next_intr_id |-> next_intr_id, next_sched_intr_icount |-> next_sched_intr_icount,
     intrs |-> intrs, pins |-> pins, asleep |-> bPowerDownState,
     left_behind |-> left_behind, hcr |-> hcr_ics,
     isize |-> icache.size, counts |-> icache.entries, allocated |-> icache.allocated,
     mixed |-> mixed, size_cut |-> size_cut, contents |-> contents]

PowerOn == [p \in Parts |-> 0]

CPInit ==
    /\ Init
    /\ contents = PowerOn
    /\ hcr_ics = DefaultISize
    /\ icache = icacheInit(DefaultISize)
    /\ since = "long ago" /\ mixed = FALSE /\ size_cut = FALSE
    /\ file = [length |-> 0, of |-> <<>>] /\ written = 0

-----------------------------------------------------------------------------
\* What the first n items are, and what they hold.
Held(n) == {Items[i] : i \in 1..n}

HeldContents(n) == [p \in Parts \cap Held(n) |-> contents[p]]

Image(n) ==
    IF n = Len(Items) THEN State
    ELSE [x \in DOMAIN State \cap (Held(n) \cup {"contents", "size_cut"}) |->
             IF x = "contents" THEN HeldContents(n) ELSE State[x]]

\* checkpoint: the disk may be full after any item.  Without a cache fwrite is
\* asked for -1 lines, which it cannot have written.
checkpoint ==
    /\ written < MaxCheckpoints
    /\ written' = written + 1
    /\ \E n \in 0..Len(Items) :
          /\ icache.entries = -1 => "lines" \notin Held(n)
          /\ file' = [length |-> n, of |-> Image(n)]
    /\ since' = "long ago"
    /\ UNCHANGED <<vars, contents, hcr_ics, icache, mixed, size_cut>>

InFile(item) == item \in Held(file.length)
Whole == file.length = Len(Items)
Saved == file.of

\* Seeded fault: the power-on state is set up behind the reads.
RestartControl_Fault ==
    /\ initPico
    /\ icount' = IF InFile("icount") THEN Saved.icount ELSE icount
    /\ hcr_ics' = IF InFile("hcr") THEN Saved.hcr ELSE hcr_ics

\* initPico, then global_regs_checkpoint; pins and power-down are in no item.
RestartControl ==
    /\ uIRLState' = 0 /\ bNMIState' = FALSE /\ bPowerDownState' = FALSE
    /\ ie' = (InFile("psr") /\ Saved.psr[1])
    /\ pil' = IF InFile("psr") THEN Saved.psr[2] ELSE 0
    /\ icount' = IF InFile("icount") THEN Saved.icount ELSE icount
    /\ hcr_ics' = IF InFile("hcr") THEN Saved.hcr ELSE hcr_ics

\* The parts: initPico resets the control variables, and a new cache is empty
\* until its lines are read.
RestartContents ==
    contents' = [p \in Parts |->
                    IF InFile(p) THEN Saved.contents[p]
                    ELSE IF p = "control" \/ (p = "lines" /\ InFile("dsize"))
                    THEN 0 ELSE contents[p]]

\* Seeded fault: the cache is set up for the size it had before.
RestartCache_Fault ==
    icache' = LET new == IF InFile("dsize") THEN icacheInit(icache.size) ELSE icache
              IN  [size      |-> IF InFile("isize") THEN Saved.isize ELSE icache.size,
                   entries   |-> IF InFile("counts") THEN Saved.counts ELSE new.entries,
                   allocated |-> new.allocated]

\* cache_checkpoint: the sizes of both caches are read, then the caches are set
\* up, then the counts are read over what the set-up has computed.
RestartCache ==
    icache' = LET size == IF InFile("isize") THEN Saved.isize ELSE icache.size
                  new  == IF InFile("dsize") THEN icacheInit(size) ELSE icache
              IN  [size      |-> size,
                   entries   |-> IF InFile("counts") THEN Saved.counts ELSE new.entries,
                   allocated |-> new.allocated]

\* Seeded fault: the number of slots in use is neither written nor read.
RestartInterrupts_Fault ==
    /\ next_intr_id' = IF InFile("next_intr_id") THEN Saved.next_intr_id ELSE next_intr_id
    /\ intrs' = IF InFile("intrs") THEN Saved.intrs ELSE intrs
    /\ UNCHANGED <<last_intr_set, next_sched_intr_icount>>

\* intr_checkpoint, which leaves next_sched_intr_icount alone.
RestartInterrupts ==
    /\ last_intr_set' = IF InFile("last_intr_set") THEN Saved.last_intr_set ELSE last_intr_set
    /\ next_intr_id' = IF InFile("next_intr_id") THEN Saved.next_intr_id ELSE next_intr_id
    /\ intrs' = IF InFile("intrs") THEN Saved.intrs ELSE intrs
    /\ UNCHANGED next_sched_intr_icount

restart ==
    /\ InFile("header")
    /\ RestartControl /\ RestartContents
    /\ RestartCache
    /\ RestartInterrupts
    /\ left_behind' = IF Whole THEN Saved.left_behind ELSE left_behind
    /\ mixed' = IF Whole THEN Saved.mixed ELSE TRUE
    /\ size_cut' = \/ size_cut \/ Saved.size_cut
                   \/ (InFile("isize") /\ ~InFile("dsize"))
    /\ since' = IF Whole THEN "restarted" ELSE "long ago"
    /\ UNCHANGED <<file, written>>

\* The simulator is left and started anew; the file is still there.
NewProcess ==
    /\ icount' = 0 /\ last_intr_set' = None /\ intrs' = [i \in Slots |-> EmptySlot]
    /\ next_intr_id' = None /\ next_sched_intr_icount' = None
    /\ initPico
    /\ contents' = PowerOn
    /\ hcr_ics' = DefaultISize /\ icache' = icacheInit(DefaultISize)
    /\ left_behind' = FALSE /\ mixed' = FALSE /\ size_cut' = FALSE
    /\ since' = "long ago"
    /\ UNCHANGED <<file, written>>

-----------------------------------------------------------------------------
\* "icache", for both caches.
doICacheCmd(size) ==
    /\ hcr_ics' = size
    /\ icache' = icacheInit(size)
    /\ contents' = [p \in Parts |-> IF p = "lines" THEN 0 ELSE contents[p]]
    /\ since' = "long ago"
    /\ UNCHANGED <<vars, file, written, mixed, size_cut>>

Command ==
    /\ User
    /\ since' = IF since = "restarted" /\ intr_list THEN "listed" ELSE "long ago"
    /\ UNCHANGED <<contents, hcr_ics, icache, file, written, mixed, size_cut>>

\* An instruction, and what else it may change ("breakpoints" by a command).
Run ==
    /\ executeBytecode
    /\ \/ UNCHANGED contents
       \/ \E p \in Parts : contents' = [contents EXCEPT ![p] = 1]
    /\ since' = "long ago"
    /\ UNCHANGED <<hcr_ics, icache, file, written, mixed, size_cut>>

\* Undefined in C: a dispatch of interrupt number -1, and more lines than malloc
\* gave.  The model stops there.
Undefined ==
    \/ Overrun
    \/ Dispatching /\ next_intr_id = None
    \/ icache.entries > icache.allocated

CPNext ==
    /\ ~Undefined
    /\ \/ Command \/ Run
       \/ \E size \in ISizes : doICacheCmd(size)
       \/ checkpoint \/ restart \/ NewProcess

CPSpec == CPInit /\ [][CPNext]_cpvars

-----------------------------------------------------------------------------
\* Types.  Only a restart that failed leaves a table of interrupts and a number
\* of slots that do not belong together.
CPTypeOK ==
    /\ Typed /\ (~mixed => UnusedDisabled)
    /\ contents \in [Parts -> 0..1]
    /\ hcr_ics \in ISizes
    /\ icache.size \in ISizes
    /\ icache.entries \in {Entries(size) : size \in ISizes}
    /\ icache.allocated \in {0} \cup {Entries(size) : size \in ISizes}
    /\ file.length \in 0..Len(Items)
    /\ since \in {"long ago", "restarted", "listed"}
    /\ mixed \in BOOLEAN /\ size_cut \in BOOLEAN

\* What the schedule should be for the table.
SchedFits(s) ==
    LET last == s.last_intr_set
    IN  IF Enabled(s.intrs, last) = {} THEN s.next_sched_intr_icount = None
        ELSE /\ IsNext(s.intrs, last, s.next_intr_id)
             /\ s.next_sched_intr_icount = s.intrs[s.next_intr_id].next_intr_at

\* A restart from a whole file, in whatever process and state, brings back the
\* state of the checkpoint as far as the file holds it and the pins were low and
\* the processor awake; once the interrupts have been listed the cached icount of
\* the next one is back as well, so that the program runs on as in the original.
RestartTransparent ==
    LET quiet == ~Saved.asleep /\ Saved.pins = <<0, FALSE>> /\ ~Saved.size_cut
        lost  == {"next_sched_intr_icount", "size_cut"}
    IN  /\ since = "restarted" /\ quiet
              => \A x \in DOMAIN State \ lost : State[x] = Saved[x]
        /\ since = "listed" /\ quiet /\ SchedFits(Saved)
              => next_sched_intr_icount = Saved.next_sched_intr_icount

\* The code indexes the I$ with numOfIcacheEntries and the size in HCR tells the
\* program how many lines to flush: both fit the lines allocated.  Every order of
\* size commands, checkpoints and restarts of cut files keeps the former, unless
\* a file ended between the two sizes; the latter needs restarts that succeed.
CacheGeometry ==
    /\ ~size_cut => icache.entries = Entries(icache.size)
    /\ ~size_cut => icache.allocated = IF icache.size = 0 THEN 0 ELSE icache.entries
    /\ ~mixed => hcr_ics = icache.size

\* docs/html/checkpoint.html: "Interrupts or breakpoints which you have set up
\* should transparently come back as well", so that no enabled interrupt is
\* passed over; but a restart does not schedule the next one.
InterruptsComeBack ==
    ~mixed => NeverOverdue
=============================================================================
