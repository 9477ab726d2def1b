------------------------------ MODULE Debugger ------------------------------
(***************************************************************************)
(* The simulator's own breakpoints (tools/iam/src/breakpoints.c) and the   *)
(* run that stops at them: executeBytecode between the command that starts *)
(* it and its end (tools/iam/src/iam.c), as the Tcl commands (sim/src) and *)
(* gdb (tools/iam/src/gdb_interface.c) drive it.                           *)
(*                                                                         *)
(* The program is any program: an instruction goes anywhere, touches at    *)
(* most one location and may be the last one.  Ctrl-C comes at any moment  *)
(* of a run.  Interrupts and power-down, modelled in Interrupts, are turns *)
(* of the loop that execute nothing.                                       *)
(***************************************************************************)
EXTENDS Integers, Sequences, FiniteSets

CONSTANTS
    Addrs,           \* byte addresses of instructions and data, from 0 on
    MAX_BRKPTS,      \* entries of the table
    MaxIgnore,       \* bound: ignore counts
    MaxSteps,        \* bound: steps asked for
    nMaxInstructions \* the instruction limit, which also bounds the runs

ASSUME DebuggerAssumption ==
    /\ Addrs \subseteq Nat /\ 0 \in Addrs
    /\ {MAX_BRKPTS, MaxIgnore, nMaxInstructions} \subseteq Nat
    /\ MaxSteps \in Nat \ {0}

VARIABLES
    brkpts,          \* the entries set, in order: brkpts[0..nbrkpts_set-1]
    nbrkpts_enabled,
    sim,             \* the run: see Stopped
    patched,         \* addresses where gdb put an opc_breakpoint
    icount,
    miscounted,      \* history: an enabled breakpoint was enabled, or a
                     \* disabled one disabled, by its number
    touched          \* history: this run touched an armed data breakpoint

vars == <<brkpts, nbrkpts_enabled, sim, patched, icount, miscounted, touched>>

Kinds == {"exec", "read", "write"}

\* first is first_instruction_in_run, hit and interrupted and ended the three
\* exit conditions, steps numOfSteps with Forever for -1.
Forever == -1
Stopped(pc) ==
    [mode |-> "stopped", pc |-> pc, steps |-> 0, first |-> FALSE, pending |-> {},
     hit |-> FALSE, interrupted |-> FALSE, ended |-> FALSE]

-----------------------------------------------------------------------------
(***************************************************************************)
(* The table of breakpoints.                                               *)
(***************************************************************************)
Enabled(table) == {i \in DOMAIN table : table[i].enabled}

\* The bytes an access of a size code covers.
Covered(addr, size) == addr..(addr + (IF size = 0 THEN 0 ELSE IF size = 1 THEN 1 ELSE 3))

\* The enabled breakpoints an access matches.
Matching(table, addr, size, kind) ==
    {i \in Enabled(table) : /\ table[i].addr \in Covered(addr, size)
                            /\ table[i].kind = kind}

\* One ignored hit less for these entries.
CountedDown(table, ids) ==
    [i \in DOMAIN table |->
        IF i \in ids THEN [table[i] EXCEPT !.ignore = @ - 1] ELSE table[i]]

\* Seeded fault: the search ends at the first match, to be ignored or not.
brkpt_match_Fault(table, count, addr, size, kind) ==
    LET all   == Matching(table, addr, size, kind)
        first == {i \in all : \A j \in all : i <= j}
        ready == {i \in first : table[i].ignore = 0}
    IN  IF count = 0 THEN [found |-> FALSE, table |-> table]
        ELSE [found |-> ready # {}, table |-> CountedDown(table, first \ ready)]

\* brkpt_match: is there one that is not to be ignored, and the table with the
\* ignore counts of those in front of the first such one counted down.  Nothing
\* is looked at when none counts as enabled.
brkpt_match(table, count, addr, size, kind) ==
    LET all   == Matching(table, addr, size, kind)
        ready == {i \in all : table[i].ignore = 0}
        past  == {i \in all : \A j \in ready : i < j}
    IN  IF count = 0 THEN [found |-> FALSE, table |-> table]
        ELSE [found |-> ready # {}, table |-> CountedDown(table, past)]

NewEntry(addr, kind) == [addr |-> addr, kind |-> kind, enabled |-> TRUE, ignore |-> 0]

\* brkpt_add: looks twice for a breakpoint there that is not to be ignored.
brkpt_add(t, addr, kind) ==
    LET once  == brkpt_match(t.table, t.count, addr, 0, kind)
        twice == brkpt_match(once.table, t.count, addr, 0, kind)
    IN  IF once.found THEN [t EXCEPT !.table = once.table]
        ELSE IF twice.found \/ t.count >= MAX_BRKPTS THEN [t EXCEPT !.table = twice.table]
        ELSE [table |-> Append(twice.table, NewEntry(addr, kind)), count |-> t.count + 1]

\* These entries enabled or disabled.
WithEnabled(table, ids, enabled) ==
    [i \in DOMAIN table |->
        IF i \in ids THEN [table[i] EXCEPT !.enabled = enabled] ELSE table[i]]

\* brkpt_enable and brkpt_disable: the count follows the command, not the entry.
brkpt_enable(t, i) ==
    [table |-> WithEnabled(t.table, {i}, TRUE), count |-> t.count + 1]

brkpt_disable(t, i) ==
    [table |-> WithEnabled(t.table, {i}, FALSE), count |-> t.count - 1]

\* Seeded fault: entries that are disabled already are disabled again.
brkpt_disable_addr_Fault(t, addr, kind) ==
    LET all == {i \in DOMAIN t.table : t.table[i].addr = addr /\ t.table[i].kind = kind}
    IN  [table |-> WithEnabled(t.table, all, FALSE), count |-> t.count - Cardinality(all)]

\* brkpt_disable_addr: every enabled entry of this address and kind.
brkpt_disable_addr(t, addr, kind) ==
    LET all == Matching(t.table, addr, 0, kind)
    IN  [table |-> WithEnabled(t.table, all, FALSE), count |-> t.count - Cardinality(all)]

-----------------------------------------------------------------------------
(***************************************************************************)
(* The commands, taken between runs: "brk" and gdb's calls.                *)
(***************************************************************************)
AtPrompt == sim.mode = "stopped"

Table == [table |-> brkpts, count |-> nbrkpts_enabled]

SetTable(t) ==
    /\ brkpts' = t.table /\ nbrkpts_enabled' = t.count
    /\ UNCHANGED <<sim, patched, icount, touched>>

\* A place left in the table: the code tests the count of enabled ones instead.
Room(n) == Len(brkpts) + n <= MAX_BRKPTS

\* "brk exec", "brk read", "brk write", and sim_hbreak of types 0, 1 and 2.
SetBreakpoint(addr, kind) ==
    /\ AtPrompt /\ Room(1)
    /\ SetTable(brkpt_add(Table, addr, kind))
    /\ UNCHANGED miscounted

\* "brk access", sim_hbreak of type 3: a read and a write breakpoint.
SetAccessBreakpoint(addr) ==
    /\ AtPrompt /\ Room(2)
    /\ SetTable(brkpt_add(brkpt_add(Table, addr, "read"), addr, "write"))
    /\ UNCHANGED miscounted

\* sim_hbreak, by its type, and "brk".
sim_hbreak(addr) == (\E k \in Kinds : SetBreakpoint(addr, k)) \/ SetAccessBreakpoint(addr)

\* "brk enable" and "brk disable", by number.
EnableBreakpoint(i) ==
    /\ AtPrompt /\ i \in DOMAIN brkpts /\ nbrkpts_enabled < MAX_BRKPTS
    /\ SetTable(brkpt_enable(Table, i))
    /\ miscounted' = (miscounted \/ brkpts[i].enabled)

DisableBreakpoint(i) ==
    /\ AtPrompt /\ i \in DOMAIN brkpts /\ nbrkpts_enabled > -MAX_BRKPTS
    /\ SetTable(brkpt_disable(Table, i))
    /\ miscounted' = (miscounted \/ ~brkpts[i].enabled)

\* "brk ignore": brkpt_set_ignore_count.
brkpt_set_ignore_count(i, count) ==
    /\ AtPrompt /\ i \in DOMAIN brkpts
    /\ SetTable([table |-> [brkpts EXCEPT ![i].ignore = count], count |-> nbrkpts_enabled])
    /\ UNCHANGED miscounted

\* sim_remove_hbreak of the kinds of its type.
sim_remove_hbreak(addr, kinds) ==
    LET After(k, t) == IF k \in kinds THEN brkpt_disable_addr(t, addr, k) ELSE t
    IN  /\ AtPrompt
        /\ SetTable(After("exec", After("write", After("read", Table))))
        /\ UNCHANGED miscounted

\* sim_write of an opc_breakpoint, or of the instruction it replaced: the write of
\* the word matches write breakpoints like the program's own.
sim_write(addr, break) ==
    LET match == brkpt_match(brkpts, nbrkpts_enabled, addr - (addr % 4), 2, "write")
    IN  /\ AtPrompt
        /\ patched' = IF break THEN patched \cup {addr} ELSE patched \ {addr}
        /\ brkpts' = match.table
        /\ sim' = [sim EXCEPT !.pending = IF match.found THEN @ \cup {"write"} ELSE @]
        /\ UNCHANGED <<nbrkpts_enabled, icount, miscounted, touched>>

\* sim_create_inferior: initPico keeps the breakpoints, the PC is set.
sim_create_inferior(start) ==
    /\ AtPrompt
    /\ sim' = [sim EXCEPT !.pc = start]
    /\ UNCHANGED <<brkpts, nbrkpts_enabled, patched, icount, miscounted, touched>>

\* executeBytecode is called: by "run" from address 0, by "cont", "steps" and
\* sim_resume from the present PC.
StartRun(steps, from) ==
    /\ AtPrompt
    /\ sim' = [Stopped(from) EXCEPT !.mode = "running", !.steps = steps, !.first = TRUE]
    /\ touched' = FALSE
    /\ UNCHANGED <<brkpts, nbrkpts_enabled, patched, icount, miscounted>>

\* runCmd, contCmd and stepsCmd.
StartsRun ==
    \/ \E n \in {Forever} \cup 0..MaxSteps : StartRun(n, 0)
    \/ \E n \in {Forever} \cup 0..MaxSteps : StartRun(n, sim.pc)

\* gdb runs on or executes one instruction.
sim_resume == \E step \in BOOLEAN : StartRun(IF step THEN 1 ELSE Forever, sim.pc)

-----------------------------------------------------------------------------
(***************************************************************************)
(* A turn of the main loop.                                                *)
(***************************************************************************)
Running == sim.mode = "running"

\* The loop is left, and SIGINT has its handler back.
StopWith(hit) ==
    /\ sim' = [sim EXCEPT !.mode = "stopped", !.hit = hit]
    /\ UNCHANGED <<patched, icount, miscounted, touched>>

SameTable == UNCHANGED <<brkpts, nbrkpts_enabled>>

LeaveLoop ==
    /\ Running /\ (sim.ended \/ sim.interrupted)
    /\ StopWith(FALSE) /\ SameTable

Turn == Running /\ ~sim.ended /\ ~sim.interrupted

StopAfterSteps == Turn /\ sim.steps = 0 /\ StopWith(TRUE) /\ SameTable

\* The process exits at the instruction limit.
AtLimit == icount >= nMaxInstructions
ExitAtLimit ==
    /\ Turn /\ sim.steps # 0 /\ AtLimit
    /\ sim' = [sim EXCEPT !.mode = "exited"]
    /\ UNCHANGED <<brkpts, nbrkpts_enabled, patched, icount, miscounted, touched>>

\* The turn goes on to the breakpoints.
GoesOn == Turn /\ sim.steps # 0 /\ ~AtLimit

\* Seeded fault: only a read breakpoint stops the run.
DataStop_Fault == "read" \in sim.pending

\* Data breakpoints touched by the last instruction come first.
DataStop == sim.pending # {}

StopAtData == GoesOn /\ DataStop /\ StopWith(TRUE) /\ SameTable

\* Then code breakpoints, except at the first instruction of a run.
CodeMatch ==
    IF sim.first THEN [found |-> FALSE, table |-> brkpts]
    ELSE brkpt_match(brkpts, nbrkpts_enabled, sim.pc, 0, "exec")

StopAtCode ==
    /\ GoesOn /\ ~DataStop /\ CodeMatch.found
    /\ brkpts' = CodeMatch.table /\ UNCHANGED nbrkpts_enabled
    /\ StopWith(TRUE)

NothingStops == GoesOn /\ ~DataStop /\ ~CodeMatch.found

\* Seeded fault: a run without a number of steps counts them too.
StepsLeft_Fault(steps) == steps - 1

StepsLeft(steps) == IF steps = Forever THEN Forever ELSE steps - 1

\* What every turn that is not stopped does: one step less, the flag of the
\* first instruction cleared.
Turned(pc) == [sim EXCEPT !.pc = pc, !.first = FALSE, !.steps = StepsLeft(@)]

\* An interrupt is taken, or the processor is in power-down: nothing is executed.
IdleTurn(pc) ==
    /\ NothingStops
    /\ sim' = Turned(pc)
    /\ brkpts' = CodeMatch.table
    /\ UNCHANGED <<nbrkpts_enabled, patched, icount, miscounted, touched>>

\* An opc_breakpoint that gdb put there.
StopAtPatch ==
    /\ NothingStops /\ sim.pc \in patched
    /\ brkpts' = CodeMatch.table /\ UNCHANGED nbrkpts_enabled
    /\ sim' = [Turned(sim.pc) EXCEPT !.mode = "stopped", !.hit = TRUE]
    /\ UNCHANGED <<patched, icount, miscounted, touched>>

\* The instruction at the PC is executed: it touches the accesses, goes to pc and
\* may end the program.  javaMemRead and javaMemWrite note a match.
Access == [addr : {a \in Addrs : a % 2 = 0}, size : {0, 1}, kind : {"read", "write"}]
Accesses == {{}} \cup {{a} : a \in Access}

Armed(a) == \E i \in Matching(brkpts, a.addr, a.size, a.kind) : brkpts[i].ignore = 0

ExecuteInstruction(pc, accesses, ends) ==
    LET code == CodeMatch.table
        data == [a \in accesses |-> brkpt_match(code, nbrkpts_enabled, a.addr, a.size, a.kind)]
        hits == {a \in accesses : data[a].found}
    IN  /\ NothingStops /\ sim.pc \notin patched
        /\ brkpts' = IF accesses = {} THEN code ELSE data[CHOOSE a \in accesses : TRUE].table
        /\ sim' = [Turned(pc) EXCEPT !.ended = ends, !.pending = {a.kind : a \in hits}]
        /\ icount' = icount + 1
        /\ touched' = (touched \/ \E a \in accesses : Armed(a))
        /\ UNCHANGED <<nbrkpts_enabled, patched, miscounted>>

\* sim_ctrl_c: the handler is installed for the length of the run.
sim_ctrl_c ==
    /\ Running /\ ~sim.interrupted
    /\ sim' = [sim EXCEPT !.interrupted = TRUE]
    /\ UNCHANGED <<brkpts, nbrkpts_enabled, patched, icount, miscounted, touched>>

-----------------------------------------------------------------------------
Init ==
    /\ brkpts = <<>> /\ nbrkpts_enabled = 0      \* brkpt_init_module
    /\ sim = Stopped(0) /\ patched = {} /\ icount = 0
    /\ miscounted = FALSE /\ touched = FALSE

Commands ==
    \/ \E a \in Addrs : sim_hbreak(a) \/ sim_create_inferior(a)
    \/ \E i \in 1..MAX_BRKPTS : EnableBreakpoint(i) \/ DisableBreakpoint(i)
    \/ \E i \in 1..MAX_BRKPTS, n \in 0..MaxIgnore : brkpt_set_ignore_count(i, n)
    \/ \E a \in Addrs, ks \in {{"exec"}, {"read"}, {"write"}, {"read", "write"}} :
           sim_remove_hbreak(a, ks)
    \/ \E a \in Addrs, b \in BOOLEAN : sim_write(a, b)
    \/ StartsRun
    \/ sim_resume

executeBytecode ==
    \/ LeaveLoop \/ StopAfterSteps \/ ExitAtLimit \/ StopAtData \/ StopAtCode \/ StopAtPatch
    \/ \E pc \in Addrs : IdleTurn(pc)
    \/ \E pc \in Addrs, as \in Accesses, ends \in BOOLEAN : ExecuteInstruction(pc, as, ends)

\* After a miscount nothing is promised of breakpoints, and the model goes no further.
Next == ~miscounted /\ (Commands \/ executeBytecode \/ sim_ctrl_c)

Spec == Init /\ [][Next]_vars

-----------------------------------------------------------------------------
(***************************************************************************)
(* Properties.                                                             *)
(***************************************************************************)
Entry == [addr : Addrs, kind : Kinds, enabled : BOOLEAN, ignore : 0..MaxIgnore]

TypeOK ==
    /\ brkpts \in Seq(Entry) /\ Len(brkpts) <= MAX_BRKPTS
    /\ nbrkpts_enabled \in Int
    /\ sim \in [mode : {"stopped", "running", "exited"}, pc : Addrs,
               steps : {Forever} \cup 0..MaxSteps, first : BOOLEAN,
               pending : SUBSET {"read", "write"}, hit : BOOLEAN,
               interrupted : BOOLEAN, ended : BOOLEAN]
    /\ patched \subseteq Addrs /\ icount \in 0..nMaxInstructions

\* nbrkpts_enabled, which switches matching off as a whole when it is 0, is the
\* number of enabled entries as long as no command named a breakpoint that was
\* already as it asked: adding, disabling by address (of several entries at once)
\* and by number keep it so.
EnabledCountRight == ~miscounted => nbrkpts_enabled = Cardinality(Enabled(brkpts))

\* docs/html/breakpoints.html: an instruction with an enabled code breakpoint that
\* is not to be ignored is not executed, except as the first of a run, whatever
\* other breakpoints are set at its address and in which order.
CodeBreakpointStops ==
    [][icount' # icount /\ ~sim.first
         => ~Armed([addr |-> sim.pc, size |-> 0, kind |-> "exec"])]_vars

\* Control is returned at the end of the instruction that touches a data breakpoint
\* that is not to be ignored: no instruction of the same run follows it.
DataBreakpointStops == [][icount' # icount => ~touched]_vars

\* docs/html/ias-interfacing.html: what sim_stop_reason tells gdb.
sim_stop_reason ==
    IF sim.hit THEN "SIGTRAP" ELSE IF sim.interrupted THEN "SIGINT" ELSE "exited"

\* "if program ended, *reason = sim_exited".
EndIsReported == AtPrompt /\ sim.ended => sim_stop_reason = "exited"
=============================================================================
