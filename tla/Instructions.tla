---------------------------- MODULE Instructions ----------------------------
(***************************************************************************)
(* The main loop of the instruction accurate simulator, executeBytecode of *)
(* tools/iam/src/iam.c, running programs with their trap handlers while    *)
(* interrupts arrive.  One step is one iteration of the loop.              *)
(*                                                                         *)
(* The programs, the memory they start in and the handlers are constants:  *)
(* a model is checked for every program, every limit of the stack, every   *)
(* place of a breakpoint and every moment of an interrupt that Starts and  *)
(* Levels allow.  Addresses from HandlerBase on hold the trap handlers.    *)
(***************************************************************************)
EXTENDS ExtendedOps

CONSTANTS
    Starts,       \* the machines to start from
    HandlerBase,  \* where the trap handlers begin
    Heap,         \* addresses of the words a program may write
    Unset,        \* <<pc, address>> of the locals not yet written there
    Objects,      \* the objects with a monitor a program enters
    Levels,       \* the interrupts that can be signalled, 0 is the NMI
    MaxSignals,   \* how often
    Patience,     \* iterations the handlers of nested traps may take
    MaxSteps      \* at least the instructions of a trap handler

ASSUME InstructionsAssumption ==
    /\ Levels \subseteq 0..15
    /\ MaxSignals \in Nat
    /\ Patience \in Nat
    /\ MaxSteps \in Nat

-----------------------------------------------------------------------------
(***************************************************************************)
(* What a decoded instruction looks like.  No opcode has the number of the *)
(* OPLIM trap as the number of its own: 12 is fconst_1, a push.            *)
(***************************************************************************)
WithType   == {"load_index", "store_index", "nastore_index", "ext_load",
               "ext_store", "aload", "astore"}
WithLength == {"ldc_quick", "getstatic_quick", "putstatic_quick",
               "getfield_quick", "putfield_quick"}
InstructionOK(i) ==
    /\ i.x \in Int /\ i.y \in Int /\ i.len \in Nat
    /\ i.code \in 0..255 \ {TT.oplim_trap}
    /\ i.op \in WithType => i.t \in DOMAIN SizeOf
    /\ i.op \in WithLength => i.y \in 1..2
    /\ i.op = "return_n" => i.x \in 0..2
    /\ i.op \in {"read_reg", "write_reg"} =>
           i.t \in UNION {UserRegs, PlainRegs, LockRegNames,
                         {"scBottom", "trapbase", "oplim"}}
    /\ i.op \in {"read_reg", "write_reg"} /\ i.t \in LockRegNames =>
           i.x \in LockRegs
    /\ i.op \in {"read_reg", "write_reg"} /\ i.t = "global" =>
           i.x \in Globals

(***************************************************************************)
(* What a machine looks like.                                              *)
(***************************************************************************)
WordRegisters ==
    {"pc", "vars", "frame", "optop", "oplim", "const_pool", "psr",
     "trapbase", "userrange1", "userrange2", "gcConfig", "brk1a", "brk2a",
     "brk12c", "scBottom", "junk"}
OtherFields ==
    {"lockCount", "lockAddr", "global", "mem", "sc", "exc", "uIRLState",
     "bNMIState", "bPowerDownState", "end_of_simulation",
     "program_exit_code", "type"}
SavedRegisters ==
    {"pc", "vars", "frame", "optop", "const_pool", "psr", "trapbase",
     "userrange1", "userrange2", "scBottom"}
ExceptionOK(e) ==
    \/ e = NoException
    \/ e \in [id : 2..12, cpu : [SavedRegisters -> Words]]
MachineOK(s) ==
    /\ s = [x \in WordRegisters \cup OtherFields |-> s[x]]
    /\ \A r \in WordRegisters : s[r] \in Words
    /\ s.lockCount \in [LockRegs -> Words]
    /\ s.lockAddr \in [LockRegs -> Words]
    /\ s.global \in [Globals -> Words]
    /\ s.uIRLState \in 0..15
    /\ \A a \in DOMAIN s.mem : a \in DOMAIN Image /\ s.mem[a] \in Words
    /\ \A k \in DOMAIN s.sc : k \in 0..(SCACHE_SIZE - 1) /\ s.sc[k] \in Words
    /\ ExceptionOK(s.exc)

(***************************************************************************)
(* The machines to start from have no exception pending and their stack    *)
(* above the limit.                                                        *)
(***************************************************************************)
AboveLimit(s) == LimitEnabled(s) => s.optop >= Limit(s)
ASSUME MachinesAssumption ==
    /\ \A a \in DOMAIN Code : InstructionOK(Code[a])
    /\ \A s \in Starts : /\ MachineOK(s) /\ s.exc = NoException
                         /\ AboveLimit(s)

VARIABLES
    m,        \* the machine
    signals,  \* number of interrupts signalled
    ideal,    \* the undisturbed machine, as many instructions on
    waits,    \* iterations since then without an instruction completed
    calls,    \* what the callers of the running method must get back
    held      \* how often the program is inside each object's monitor

vars == <<m, signals, ideal, waits, calls, held>>

-----------------------------------------------------------------------------
(***************************************************************************)
(* One iteration.  The trace record is filled from the four top words of   *)
(* the stack, whose reads may raise an exception like any other.           *)
(***************************************************************************)
BreakAtPc(s) ==
    IF pico_breakpoint_match(s, 1, s.pc, FALSE, FALSE) THEN Exc.DBR1
    ELSE IF pico_breakpoint_match(s, 2, s.pc, FALSE, FALSE) THEN Exc.DBR2
    ELSE Exc.NO

Fetch(s) ==
    LET s0 == vClearAllExceptions(s) IN
    Then(BreakAtPc(s0), LAMBDA eid :
    IF eid # Exc.NO THEN vSetupException(s0, eid)
    ELSE Top(IF s.pc \in DOMAIN Code THEN s0
             ELSE vSetupException(s0, Exc.INSTR_ACC), 4).m)

Execute(s) == LET i == Code[s.pc] IN
    IF i.op \in ExtendedInstructions THEN vDoExtOp(s, i) ELSE vDoJVMOp(s, i)

Fetched(s) == ~bAnyExceptionPending(Fetch(s))

(***************************************************************************)
(* An interrupt is taken before the instruction and ends the iteration, as *)
(* does the power-down state.                                              *)
(***************************************************************************)
Interrupted(s) == /\ Bit(s.psr, PSR.IE)
                  /\ s.bNMIState \/ s.uIRLState > Pil(s.psr)

TakeInterrupt(s) ==
    invoke_trap([vClearAllExceptions(s) EXCEPT !.bPowerDownState = FALSE],
                IF s.bNMIState THEN TT.nmi
                ELSE TT.interrupt_level_tt_base + s.uIRLState - 1)

Iterate(s) ==
    Then(Fetch(s), LAMBDA f :
    vDespatchPendingException(IF bAnyExceptionPending(f) THEN f
                              ELSE Execute(f)))

-----------------------------------------------------------------------------
(***************************************************************************)
(* What a program sees: its registers, the words on its stack, read the    *)
(* way the debugger reads them, and the heap.                              *)
(***************************************************************************)
WordAt(s, a) == IF ScacheHit(s, a) THEN ScacheWord(s, a) ELSE MemWord(s, a)
Stack(s) == [k \in 1..((StackBase - s.optop) \div 4) |->
                LET a == OPTOP_OFFSET(s, k) IN
                IF <<s.pc, a>> \in Unset THEN 0 ELSE WordAt(s, a)]
View(s) == [pc |-> s.pc, vars |-> s.vars, frame |-> s.frame,
            const_pool |-> s.const_pool, stack |-> Stack(s),
            heap |-> [a \in Heap |-> MemWord(s, a)]]

InProgram(s) == s.pc < HandlerBase

(***************************************************************************)
(* Traps a program must not notice: the handler takes the reason away and  *)
(* returns to the instruction.  Any other trap belongs to the instruction. *)
(***************************************************************************)
LastTrap(s) == (s.trapbase % 2^11) \div 8
Transparent(tt) ==
    \/ tt \in {TT.oplim_trap, TT.mem_prot_err, TT.breakpoint1,
               TT.breakpoint2}
    \/ tt >= TT.nmi /\ tt < TT.nmi + 16
Completed(s, t) == /\ InProgram(s)
                   /\ InProgram(t) \/ ~Transparent(LastTrap(t))

(***************************************************************************)
(* The undisturbed machine: no limit, no breakpoint, no protection and no  *)
(* interrupt.  It goes through an instruction together with the trap that  *)
(* belongs to it.                                                          *)
(***************************************************************************)
Undisturbed(s) == [s EXCEPT !.oplim = 0, !.brk12c = 0,
                            !.psr = ResetBit(@, PSR.ACE)]
InHandler(s) == ~InProgram(s) /\ ~s.end_of_simulation
Settled(s) ==
    FoldLeft(LAMBDA r, n : IF n = 1 \/ InHandler(r) THEN Iterate(r) ELSE r,
             s, [n \in 1..(MaxSteps + 1) |-> n])

(***************************************************************************)
(* The history of calls: at a call, what the caller has below the          *)
(* arguments; of monitors: entries less exits that did not trap.           *)
(***************************************************************************)
Calls   == {"invokestatic_quick", "invokevirtual_quick",
            "invokevirtual_quick_w", "invokenonvirtual_quick",
            "invokesuper_quick"}
Returns == [return |-> 0, ireturn |-> 1, lreturn |-> 2]
Passed(s, t) == Completed(s, t) /\ InProgram(t)
Saved(s, t, i) == [pc |-> Word(s.pc + i.len), vars |-> s.vars,
                   frame |-> s.frame, const_pool |-> s.const_pool,
                   base |-> t.vars]

Entered(s) == MASK_OBJREF(WordAt(s, OPTOP_OFFSET(s, 1)))
Monitors(s, t, i) ==
    LET o == Entered(s) IN
    IF ~Passed(s, t) \/ o \notin DOMAIN held THEN held
    ELSE IF i.op = "monitorenter" THEN [held EXCEPT ![o] = @ + 1]
    ELSE IF i.op = "monitorexit"  THEN [held EXCEPT ![o] = @ - 1]
    ELSE held

Observe(s, t, i) ==
    /\ ideal' = IF Completed(s, t) THEN Settled(ideal) ELSE ideal
    /\ waits' = IF Completed(s, t) THEN 0 ELSE waits + 1
    /\ calls' = IF ~Passed(s, t) THEN calls
                ELSE IF i.op \in Calls THEN <<Saved(s, t, i)>> \o calls
                ELSE IF i.op \in DOMAIN Returns THEN Tail(calls)
                ELSE calls
    /\ held' = Monitors(s, t, i)

-----------------------------------------------------------------------------
Init ==
    /\ m \in Starts
    /\ ideal = Undisturbed(m)
    /\ signals = 0
    /\ waits = 0
    /\ calls = <<>>
    /\ held = [o \in Objects |->
                 IF \E k \in LockRegs : m.lockAddr[k] = o
                 THEN Count(m.lockCount[CHOOSE k \in LockRegs :
                                              m.lockAddr[k] = o])
                 ELSE 0]

Quiet == UNCHANGED <<signals, ideal, calls, held>>
Waiting == waits' = waits + 1

vSetInterrupt(irl) ==
    /\ ~m.end_of_simulation
    /\ signals < MaxSignals
    /\ m' = IF irl > 0 THEN [m EXCEPT !.uIRLState = irl]
            ELSE [m EXCEPT !.bNMIState = TRUE]
    /\ signals' = signals + 1
    /\ UNCHANGED <<ideal, waits, calls, held>>

AcceptInterrupt ==
    /\ ~m.end_of_simulation
    /\ Interrupted(m)
    /\ m' = TakeInterrupt(m)
    /\ Waiting
    /\ Quiet

PoweredDown ==
    /\ ~m.end_of_simulation
    /\ ~Interrupted(m)
    /\ m.bPowerDownState
    /\ m' = vClearAllExceptions(m)
    /\ UNCHANGED waits
    /\ Quiet

FetchFault ==
    /\ ~m.end_of_simulation
    /\ ~Interrupted(m)
    /\ ~m.bPowerDownState
    /\ ~Fetched(m)
    /\ m' = vDespatchPendingException(Fetch(m))
    /\ Waiting
    /\ Quiet

Interpret ==
    /\ ~m.end_of_simulation
    /\ ~Interrupted(m)
    /\ ~m.bPowerDownState
    /\ Fetched(m)
    /\ m' = Iterate(m)
    /\ Observe(m, m', Code[m.pc])
    /\ UNCHANGED signals

Loop == AcceptInterrupt \/ PoweredDown \/ FetchFault \/ Interpret

Next == Loop \/ \E irl \in Levels : vSetInterrupt(irl)

Spec == Init /\ [][Next]_vars

-----------------------------------------------------------------------------
TypeOK == MachineOK(m) /\ signals \in 0..MaxSignals /\ waits \in Nat

(***************************************************************************)
(* A program sees what it would see without limit, breakpoints, protection *)
(* and interrupts: whenever it runs, it is where the undisturbed machine   *)
(* is after as many instructions.  This is what the saved registers of        *)
(* vSetupException, the refused writes of javaMemWrite and the order of    *)
(* the updates in every instruction are for.                               *)
(***************************************************************************)
TrapsTransparent ==
    InProgram(m) /\ ~m.end_of_simulation =>
        View(m) = View(ideal)

(***************************************************************************)
(* A method that returns gives its caller back PC, VARS, FRAME and the     *)
(* constant pool, and the stack as it was below the arguments with the     *)
(* result on top, whatever was called and trapped in between.              *)
(***************************************************************************)
GivesBack(c, s, n) ==
    /\ s.pc = c.pc /\ s.vars = c.vars /\ s.frame = c.frame
    /\ s.const_pool = c.const_pool
    /\ s.optop = c.base - n * JAVAWORDSIZE
CallsReturn ==
    [][calls # <<>> /\ calls' = Tail(calls) =>
         GivesBack(Head(calls), m', Returns[Code[m.pc].op])]_vars

(***************************************************************************)
(* What the stack instructions mean: n words are taken, and the words of   *)
(* to, numbered from the top, put in their place.  Nothing below changes.  *)
(***************************************************************************)
Shuffles ==
    [pop     |-> [n |-> 1, to |-> <<>>],
     pop2    |-> [n |-> 2, to |-> <<>>],
     dup     |-> [n |-> 1, to |-> <<1, 1>>],
     dup2    |-> [n |-> 2, to |-> <<1, 2, 1, 2>>],
     dup_x1  |-> [n |-> 2, to |-> <<1, 2, 1>>],
     dup_x2  |-> [n |-> 3, to |-> <<1, 2, 3, 1>>],
     dup2_x1 |-> [n |-> 3, to |-> <<1, 2, 3, 1, 2>>],
     dup2_x2 |-> [n |-> 4, to |-> <<1, 2, 3, 4, 1, 2>>],
     swap    |-> [n |-> 2, to |-> <<2, 1>>]]
Below(st, n) == SubSeq(st, n + 1, Len(st))
StackEffect ==
    [][ideal' # ideal /\ InProgram(m') =>
         LET op == Code[m.pc].op
             before == Stack(m)
             after  == Stack(m')
         IN  /\ op \in DOMAIN Shuffles =>
                  after = [k \in DOMAIN Shuffles[op].to |->
                              before[Shuffles[op].to[k]]]
                          \o Below(before, Shuffles[op].n)
             /\ op \in Operations =>
                  Below(after, Out(op)) = Below(before, In(op))]_vars

(***************************************************************************)
(* With the limit enabled, the stack does not reach below it, not even for *)
(* the frame of a trap.                                                    *)
(***************************************************************************)
StackAboveLimit == AboveLimit(m)

(***************************************************************************)
(* A program in user mode gets to supervisor mode only through the trap    *)
(* table, and the frame says that it was in user mode; until then the      *)
(* registers only privileged instructions write stay as they are.          *)
(***************************************************************************)
UserMode(s) == ~Bit(s.psr, PSR.SU)
Privileged == {"userrange1", "userrange2", "brk1a", "brk2a", "brk12c",
               "gcConfig", "scBottom"}
PrivilegedStay(s, t) ==
    /\ \A r \in Privileged : t[r] = s[r]
    /\ t.trapbase \div 2^11 = s.trapbase \div 2^11
    /\ t.psr = IF UserMode(t) THEN s.psr
               ELSE ResetBit(SetBit(s.psr, PSR.SU), PSR.IE)
ThroughTable(s, t) ==
    /\ t.pc = MemWord(t, t.trapbase)
    /\ WordAt(t, t.frame + 4) = s.psr
PrivilegeKept ==
    [][UserMode(m) => /\ PrivilegedStay(m, m')
                      /\ UserMode(m') \/ ThroughTable(m, m')]_vars

(***************************************************************************)
(* The lock register of an object counts how often the program is inside.  *)
(***************************************************************************)
MonitorsMatch ==
    InProgram(m) =>
        \A o \in Objects : \A k \in LockRegs :
            m.lockAddr[k] = o => Count(m.lockCount[k]) = held[o] % 2^8

(***************************************************************************)
(* An instruction that stores into an array changes words of this array,   *)
(* found through the handle if the reference is one, and no others.        *)
(***************************************************************************)
ArrayStores == {"astore", "lastore", "aastore_quick"}
RefDepth(i) == IF i.op = "lastore" THEN 4 ELSE 3
BaseOf(s, ref) == LET a == MASK_OBJREF(ref) + 4 IN
                  IF IS_HANDLE(ref) THEN MemWord(s, a) ELSE a
ElementBytes(i) == IF i.op = "lastore" THEN 8
                   ELSE IF i.op = "aastore_quick" THEN 4 ELSE 2^SizeOf[i.t]
ArrayWords(s, ref, i) ==
    LET b == BaseOf(s, ref) IN
    {a \in Heap : a > b /\ a < b + 4 + MemWord(s, b) * ElementBytes(i)}
ArrayStoresStay ==
    [][InProgram(m) /\ Code[m.pc].op \in ArrayStores =>
         LET i   == Code[m.pc]
             ref == WordAt(m, OPTOP_OFFSET(m, RefDepth(i)))
         IN  \A a \in Heap \ ArrayWords(m, ref, i) :
                 MemWord(m', a) = MemWord(m, a)]_vars

(***************************************************************************)
(* An OPLIM trap finds the words that were on the stack as they were.      *)
(***************************************************************************)
OplimLeavesStack ==
    [][InProgram(m) /\ LastTrap(m') = TT.oplim_trap /\ ~InProgram(m')
         /\ ~Interrupted(m) =>
             \A k \in 1..Len(Stack(m)) :
                 WordAt(m', OPTOP_OFFSET(m, k)) = Stack(m)[k]]_vars

(***************************************************************************)
(* No trap is taken again and again: between two instructions of the       *)
(* program only a bounded number of iterations goes to handlers.           *)
(***************************************************************************)
TrapsEnd == waits <= Patience
=============================================================================
