------------------------------ MODULE StackCache ------------------------------
(***************************************************************************)
(* The stack cache (S$) of the instruction accurate simulator: the window  *)
(* of SCACHE_SIZE words ending at SC_BOTTOM (tools/iam/src/scache.c), its  *)
(* dribbling at every update of OPTOP (global_regs.c), and the             *)
(* instructions that move OPTOP or reach the stack through VARS and FRAME  *)
(* (jvm_ops.c, object_ops.c, ext_ops.c), with the traps they take          *)
(* (exception.c, traps.c).                                                 *)
(*                                                                         *)
(* An address is the number of a word.  What is below the stack cache is a *)
(* memory: DataCache shows that the data cache is one.  The program keeps  *)
(* the rules of docs/html/scache.html: the fill mark is not 0 and the      *)
(* dribbler stays enabled.                                                 *)
(***************************************************************************)
EXTENDS Integers, FiniteSetsExt

CONSTANTS
    SCACHE_SIZE,  \* words of the stack cache
    Marks,        \* pairs <<fill mark, spill mark>>, in words
    Depth,        \* words of each of the program's two stacks
    Gap,          \* words between them
    Operands,     \* the largest offset from OPTOP
    TrapWords,    \* words of a trap frame
    FrameWords,   \* words of a method frame
    Locals,       \* numbers of local variables of the methods
    Limits,       \* values the program writes to OPLIM
    Values,       \* what the program writes
    Watched,      \* the words it writes anything but 0 to
    Broken,       \* words with a data read breakpoint of BRK12C
    PokeCached,   \* the debugger also writes words the stack cache holds
    SCACHE_INIT_VALUE,
    Garbage,      \* a variable of the simulator that was never assigned
    Dead

VARIABLES
    cpu,          \* the registers, the stack cache and memory
    thread,       \* which stack is in use
    parked,       \* OPTOP of the other one, kept by the program
    op            \* history: the instruction the last step carried out

vars == <<cpu, thread, parked>>

Stacks  == {0, 1}
Base(s) == IF s = 0 THEN Depth ELSE 2 * Depth + Gap
Low(s)  == Base(s) - Depth
MaxAddr == Base(1) + SCACHE_SIZE

Addr        == -1..MaxAddr     \* with the empty words at the low end
StackIndex  == 0..SCACHE_SIZE - 1
Contents    == Values \cup {Garbage}

ASSUME StackCacheAssumption ==
    /\ SCACHE_SIZE \in Nat \ {0} /\ Depth \in Nat \ {0} /\ Gap \in Nat
    /\ Operands \in Nat /\ TrapWords \in Nat /\ FrameWords \in Nat
    /\ Operands >= 2 /\ TrapWords >= 2 /\ FrameWords >= 1
    /\ \A k \in Marks : Gap > k[2] /\ Gap + k[1] > SCACHE_SIZE
    /\ Locals \subseteq Nat /\ Limits \subseteq Nat
    /\ \A k \in Marks : /\ k \in Nat \X Nat
                        /\ Operands <= k[1] /\ k[1] <= k[2]
                        /\ k[2] + TrapWords <= SCACHE_SIZE
                        /\ k[2] + FrameWords <= SCACHE_SIZE
    /\ 0 \in Values /\ SCACHE_INIT_VALUE \in Values
    /\ Garbage \notin Values /\ Dead \notin Values
    /\ PokeCached \in BOOLEAN

(* What the program writes to the word a.                                  *)
Data(a) == IF a \in Watched THEN Values ELSE {0}

NO_EXCEPTION   == 0
OPLIM_EXCEPTION == 4
DBR1_EXCEPTION == 5

NoState == [optop |-> 0, scBottom |-> 0]

-----------------------------------------------------------------------------
(***************************************************************************)
(* An instruction is a sequence of changes of the processor c.             *)
(***************************************************************************)
(* vSetupException: the first exception saves the state to go back to, a   *)
(* later one counts if its number is lower.                                *)
vSetupException(c, e) ==
    IF c.eid = NO_EXCEPTION
    THEN [c EXCEPT !.eid = e, !.saved = [optop |-> c.optop, scBottom |-> c.scBottom]]
    ELSE [c EXCEPT !.eid = IF e < @ THEN e ELSE @]

Slot(a)   == a % SCACHE_SIZE
Hits(c, a) == a <= c.scBottom /\ a > c.scBottom - SCACHE_SIZE

(* The word in slot i when the bottom of the stack cache is b.             *)
WordIn(i, b) == b - ((b - i) % SCACHE_SIZE)

Visible(c, a) == IF Hits(c, a) THEN c.sCacheMem[Slot(a)] ELSE c.mem[a]

(* A read of type O, V or F: breakpoints are only for words not in the S$. *)
StackRead(c, a) ==
    IF ~Hits(c, a) /\ a \in Broken THEN vSetupException(c, DBR1_EXCEPTION) ELSE c

Written(c, a, v) ==
    IF Hits(c, a) THEN [c EXCEPT !.sCacheMem[Slot(a)] = v]
                  ELSE [c EXCEPT !.mem[a] = v]

(* A write of type O or V is dropped after an exception.                   *)
StackWrite(c, a, v) == IF c.eid # NO_EXCEPTION THEN c ELSE Written(c, a, v)

WriteAll(c, W, f) ==
    IF c.eid # NO_EXCEPTION THEN c
    ELSE [c EXCEPT
            !.sCacheMem = [i \in StackIndex |->
                LET a == WordIn(i, c.scBottom)
                IN  IF a \in W THEN f[a] ELSE c.sCacheMem[i]],
            !.mem = [a \in Addr |->
                IF a \in W /\ ~Hits(c, a) THEN f[a] ELSE c.mem[a]]]

(* The dribbler: n words more at the bottom.  A broken one raises its      *)
(* exception when SC_BOTTOM is already at it; the read returns nothing.    *)
Fill(c, n) ==
    LET b   == c.scBottom + n
        new == c.scBottom + 1..b
        e   == IF new \cap Broken = {} THEN c
               ELSE vSetupException([c EXCEPT !.scBottom = Min(new \cap Broken)],
                                    DBR1_EXCEPTION)
    IN  [e EXCEPT
            !.scBottom = b,
            !.sCacheMem = [i \in StackIndex |->
                LET a == WordIn(i, b)
                IN  IF a \notin new THEN @[i]
                    ELSE IF a \in Broken THEN Garbage ELSE c.mem[a]]]

(* The dribbler: n words less at the bottom, written to memory unless an   *)
(* exception is pending.                                                   *)
Spill(c, n) ==
    [c EXCEPT
        !.scBottom = @ - n,
        !.mem = [a \in Addr |->
            IF a \in c.scBottom - n + 1..c.scBottom /\ c.eid = NO_EXCEPTION
            THEN c.sCacheMem[Slot(a)] ELSE @[a]]]

(* Seeded fault: an underflow always discards, as a return does. *)
Outside_DiscardsAll(c, old, isReturn) ==
    LET e == IF c.scBottom - c.optop > SCACHE_SIZE
             THEN Spill(c, c.scBottom - old) ELSE c
    IN  Fill([e EXCEPT !.scBottom = e.optop], c.fill)

(* Seeded fault: SC_BOTTOM does not follow OPTOP before the reads. *)
Outside_BottomKept(c, old, isReturn) ==
    LET e == IF c.scBottom - c.optop > SCACHE_SIZE \/ ~isReturn
             THEN Spill(c, c.scBottom - old) ELSE c
    IN  Fill(e, c.fill)

(* OPTOP left the window: the old entries are written, unless a return     *)
(* popped them all; the new ones are read.                                 *)
Outside(c, old, isReturn) ==
    LET e == IF c.scBottom - c.optop > SCACHE_SIZE \/ ~isReturn
             THEN Spill(c, c.scBottom - old) ELSE c
    IN  Fill([e EXCEPT !.scBottom = e.optop], c.fill)

(* Seeded fault: the fill stops one word below the mark. *)
vUpdateSCache_FillShort(c, old, isReturn) ==
    LET n == c.scBottom - c.optop
    IN  IF n > SCACHE_SIZE \/ n < 0 THEN Outside(c, old, isReturn)
        ELSE IF n < c.fill THEN Fill(c, c.fill - n - 1)
        ELSE IF n > c.spill THEN Spill(c, n - c.spill)
        ELSE c

vUpdateSCache(c, old, isReturn) ==
    LET n == c.scBottom - c.optop
    IN  IF n > SCACHE_SIZE \/ n < 0 THEN Outside(c, old, isReturn)
        ELSE IF n < c.fill THEN Fill(c, c.fill - n)
        ELSE IF n > c.spill THEN Spill(c, n - c.spill)
        ELSE c

(* vUpdateGR (GR_optop, value): refused beyond the limit, except for a     *)
(* trap frame.                                                             *)
Refused(c, value) == c.limited /\ c.oplim > value

Moved(c, value, isReturn) ==
    LET e == [c EXCEPT !.optop = value]
    IN  IF c.dre THEN vUpdateSCache(e, c.optop, isReturn) ELSE e

(* Seeded fault: the limit is tested after OPTOP has moved. *)
vUpdateOptop_MovesFirst(c, value, isReturn) ==
    LET e == Moved(c, value, isReturn)
    IN  IF Refused(c, value)
        THEN [vSetupException(e, OPLIM_EXCEPTION) EXCEPT !.limited = FALSE]
        ELSE e

vUpdateOptop(c, value, isReturn) ==
    IF Refused(c, value)
    THEN [vSetupException(c, OPLIM_EXCEPTION) EXCEPT !.limited = FALSE]
    ELSE Moved(c, value, isReturn)

(* vUpdateGR (GR_oplim, value) for a value with the enable bit set.        *)
vUpdateOplim(c, value) ==
    LET e == [c EXCEPT !.oplim = value, !.limited = TRUE]
    IN  IF value > c.optop
        THEN [vSetupException(e, OPLIM_EXCEPTION) EXCEPT !.limited = FALSE]
        ELSE e

(* Seeded fault: a trap frame beyond the limit leaves the limit enabled. *)
invoke_trap_LimitKept(c, f) ==
    LET e == Moved(c, c.optop - TrapWords, FALSE)
        W == e.optop + 1..e.optop + TrapWords
    IN  [WriteAll([e EXCEPT !.eid = NO_EXCEPTION], W, f) EXCEPT !.eid = e.eid]

(* invoke_trap: the frame is written even when an exception is pending.    *)
invoke_trap(c, f) ==
    LET d == IF c.limited /\ c.optop - TrapWords < c.oplim
             THEN [c EXCEPT !.limited = FALSE] ELSE c
        e == Moved(d, d.optop - TrapWords, FALSE)
        W == e.optop + 1..e.optop + TrapWords
    IN  [WriteAll([e EXCEPT !.eid = NO_EXCEPTION], W, f) EXCEPT !.eid = e.eid]

(* vDespatchPendingException: back to the registers saved by the first     *)
(* exception, then the trap.                                               *)
Restored(c) ==
    [c EXCEPT !.optop = c.saved.optop, !.scBottom = c.saved.scBottom,
              !.saved = NoState, !.eid = NO_EXCEPTION]

(* What the program writes into a frame, a function of the word.           *)
Frames == {[a \in Addr |-> IF a \in Watched THEN f[a] ELSE 0] : f \in [Watched -> Values]}

(* What a step tells of itself; words are the words it wrote.              *)
Words(W, f) == [a \in W |-> f[a]]
Pushes(c, n, f) == [kind |-> "push",
                    words |-> Words(c.optop - n + 1..c.optop, f)]
Pops(n)     == [kind |-> "pop", n |-> n]
Wrote(kind, a, v) == [kind |-> kind, words |-> [b \in {a} |-> v]]

(* An instruction that traps has only pushed the frame; a change of stacks *)
(* stands.                                                                 *)
Trapped(done, frame) ==
    IF done.kind = "switch"
    THEN [kind |-> "switch and trap", n |-> done.n, words |-> frame.words]
    ELSE frame

(* The end of an instruction, on stack s: the trap of a pending exception. *)
Ends(c, s, done) ==
    \E f \in Frames :
        LET r == Restored(c)
            d == IF c.eid = NO_EXCEPTION THEN c ELSE invoke_trap(r, f)
        IN  /\ d.optop >= Low(s)      \* Bound: the depth of a stack
            /\ cpu' = d
            /\ op' = IF c.eid = NO_EXCEPTION THEN done
                     ELSE Trapped(done, Pushes(r, TrapWords, f))

Stays(c, done) ==
    /\ Ends(c, thread, done)
    /\ UNCHANGED <<thread, parked>>

(* SIZE_AND_STACK_RETURN: n words are pushed, or -n popped.                *)
SizeAndStackReturn(c, n, done) ==
    Stays(vUpdateOptop(c, c.optop - n, FALSE), done)

-----------------------------------------------------------------------------
(* initPico, and the reset code up to the word it will write to PSR to     *)
(* turn the dribbler on.                                                   *)
Init ==
    /\ thread = 0
    /\ parked = Base(1)
    /\ \E m \in Marks :
       cpu = [optop |-> Base(0) - 1, scBottom |-> Base(0), fill |-> m[1], spill |-> m[2],
              dre |-> FALSE, oplim |-> 0, limited |-> FALSE,
              eid |-> NO_EXCEPTION, saved |-> NoState,
              sCacheMem |-> [i \in StackIndex |-> SCACHE_INIT_VALUE],
              mem |-> [a \in Addr |-> 0]]
    /\ op = [kind |-> "none"]

(* The live words.                                                         *)
InUse == cpu.optop + 1..Base(thread)

(* Constants, dup, arithmetic: n words are pushed.                         *)
push(n) ==
    \E f \in Frames :
        SizeAndStackReturn(
            WriteAll(cpu, cpu.optop - n + 1..cpu.optop, f), n, Pushes(cpu, n, f))

(* pop, pop2, conditional branches: n words are popped.                    *)
pop(n) ==
    /\ cpu.optop + n <= Base(thread)
    /\ SizeAndStackReturn(cpu, -n, Pops(n))

iinc(a) ==
    /\ a \in InUse
    /\ \E v \in Data(a) :
          SizeAndStackReturn(StackWrite(StackRead(cpu, a), a, v), 0,
                             Wrote("modify", a, v))

iload(a) ==
    /\ a \in InUse
    /\ Visible(cpu, a) \in Data(cpu.optop) \cup {Garbage}
    /\ SizeAndStackReturn(
          StackWrite(StackRead(cpu, a), cpu.optop, Visible(cpu, a)), 1,
          [kind |-> "load", addr |-> a])

istore(a) ==
    /\ a \in InUse \ {cpu.optop + 1}
    /\ Visible(cpu, cpu.optop + 1) \in Data(a) \cup {Garbage}
    /\ SizeAndStackReturn(
          StackWrite(cpu, a, Visible(cpu, cpu.optop + 1)), -1,
          [kind |-> "store", addr |-> a])

(* OPTOP moves first; if it is refused the writes are dropped.             *)
dup_x1 ==
    LET c == vUpdateOptop(cpu, cpu.optop - 1, FALSE)
        o == c.optop
        f == [a \in Addr |-> CASE a = o + 1 -> Visible(c, o + 2)
                               [] a = o + 2 -> Visible(c, o + 3)
                               [] a = o + 3 -> Visible(c, o + 2)
                               [] OTHER -> 0]
    IN  /\ cpu.optop + 2 <= Base(thread)
        /\ \A a \in o + 1..o + 3 : f[a] \in Data(a) \cup {Garbage}
        /\ SizeAndStackReturn(WriteAll(c, o + 1..o + 3, f), 0, [kind |-> "dup_x1"])

(* setupMethodCall: OPTOP goes to its new value to see whether the limit     *)
(* allows it, goes back, makes room for the locals a word at a time, and   *)
(* writes the frame beyond OPTOP.  The locals are what was there.          *)
Room(c, n) ==
    LET d[i \in 0..n] == IF i = 0 THEN c
                         ELSE vUpdateOptop(d[i - 1], d[i - 1].optop - 1, FALSE)
    IN  d[n]

setupMethodCall(nlocals) ==
    LET new == cpu.optop - nlocals - FrameWords
        c   == vUpdateOptop(cpu, new, FALSE)
        d   == Room(vUpdateOptop(c, cpu.optop, FALSE), nlocals)
    IN  /\ new >= Low(thread)         \* Bound
        /\ \E f \in Frames :
              LET e == IF c.eid # NO_EXCEPTION THEN c
                       ELSE vUpdateOptop(WriteAll(d, new + 1..d.optop, f), new, FALSE)
              IN  Stays(e, [kind |-> "push",
                            words |-> [a \in new + 1..cpu.optop |->
                                          IF a <= d.optop THEN f[a] ELSE Visible(e, a)]])

(* The reads of a return's frame; one word that is not broken stands for   *)
(* all of them.                                                            *)
FrameRead(a) == StackRead(cpu, a)
FrameOf(k, a) == (cpu.optop + k + 1..a) \cap (Broken \cup {a})

(* VARS of a method with a k-word result: its frame and the result are     *)
(* below it.                                                               *)
VarsOf(k) == cpu.optop + k + FrameWords..Base(thread)

Returns(k, a) == [kind |-> "return", k |-> k, top |-> a - k]

(* return, ireturn, lreturn and the like: the frame is read through FRAME, *)
(* the k words of the result are copied to VARS, then OPTOP moves there    *)
(* and what was popped is discarded.                                       *)
xreturn(k, a, f) ==
    LET res == [b \in Addr |-> IF b \in a - k + 1..a
                               THEN Visible(cpu, cpu.optop + k - (a - b)) ELSE 0]
        c   == WriteAll(FrameRead(f), a - k + 1..a, res)
    IN  /\ a \in VarsOf(k) /\ f \in FrameOf(k, a)
        /\ \A b \in a - k + 1..a : res[b] \in Data(b) \cup {Garbage}
        /\ Stays(vUpdateOptop(c, a - k, TRUE), Returns(k, a))

(* return0, return1, return2: OPTOP moves first, the result is then pushed *)
(* in place.                                                               *)
returnK(k, a) ==
    LET c   == vUpdateOptop(cpu, a - k, TRUE)
        res == [b \in Addr |-> IF b \in a - k + 1..a
                               THEN Visible(cpu, cpu.optop + k - (a - b)) ELSE 0]
    IN  /\ a \in VarsOf(k)
        /\ \A b \in a - k + 1..a : res[b] \in Data(b) \cup {Garbage}
        /\ Stays(WriteAll(c, a - k + 1..a, res), Returns(k, a))

(* PSR gets its marks back before OPTOP moves; nothing is discarded.       *)
priv_ret_from_trap(a, m) ==
    /\ a \in cpu.optop + TrapWords..Base(thread)
    /\ Stays(vUpdateOptop([cpu EXCEPT !.fill = m[1], !.spill = m[2]], a, FALSE),
             Returns(0, a))

priv_write_psr(m) ==
    /\ cpu.optop + 1 <= Base(thread)
    /\ SizeAndStackReturn(
          [cpu EXCEPT !.fill = m[1], !.spill = m[2], !.dre = TRUE], -1, Pops(1))

priv_write_oplim(v) ==
    /\ cpu.optop + 1 <= Base(thread)
    /\ SizeAndStackReturn(vUpdateOplim(cpu, v), -1, Pops(1))

(* The program changes stacks; the n operands come off the old one.        *)
Switches(c, n) ==
    /\ cpu.optop + n <= Base(thread)
    /\ Ends(c, 1 - thread, [kind |-> "switch", n |-> n])
    /\ thread' = 1 - thread
    /\ parked' = cpu.optop + n

write_optop ==
    LET c == vUpdateOptop(cpu, parked, FALSE)
    IN  IF Refused(cpu, parked) THEN Stays(c, Pops(1)) ELSE Switches(c, 1)

(* The limit is off while OPTOP moves.                                     *)
priv_update_optop(v) ==
    LET c == vUpdateOptop([cpu EXCEPT !.oplim = v, !.limited = FALSE], parked, FALSE)
    IN  Switches(vUpdateOplim(c, v), 2)

(* An interrupt, NMI, soft_trap or an instruction that traps.              *)
trap ==
    \E f \in Frames :
        LET c == invoke_trap(cpu, f)
        IN  /\ c.optop >= Low(thread)     \* Bound
            /\ cpu' = c
            /\ op' = Pushes(cpu, TrapWords, f)
            /\ UNCHANGED <<thread, parked>>

(* sim_write of the debugger: a word of type N, which is for memory.       *)
sim_write(a, v) ==
    /\ a \in InUse \cup (parked + 1..Base(1 - thread))
    /\ v \in Data(a)
    /\ PokeCached \/ ~Hits(cpu, a)
    /\ cpu' = [cpu EXCEPT !.mem[a] = v]
    /\ op' = Wrote("poke", a, v)
    /\ UNCHANGED <<thread, parked>>

Next ==
    \/ \E m \in Marks : priv_write_psr(m)
    \/ /\ cpu.dre
       /\ \/ \E n \in 1..2 : push(n) \/ pop(n)
          \/ \E a \in InUse : iinc(a) \/ iload(a) \/ istore(a)
          \/ dup_x1
          \/ \E l \in Locals : setupMethodCall(l)
          \/ \E k \in 0..2, a \in InUse : returnK(k, a) \/ \E f \in InUse : xreturn(k, a, f)
          \/ \E a \in InUse, m \in Marks : priv_ret_from_trap(a, m)
          \/ \E v \in Limits : priv_write_oplim(v) \/ priv_update_optop(v)
          \/ write_optop
          \/ trap
          \/ \E a \in Addr, v \in Values : sim_write(a, v)

Spec == Init /\ [][Next]_<<vars, op>>

-----------------------------------------------------------------------------
TypeOK ==
    /\ cpu.optop \in Low(thread)..Base(thread)
    /\ cpu.scBottom - cpu.optop \in 0..SCACHE_SIZE
    /\ cpu.sCacheMem \in [StackIndex -> Contents]
    /\ cpu.mem \in [Addr -> Contents]
    /\ <<cpu.fill, cpu.spill>> \in Marks
    /\ cpu.eid \in {NO_EXCEPTION, OPLIM_EXCEPTION, DBR1_EXCEPTION}
    /\ thread \in Stacks
    /\ parked \in Low(1 - thread)..Base(1 - thread)

(* docs/html/scache.html:37: accesses at an offset from OPTOP always hit:  *)
(* the top words of the stack and the two empty words above it.            *)
OffsetsHit ==
    cpu.dre => \A k \in -1..Operands : Hits(cpu, cpu.optop + k)

(* OPTOP is never beyond an enabled limit.                                 *)
LimitHolds == cpu.limited => cpu.optop >= cpu.oplim

(* What each stack holds: the one in use as the stack cache and memory     *)
(* give it, the other as memory does.                                      *)
Word(a) ==
    IF a \in InUse THEN Visible(cpu, a)
    ELSE IF a \in parked + 1..Base(1 - thread) THEN cpu.mem[a]
    ELSE Dead

(* The stack cache is transparent: dribbling, overflow, underflow, returns *)
(* that discard, changes of stack, traps and refused updates of OPTOP      *)
(* never lose, change or exchange a live word of either stack, and each    *)
(* instruction leaves the words it promises.                               *)
Stack ==
    INSTANCE OperandStacks
    WITH top <- [s \in Stacks |-> IF s = thread THEN cpu.optop ELSE parked],
         word <- [a \in UNION {Low(s) + 1..Base(s) : s \in Stacks} |-> Word(a)]
ImplementsStack == Stack!Spec

(* docs/html/scache.html:62: what the program sees does not depend on when *)
(* the dribbler runs.  No live word is replaced by what a failed dribble   *)
(* read left in a variable of the simulator.                               *)
NothingLost == \A a \in InUse : Word(a) # Garbage

(* docs/html/scache.html:34: debug accesses always go through the stack    *)
(* cache.  What the debugger has written is what the program sees.         *)
DebuggerWritesArrive ==
    [][\A a \in Addr, v \in Values : sim_write(a, v) => Visible(cpu', a) = v]_vars
=============================================================================
