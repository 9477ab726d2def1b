------------------------------ MODULE Machine -------------------------------
(***************************************************************************)
(* The machine the instruction accurate simulator (IAS) interprets: its    *)
(* registers and memory, the access routines of javamem.c, the exceptions  *)
(* of exception.c, trap entry of traps.c, the register updates of          *)
(* global_regs.c and the hardware breakpoints of iam.c.                    *)
(*                                                                         *)
(* A state of the machine is one record m, and what the simulator does is  *)
(* a function from states to states, so that an instruction is the         *)
(* composition of its reads and writes in the order of the code.           *)
(*                                                                         *)
(* Scale.  A word has four bytes of four bits: 16 bits.  The code's masks  *)
(* keep their shape: the two top bits of an address are dropped (bit 14    *)
(* says little endian, bits 13 and 12 both set say noncacheable), OPLIM is *)
(* enabled by the top bit, the user ranges are two halves in units of 64.  *)
(* The data cache is left out (DataCache shows that it is a memory) and    *)
(* the dribbler is off (it is StackCache's subject), so the stack cache is *)
(* a window of fixed place in front of memory.                             *)
(***************************************************************************)
EXTENDS Integers, SequencesExt

CONSTANTS
    Image,        \* the words of memory at the start; no others exist
    IoSpace,      \* the addresses from BAD_IO_START on
    Code,         \* the instructions, by address, decoded
    SCACHE_SIZE,  \* words the stack cache holds
    proc_type,    \* "pico", "maya" or "pico2"
    fpp,          \* TRUE if hcr.fpp says that there is an FPU
    Brk12c,       \* what a value of the register brk12c means
    GcConfig      \* what a value of the register gcConfig means

JAVAWORDSIZE == 4
ByteBits  == 4
WordSize  == 2^16        \* a word, 2^32 in the code
AddrSpace == 2^14        \* & 0x3FFFFFFF
TopBit    == 2^15        \* the sign, and the enable bit of OPLIM

Words     == 0..(WordSize - 1)
Word(n)   == n % WordSize
Signed(w) == IF w >= TopBit THEN w - WordSize ELSE w
Bit(w, b) == (w \div 2^b) % 2 = 1
SetBit(w, b)   == IF Bit(w, b) THEN w ELSE w + 2^b
ResetBit(w, b) == IF Bit(w, b) THEN w - 2^b ELSE w
Align(a)  == a - (a % JAVAWORDSIZE)
SignExtend(n, bits) == IF Bit(n, bits - 1) THEN Word(n - 2^bits) ELSE n

ASSUME MachineAssumption ==
    /\ \A a \in DOMAIN Image : Image[a] \in Words
    /\ SCACHE_SIZE \in Nat \ {0}
    /\ proc_type \in {"pico", "maya", "pico2"}
    /\ fpp \in BOOLEAN

(***************************************************************************)
(* PSR.  CAC is bit 22 in the code; the instruction cache's enable bit,    *)
(* which nothing here reads, gives it its place.                           *)
(***************************************************************************)
PSR == [IE |-> 4, SU |-> 5, FLE |-> 6, AEM |-> 8, CAC |-> 9, DCE |-> 10,
        FPE |-> 11, GCE |-> 12, ACE |-> 13, BM8 |-> 14, DREM |-> 15]
Pil(psr) == psr % 16

(***************************************************************************)
(* Exceptions by priority, and the trap each one takes.                    *)
(***************************************************************************)
Exc == [NO |-> 0, ASYNC |-> 2, MEM_PROT |-> 3, OPLIM |-> 4, DBR1 |-> 5,
        DBR2 |-> 6, INSTR_ACC |-> 7, ILLEGAL_INSTR |-> 8, PRIV_INSTR |-> 9,
        UNALIGNED |-> 10, DATA_ACC |-> 11, IO_ACC |-> 12]

TT == [async_err |-> 1, mem_prot_err |-> 2, data_acc_mem_err |-> 3,
       instr_acc_mem_err |-> 4, priv_instr |-> 5, illegal_instr |-> 6,
       breakpoint1 |-> 7, breakpoint2 |-> 8, mem_addr_not_aligned |-> 9,
       data_acc_io_err |-> 10, oplim_trap |-> 12, soft_trap |-> 13,
       arithmetic_excep |-> 22, indexoutofbnds_excep |-> 25,
       nullptr_excep |-> 27, lock_count_overflow_trap |-> 35,
       lock_enter_miss_trap |-> 36, lock_release_trap |-> 37,
       lock_exit_miss_trap |-> 38, gc_notify |-> 39,
       ZeroLineEmulationTrap |-> 41, nmi |-> 48,
       interrupt_level_tt_base |-> 49]

ExceptionTrap ==
    <<0, TT.async_err, TT.mem_prot_err, TT.oplim_trap, TT.breakpoint1,
      TT.breakpoint2, TT.instr_acc_mem_err, TT.illegal_instr, TT.priv_instr,
      TT.mem_addr_not_aligned, TT.data_acc_mem_err, TT.data_acc_io_err>>

(***************************************************************************)
(* The part of the state vSaveCPUState saves and the despatch restores.    *)
(* OPLIM, the lock registers, the breakpoint registers, gcConfig, the      *)
(* globals and memory are not in it.                                       *)
(***************************************************************************)
SavedCPU(m) ==
    [pc |-> m.pc, vars |-> m.vars, frame |-> m.frame, optop |-> m.optop,
     const_pool |-> m.const_pool, psr |-> m.psr, trapbase |-> m.trapbase,
     userrange1 |-> m.userrange1, userrange2 |-> m.userrange2,
     scBottom |-> m.scBottom]

NoException == [id |-> Exc.NO]
bAnyExceptionPending(m) == m.exc.id # Exc.NO
vClearAllExceptions(m)  == [m EXCEPT !.exc = NoException]

vSetupException(m, eid) ==
    IF ~bAnyExceptionPending(m)
    THEN [m EXCEPT !.exc = [id |-> eid, cpu |-> SavedCPU(m)]]
    ELSE IF eid < m.exc.id THEN [m EXCEPT !.exc.id = eid] ELSE m

-----------------------------------------------------------------------------
(***************************************************************************)
(* Who may touch an address: the user ranges and the hardware breakpoints. *)
(***************************************************************************)
InRange(range, a) ==
    /\ a >= (range % 2^8) * 2^6
    /\ a < (range \div 2^8) * 2^6

causes_mem_prot_error(m, address, acc_type) ==
    LET a == address % AddrSpace IN
    /\ Bit(m.psr, PSR.ACE)
    /\ ~InRange(m.userrange1, a)
    /\ ~InRange(m.userrange2, a)
    /\ \/ proc_type # "pico" /\ Bit(m.psr, PSR.CAC)
       \/ acc_type \in {"A", "N", "Z"}

(***************************************************************************)
(* The seven mask bits of brk12c select the parts of an address that are   *)
(* compared: bits 0 to 3 one by one, bits 4 to 11, bit 12, and the rest.   *)
(***************************************************************************)
AddressPart(a, n) ==
    CASE n < 4 -> (a \div 2^n) % 2
      [] n = 4 -> (a \div 2^4) % 2^8
      [] n = 5 -> (a \div 2^12) % 2
      [] n = 6 -> a \div 2^13

NoBreakpoint == [en |-> FALSE, su |-> FALSE, src |-> 0, mask |-> {}]
Brk12cOf(w) == IF w \in DOMAIN Brk12c THEN Brk12c[w]
               ELSE [halt |-> FALSE, brk |-> <<NoBreakpoint, NoBreakpoint>>]

pico_breakpoint_match(m, n, address, data_brkpt, rnotw) ==
    LET c == Brk12cOf(m.brk12c)
        b == c.brk[n]
        brkaddr == IF n = 1 THEN m.brk1a ELSE m.brk2a
    IN  /\ b.en
        /\ ~(b.su /\ Bit(m.psr, PSR.SU))
        /\ \/ b.src = 0 /\ data_brkpt /\ rnotw
           \/ b.src = 1 /\ data_brkpt /\ ~rnotw
           \/ b.src = 3 /\ ~data_brkpt
        /\ ~(Bit(m.psr, PSR.FLE) /\ (proc_type = "pico" \/ ~data_brkpt))
        /\ ~c.halt
        /\ \A p \in b.mask : AddressPart(address, p) = AddressPart(brkaddr, p)

(***************************************************************************)
(* The exception the checks of javaMemRead and javaMemWrite raise before   *)
(* memory is reached: protection first, then the two breakpoints.          *)
(***************************************************************************)
AccessFault(m, address, c, rnotw) ==
    IF causes_mem_prot_error(m, address, c) THEN Exc.MEM_PROT
    ELSE IF pico_breakpoint_match(m, 1, address, TRUE, rnotw)
         THEN Exc.DBR1
    ELSE IF pico_breakpoint_match(m, 2, address, TRUE, rnotw)
         THEN Exc.DBR2
    ELSE Exc.NO

-----------------------------------------------------------------------------
(***************************************************************************)
(* Memory.  m.mem holds the words written so far, Image the others.  The   *)
(* types of access: "O", "V" and "F" reach the stack through OPTOP, VARS   *)
(* and FRAME, "T" writes a trap frame; these look into the stack cache.    *)
(* "N" and "Z" are loads and stores, "A" a store that does not allocate,   *)
(* "M", "B", "H", "C" and "X" the accesses of the instructions themselves. *)
(***************************************************************************)
Exists(a) == Align(a) \in DOMAIN Image
MemWord(m, a) == LET w == Align(a) IN
    IF w \in DOMAIN m.mem THEN m.mem[w] ELSE Image[w]

SCACHE_INIT_VALUE == 48879      \* 0xbeef of 0xdeadbeef
ScacheSlot(a) == (a \div JAVAWORDSIZE) % SCACHE_SIZE
ScacheHit(m, a) == /\ a <= m.scBottom
                   /\ a > m.scBottom - SCACHE_SIZE * JAVAWORDSIZE
ScacheWord(m, a) == LET s == ScacheSlot(a) IN
    IF s \in DOMAIN m.sc THEN m.sc[s] ELSE SCACHE_INIT_VALUE
StackTypes == {"O", "V", "F", "T"}

(***************************************************************************)
(* A read.  The value of a read that fails is what the variable of the     *)
(* caller held before, m.junk.                                             *)
(***************************************************************************)
ReadMemory(m, a, eid) ==
    IF eid # Exc.NO THEN [m |-> vSetupException(m, eid), v |-> m.junk]
    ELSE IF Exists(a) THEN [m |-> m, v |-> MemWord(m, a)]
    ELSE [m |-> vSetupException(m, IF a \in IoSpace THEN Exc.IO_ACC
                                   ELSE Exc.DATA_ACC),
          v |-> m.junk]

javaMemRead(m, addr, c) ==
    LET a == Align(addr) IN
    IF c \in StackTypes /\ ScacheHit(m, a)
    THEN [m |-> m, v |-> ScacheWord(m, a)]
    ELSE ReadMemory(m, a, AccessFault(m, addr, c, TRUE))

(***************************************************************************)
(* A write of 2^size bytes.  With an exception pending the stack cache is  *)
(* passed over and memory is not written, yet the checks are still made    *)
(* and may raise an exception of higher priority.  A write memory refuses  *)
(* is an asynchronous error unless PSR.AEM masks it.                       *)
(***************************************************************************)
BitsOf(size) == ByteBits * 2^size
ShiftIn(a, size) == ByteBits * (4 - 2^size - ((a % 4) - (a % 2^size)))
\* Seeded fault: the old bytes are not cleared.
PutPart_Fault(w, a, size, v) ==
    w + (v % 2^BitsOf(size)) * 2^ShiftIn(a, size)

PutPart(w, a, size, v) ==
    LET low == 2^ShiftIn(a, size)
        n   == 2^BitsOf(size)
    IN  w - ((w \div low) % n) * low + (v % n) * low
Put(f, k, v) == [x \in DOMAIN f \cup {k} |-> IF x = k THEN v ELSE f[x]]
GetPart(w, a, size) == (w \div 2^ShiftIn(a, size)) % 2^BitsOf(size)

\* Seeded fault: a pending exception does not hold back writes.
HeldBack_Fault(m, c) == FALSE

HeldBack(m, c) == bAnyExceptionPending(m) /\ c # "T"

WriteMemory(m, addr, v, size, held, eid) ==
    IF eid # Exc.NO THEN vSetupException(m, eid)
    ELSE IF held THEN m
    ELSE IF ~Exists(addr)
         THEN IF Bit(m.psr, PSR.AEM) THEN m ELSE vSetupException(m, Exc.ASYNC)
    ELSE [m EXCEPT !.mem =
             Put(@, Align(addr), PutPart(MemWord(m, addr), addr, size, v))]

javaMemWrite(m, addr, v, size, c) ==
    LET held == HeldBack(m, c) IN
    IF ~held /\ c \in StackTypes /\ ScacheHit(m, addr)
    THEN [m EXCEPT !.sc = Put(@, ScacheSlot(addr), v)]
    ELSE WriteMemory(m, addr, v, size, held, AccessFault(m, addr, c, FALSE))

ReadWord(m, a, c) == javaMemRead(m, Word(a), c)
WriteWord(m, a, c, v) == javaMemWrite(m, Word(a), v, 2, c)

OPTOP_OFFSET(m, n) == m.optop + n * JAVAWORDSIZE
VARS_OFFSET(m, n)  == m.vars + n * JAVAWORDSIZE
FRAME_OFFSET(m, n) == m.frame + n * JAVAWORDSIZE
CP_OFFSET(m, n)    == m.const_pool + n * JAVAWORDSIZE

(***************************************************************************)
(* What follows a read: the read's result, machine and value, under the    *)
(* name the rest of the instruction calls it by.                           *)
(***************************************************************************)
Then(result, Rest(_)) == Rest(result)

(***************************************************************************)
(* Reads of several words, v being the words read; the top of the stack is *)
(* word 1.  Writes of several words, an <<address, value>> each, or to the *)
(* stack an <<offset from OPTOP, value>>.                                  *)
(***************************************************************************)
ReadAll(m, addrs, c) ==
    FoldLeft(LAMBDA s, a : Then(ReadWord(s.m, a, c), LAMBDA r :
                               [m |-> r.m, v |-> Append(s.v, r.v)]),
             [m |-> m, v |-> <<>>], addrs)
Top(m, n) == ReadAll(m, [i \in 1..n |-> OPTOP_OFFSET(m, i)], "O")

WriteAll(m, c, puts) ==
    FoldLeft(LAMBDA s, p : WriteWord(s, p[1], c, p[2]), m, puts)
OnTop(m, puts) == [k \in 1..Len(puts) |->
                      <<OPTOP_OFFSET(m, puts[k][1]), puts[k][2]>>]
PutStack(m, puts) == WriteAll(m, "O", OnTop(m, puts))

-----------------------------------------------------------------------------
(***************************************************************************)
(* vUpdateGR for OPTOP and OPLIM: an update of OPTOP below an enabled      *)
(* limit is refused, raises the exception and disables the limit.          *)
(***************************************************************************)
LimitEnabled(m) == m.oplim >= TopBit
Limit(m) == Align(m.oplim % TopBit)
\* Seeded fault: the limit stays enabled.
RaiseOplim_Fault(m) == vSetupException(m, Exc.OPLIM)

RaiseOplim(m) == [vSetupException(m, Exc.OPLIM)
                    EXCEPT !.oplim = ResetBit(@, 15)]

UpdateOptop(m, value) ==
    IF LimitEnabled(m) /\ Limit(m) > Word(value)
    THEN RaiseOplim(m)
    ELSE [m EXCEPT !.optop = Word(value)]

UpdateOplim(m, value) ==
    LET n == [m EXCEPT !.oplim = Align(value)] IN
    IF LimitEnabled(n) /\ Limit(n) > n.optop THEN RaiseOplim(n) ELSE n

UpdatePsr(m, value) == [m EXCEPT !.psr = value]

(***************************************************************************)
(* SIZE_AND_STACK_RETURN moves OPTOP first and JUMP_AND_STACK moves PC     *)
(* first; the state saved for an OPLIM trap is the one in between.         *)
(***************************************************************************)
SizeAndStack(m, size, stack) ==
    LET n == UpdateOptop(m, m.optop - stack * JAVAWORDSIZE) IN
    [n EXCEPT !.pc = Word(@ + size)]
JumpAndStack(m, offset, stack) ==
    UpdateOptop([m EXCEPT !.pc = Word(@ + offset)],
                m.optop - stack * JAVAWORDSIZE)

(***************************************************************************)
(* Trap entry.  The frame is written whatever the limit says; if it does   *)
(* not fit, the trap becomes an OPLIM trap.                                *)
(***************************************************************************)
\* Seeded fault: three words of the frame are looked at.
TrapFrameFits_Fault(m) ==
    ~(LimitEnabled(m) /\ Word(m.optop - 12) < m.oplim % TopBit)

TrapFrameFits(m) ==
    ~(LimitEnabled(m) /\ Word(m.optop - 16) < m.oplim % TopBit)

(***************************************************************************)
(* Of r, the read of the trap table, the word is where the handler begins. *)
(***************************************************************************)
TrapFrame(m) == <<<<4, m.psr>>, <<3, m.pc>>, <<2, m.vars>>, <<1, m.frame>>>>
PushTrapFrame(m, frame) ==
    Then([m EXCEPT !.optop = Word(@ - 4 * JAVAWORDSIZE)], LAMBDA s :
    WriteAll(s, "T", OnTop(s, frame)))
EnterHandler(m, pc) ==
    [m EXCEPT !.pc = pc, !.frame = Word(m.optop + 3 * JAVAWORDSIZE),
              !.psr = ResetBit(SetBit(@, PSR.SU), PSR.IE)]
TakeTrap(r) == EnterHandler(PushTrapFrame(r.m, TrapFrame(r.m)), r.v)

invoke_trap(m, trap_type) ==
    LET over == trap_type # TT.oplim_trap /\ ~TrapFrameFits(m)
        tt   == IF over THEN TT.oplim_trap ELSE trap_type
        tb   == m.trapbase - (m.trapbase % 2^11) + tt * 8
    IN  TakeTrap(ReadWord([m EXCEPT !.oplim = IF over THEN ResetBit(@, 15)
                                              ELSE @,
                                    !.trapbase = tb], tb, "X"))

LowPriorityTrap(m, tt) == IF bAnyExceptionPending(m) THEN m
                          ELSE invoke_trap(m, tt)

(***************************************************************************)
(* The despatch of a pending exception: the saved registers come back and  *)
(* the trap is taken from there.  An exception raised while the frame is   *)
(* written stays pending, and the main loop clears it.                     *)
(***************************************************************************)
vDespatchPendingException(m) ==
    IF ~bAnyExceptionPending(m) THEN m
    ELSE LET eid == m.exc.id
             cpu == m.exc.cpu
         IN  invoke_trap([x \in DOMAIN m |->
                            IF x = "exc" THEN NoException
                            ELSE IF x \in DOMAIN cpu THEN cpu[x] ELSE m[x]],
                         ExceptionTrap[eid])
=============================================================================
