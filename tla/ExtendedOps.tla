---------------------------- MODULE ExtendedOps -----------------------------
(***************************************************************************)
(* The extended instructions: vDoExtOp of tools/iam/src/ext_ops.c.         *)
(*                                                                         *)
(* Loads and stores are "ext_load" and "ext_store": t is the type of the   *)
(* access, x is 1 in the noncacheable ones and y is 1 in those of opposite *)
(* endianness.  In "read_reg" and "write_reg", t names the register.       *)
(*                                                                         *)
(* The machine has no caches (hcr.dcs and hcr.ics are 0): what the cache   *)
(* instructions do to caches is the subject of DataCache and Caches; here  *)
(* they do what is left of them, to the stack and to PC.                   *)
(***************************************************************************)
EXTENDS Bytecodes

CONSTANT boot8        \* TRUE if the simulator boots from an 8 bit ROM

(***************************************************************************)
(* The addresses with a meaning of their own.  A noncacheable word store   *)
(* to the first ends the simulation, to the second it takes back the       *)
(* interrupts that are signalled.  END_ADDRESS1 is larger than any masked  *)
(* address, so that it never compares equal.                               *)
(***************************************************************************)
END_ADDRESS == 8188
EOI_ADDRESS == 8184
DEBUGGER_SERIAL_PORT_ADDRESS == 12256

NonPriv(m) == ~Bit(m.psr, PSR.SU)
PrivTrap(m) == vSetupException(m, Exc.PRIV_INSTR)

-----------------------------------------------------------------------------
(***************************************************************************)
(* OPTOP and OPLIM are updated in three stages, so that the limit is       *)
(* looked at when both have their new values.                              *)
(***************************************************************************)
PrivUpdateOptop(m, i) ==
    Then(ReadWord(m, OPTOP_OFFSET(m, 2), "O"), LAMBDA l :
    Then(Top(UpdateOplim(l.m, l.v % TopBit), 1), LAMBDA o :
    SizeAndStack(UpdateOplim(UpdateOptop(o.m, o.v[1]), l.v), i.len, 0)))

(***************************************************************************)
(* zero_line and cache_invalidate check the address as a store; they call  *)
(* causes_mem_prot_error without the type of the access, which is then     *)
(* whatever the machine has in its place, m.type.                          *)
(***************************************************************************)
ZeroLine(m, i) ==
    Then(Top(m, 1), LAMBDA r :
    IF ~Bit(r.m.psr, PSR.DCE) \/ IS_NC_ADDRESS(r.v[1])
    THEN LowPriorityTrap(r.m, TT.ZeroLineEmulationTrap) ELSE
    Then(AccessFault(r.m, r.v[1] % AddrSpace, m.type, FALSE), LAMBDA eid :
    IF eid # Exc.NO THEN vSetupException(r.m, eid)
    ELSE SizeAndStack(r.m, i.len, -1)))

CacheFlush(m, i) ==
    Then(Top(m, 2), LAMBDA r :
    LET next == IF i.op = "cache_index_flush" /\ Bit(r.m.psr, PSR.DCE)
                THEN r.v[1] ELSE Word(r.v[1] + r.v[2])
    IN  SizeAndStack(PutStack(r.m, <<<<1, next>>>>), i.len, 0))

CacheInvalidate(m, i) ==
    Then(Top(m, 1), LAMBDA a :
    Then(AccessFault(a.m, a.v[1], m.type, FALSE), LAMBDA eid :
    IF eid # Exc.NO THEN vSetupException(a.m, eid)
    ELSE CacheFlush(a.m, i)))

(***************************************************************************)
(* Without a cache a tag or data word read is what the variable held.      *)
(***************************************************************************)
ReadCache(m, i) ==
    IF NonPriv(m) THEN PrivTrap(m)
    ELSE LET r == Top(m, 1) IN
         SizeAndStack(PutStack(r.m, <<<<1, r.m.junk>>>>), i.len, 0)
WriteCache(m, i) ==
    IF NonPriv(m) THEN PrivTrap(m) ELSE SizeAndStack(Top(m, 2).m, i.len, -2)

PrivRetFromTrap(m) ==
    IF NonPriv(m) THEN PrivTrap(m) ELSE
    Then(FromFrame(m, 1), LAMBDA s :
    Then(FromFrame(TakePc(s.m), -1), LAMBDA v :
    Then(FromFrame(v.m, -2), LAMBDA f :
    UpdateOptop(UpdatePsr([f.m EXCEPT !.frame = f.v, !.vars = v.v], s.v),
                m.vars))))

-----------------------------------------------------------------------------
(***************************************************************************)
(* Registers.                                                              *)
(***************************************************************************)
UserRegs == {"pc", "vars", "frame", "optop", "const_pool", "global"}
PlainRegs == {"userrange1", "userrange2", "gcConfig", "brk1a", "brk2a",
              "brk12c", "psr"}
WordRegs == {"vars", "frame", "const_pool"}
LockRegNames == {"lockCount", "lockAddr"}
Globals == 0..3

RegValue(m, i) == IF i.t \in LockRegNames \cup {"global"}
                  THEN m[i.t][i.x] ELSE m[i.t]

ReadReg(m, i) == IF i.t \notin UserRegs /\ NonPriv(m) THEN PrivTrap(m)
                 ELSE Push(m, i, <<RegValue(m, i)>>)

KeepTT(m, v) == (v - (v % 2^11)) + (((m.trapbase % 2^11) \div 8) * 8)
LockBits(v)  == (v % 2^8) + ((v \div AddrSpace) * AddrSpace)

SetReg(m, i, v) ==
    CASE i.t \in PlainRegs -> [m EXCEPT ![i.t] = v]
      [] i.t \in WordRegs  -> [m EXCEPT ![i.t] = Align(v)]
      [] i.t = "scBottom"  -> [m EXCEPT !.scBottom = Align(v)]
      [] i.t = "global"    -> [m EXCEPT !.global[i.x] = v]
      [] i.t = "trapbase"  -> [m EXCEPT !.trapbase = KeepTT(m, v)]
      [] i.t = "lockCount" -> [m EXCEPT !.lockCount[i.x] = LockBits(v)]
      [] i.t = "lockAddr"  -> [m EXCEPT !.lockAddr[i.x] = Align(v)]
      [] i.t = "oplim"     -> UpdateOplim(m, v)

\* Seeded fault: any program may write any register.
WriteReg_Fault(m, i) ==
    Then(Top(m, 1), LAMBDA r :
    IF i.t = "pc" THEN SizeAndStack([r.m EXCEPT !.pc = r.v[1]], 0, -1)
    ELSE IF i.t = "optop"
         THEN SizeAndStack(UpdateOptop(r.m, Align(r.v[1])), i.len, 0)
    ELSE SizeAndStack(SetReg(r.m, i, r.v[1]), i.len, -1))

WriteReg(m, i) ==
    Then(Top(m, 1), LAMBDA r :
    IF i.t \notin UserRegs /\ NonPriv(m) THEN PrivTrap(m)
    ELSE IF i.t = "pc"
         THEN SizeAndStack([r.m EXCEPT !.pc = r.v[1]], 0, -1)
    ELSE IF i.t = "optop"
         THEN SizeAndStack(UpdateOptop(r.m, Align(r.v[1])), i.len, 0)
    ELSE SizeAndStack(SetReg(r.m, i, r.v[1]), i.len, -1))

-----------------------------------------------------------------------------
(***************************************************************************)
(* Calls of C functions: the target and the number of arguments are on the *)
(* stack, VARS and PC are saved in their place.  The n words of the result *)
(* are written after OPTOP has moved, the top one first.                   *)
(***************************************************************************)
Call(m, i) ==
    Then(Top(m, 2), LAMBDA r :
    [PutStack(r.m, <<<<2, m.vars>>, <<1, Word(m.pc + i.len)>>>>) EXCEPT
        !.vars = Word(m.optop + r.v[1] * JAVAWORDSIZE), !.pc = r.v[2]])

ReturnN(m, n) ==
    Then(Top(m, n + 2), LAMBDA r :
    LET m1 == UpdateOptop([r.m EXCEPT !.pc = r.v[n + 1]],
                          m.vars - n * JAVAWORDSIZE)
    IN  PutStack([m1 EXCEPT !.vars = r.v[n + 2]],
                 [k \in 1..n |-> <<k, r.v[k]>>]))

(***************************************************************************)
(* A reset leaves the user ranges, the addresses of the breakpoints, the   *)
(* lock registers and the globals.                                         *)
(***************************************************************************)
StackBase == 1020     \* 0x3ffffc
initPico(m) ==
    [m EXCEPT !.bPowerDownState = FALSE, !.bNMIState = FALSE,
              !.uIRLState = 0, !.vars = StackBase, !.oplim = 0,
              !.trapbase = 0, !.frame = 0, !.const_pool = 0, !.pc = 0,
              !.gcConfig = 0, !.brk12c = 0, !.optop = StackBase,
              !.scBottom = StackBase,
              !.psr = 2^PSR.SU + (IF boot8 THEN 2^PSR.BM8 ELSE 0)]

PrivReset(m) == IF NonPriv(m) THEN PrivTrap(m) ELSE initPico(m)
PrivPowerdown(m, i) ==
    IF NonPriv(m) THEN PrivTrap(m)
    ELSE SizeAndStack([m EXCEPT !.bPowerDownState = TRUE], i.len, 0)

-----------------------------------------------------------------------------
(***************************************************************************)
(* Loads and stores.  A byte at the address of the serial port goes to the *)
(* debugger, which is outside of the machine.                              *)
(***************************************************************************)
NonCacheable(i, a) == i.x = 1 \/ IS_NC_ADDRESS(a)
LittleEndian(i, a) == (i.y = 1) # IS_LE_ADDRESS(a)
ToSerialPort(i, a) == /\ i.t \in {"byte", "ubyte"}
                      /\ NonCacheable(i, a)
                      /\ a % AddrSpace = DEBUGGER_SERIAL_PORT_ADDRESS

ExtLoad(m, i) ==
    Then(Top(m, 1), LAMBDA a :
    LET m1 == CHECK_ADDRESS_ALIGNMENT(a.m, a.v[1], i.t) IN
    Then(IF ToSerialPort(i, a.v[1])
         THEN [m |-> m1, v |-> m1.junk % 2^ByteBits]
         ELSE LoadValue(m1, a.v[1], i.t, NonCacheable(i, a.v[1]),
                        LittleEndian(i, a.v[1])), LAMBDA r :
    Result(r.m, i, 1, 1, <<r.v>>)))

(***************************************************************************)
(* The mailboxes are served after the store, whether memory took it or an  *)
(* exception is pending.                                                   *)
(***************************************************************************)
Mailbox(m, i, a, v) ==
    IF ~(i.x = 1 /\ i.t = "word") THEN m
    ELSE IF a = END_ADDRESS
         THEN [m EXCEPT !.end_of_simulation = TRUE, !.program_exit_code = v]
    ELSE IF a = EOI_ADDRESS
         THEN [m EXCEPT !.uIRLState = 0, !.bNMIState = FALSE]
    ELSE m

ExtStore(m, i) ==
    Then(Top(m, 1), LAMBDA a :
    LET m1 == CHECK_ADDRESS_ALIGNMENT(a.m, a.v[1], i.t)
        le == LittleEndian(i, a.v[1]) IN
    Then(ReadWord(m1, OPTOP_OFFSET(m1, 2), "O"), LAMBDA r :
    Then(IF ToSerialPort(i, a.v[1]) THEN r.m
         ELSE StoreValue(r.m, a.v[1], r.v, i.t,
                         IF NonCacheable(i, a.v[1]) THEN "N" ELSE "Z", le),
         LAMBDA m2 :
    SizeAndStack(Mailbox(m2, i, a.v[1] % AddrSpace, Endian(r.v, 2, le)),
                 i.len, -2))))

Iucmp(m, i) ==
    Then(Top(m, 2), LAMBDA r :
    Result(r.m, i, 2, 1, <<Order(r.v[2] < r.v[1], r.v[1] < r.v[2])>>))

-----------------------------------------------------------------------------
(***************************************************************************)
(* The switch.                                                             *)
(***************************************************************************)
vDoExtOp(m, i) ==
    CASE i.op = "priv_update_optop" ->
             IF NonPriv(m) THEN PrivTrap(m) ELSE PrivUpdateOptop(m, i)
      [] i.op = "get_current_class" -> doGetCurrentClass(m, i)
      [] i.op = "zero_line"         -> ZeroLine(m, i)
      [] i.op \in {"cache_flush", "cache_index_flush"} -> CacheFlush(m, i)
      [] i.op = "cache_invalidate"  -> CacheInvalidate(m, i)
      [] i.op = "soft_trap"         -> LowPriorityTrap(m, TT.soft_trap)
      [] i.op = "priv_read_cache"   -> ReadCache(m, i)
      [] i.op = "priv_write_cache"  -> WriteCache(m, i)
      [] i.op = "priv_ret_from_trap" -> PrivRetFromTrap(m)
      [] i.op = "read_reg"          -> ReadReg(m, i)
      [] i.op = "write_reg"         -> WriteReg(m, i)
      [] i.op = "call"              -> Call(m, i)
      [] i.op = "return_n"          -> ReturnN(m, i.x)
      [] i.op = "priv_reset"        -> PrivReset(m)
      [] i.op = "priv_powerdown"    -> PrivPowerdown(m, i)
      [] i.op = "ext_load"          -> ExtLoad(m, i)
      [] i.op = "ext_store"         -> ExtStore(m, i)
      [] i.op = "iucmp" /\ proc_type # "pico" -> Iucmp(m, i)
      [] OTHER -> LowPriorityTrap(m, TT.illegal_instr)
ExtendedInstructions ==
    {"priv_update_optop", "get_current_class", "zero_line", "cache_flush",
     "cache_index_flush", "cache_invalidate", "soft_trap",
     "priv_read_cache", "priv_write_cache", "priv_ret_from_trap",
     "read_reg", "write_reg", "call", "return_n", "priv_reset",
     "priv_powerdown", "ext_load", "ext_store", "iucmp", "ext_illegal"}
=============================================================================
