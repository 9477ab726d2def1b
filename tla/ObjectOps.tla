----------------------------- MODULE ObjectOps ------------------------------
(***************************************************************************)
(* The instructions on objects, arrays, methods and monitors that the      *)
(* simulator does in hardware: tools/iam/src/object_ops.c and array_ops.c. *)
(*                                                                         *)
(* An instruction is a decoded record i: op and t choose the case of the   *)
(* code, code is the opcode's number, x and y are the operands in the      *)
(* instruction stream and len its length.                                  *)
(***************************************************************************)
EXTENDS Machine

(***************************************************************************)
(* The words of the structures of decaf.h the instructions read.           *)
(***************************************************************************)
Method == [code |-> 0, nlocals |-> 4, argsSize |-> 8, constpool |-> 28,
           class |-> 32]
Class  == [objHintBlk |-> 24, superClass |-> 32]
Hint   == [methods |-> 24]

MASK_OBJREF(ref) == Align(ref % AddrSpace)
MASK_MV_PTR(mv)  == (mv % AddrSpace) - (mv % 8)
IS_HANDLE(ref)   == ref % 2 = 1
MASK_ARRAY_LENGTH(len) == IF proc_type = "pico" THEN len % 2^12 ELSE len

(***************************************************************************)
(* How many bytes, as a power of two, a type of memory access takes, and   *)
(* which types are sign extended.                                          *)
(***************************************************************************)
SizeOf == [word |-> 2, short |-> 1, char |-> 1, byte |-> 0, ubyte |-> 0]
ReadPart(m, a, t, c) ==
    Then(ReadWord(m, a, c), LAMBDA r :
    LET p == GetPart(r.v, Word(a), SizeOf[t]) IN
    [m |-> r.m, v |-> IF t \in {"short", "byte"}
                      THEN SignExtend(p, BitsOf(SizeOf[t])) ELSE p])

(***************************************************************************)
(* The common end of most instructions: in words leave the stack, the      *)
(* words vals come in their place (vals[1] on top), PC goes on by len.     *)
(* The words are written before OPTOP moves.                               *)
(***************************************************************************)
Result(m, i, in, out, vals) ==
    SizeAndStack(PutStack(m, [k \in 1..out |-> <<in - out + k, vals[k]>>]),
                 i.len, out - in)

(***************************************************************************)
(* Where the data of an object or array start: behind the header, or where *)
(* the handle says.                                                        *)
(***************************************************************************)
StorageAddr(m, ref) ==
    LET a == MASK_OBJREF(ref) + 4 IN
    IF IS_HANDLE(ref) THEN ReadWord(m, a, "H") ELSE [m |-> m, v |-> a]

(***************************************************************************)
(* The write barrier: gcConfig names pairs of the two top bits of both     *)
(* references, and, with PSR.GCE, the bits of region and car compared.     *)
(***************************************************************************)
Masked(a, bits) == {b \in bits : Bit(a, b)}
gc_trap(m, objref, store_data) ==
    LET g == GcConfig[m.gcConfig] IN
    \/ (objref \div AddrSpace) * 4 + (store_data \div AddrSpace) \in g.pairs
    \/ /\ Bit(m.psr, PSR.GCE)
       /\ Masked(objref, g.region) = Masked(store_data, g.region)
       /\ Masked(objref, g.car) # Masked(store_data, g.car)

-----------------------------------------------------------------------------
(***************************************************************************)
(* Constants and statics.  n is the number of words.                       *)
(***************************************************************************)
doLdc_quick(m, i, n) ==
    Then(ReadAll(m, [k \in 1..n |-> CP_OFFSET(m, i.x + k - 1)], "C"),
         LAMBDA r :
    Result(r.m, i, 0, n, r.v))

StaticAddr(fb, n) == IF n = 2 THEN fb - (fb % 2) ELSE fb

doGetstatic_quick(m, i, n) ==
    Then(ReadWord(m, CP_OFFSET(m, i.x), "C"), LAMBDA f :
    LET a == StaticAddr(f.v, n) IN
    Then(ReadAll(f.m, [k \in 1..n |-> a + 4 * (k - 1)], "B"), LAMBDA r :
    Result(r.m, i, 0, n, r.v)))

WriteFrom(m, a, c, vals) ==
    WriteAll(m, c, [k \in 1..Len(vals) |-> <<a + 4 * (k - 1), vals[k]>>])

doPutstatic_quick(m, i, n) ==
    Then(ReadWord(m, CP_OFFSET(m, i.x), "C"), LAMBDA f :
    Then(Top(f.m, n), LAMBDA r :
    SizeAndStack(WriteFrom(r.m, StaticAddr(f.v, n), "B", r.v), i.len, -n)))

doAPutstatic_quick(m, i) ==
    Then(ReadWord(m, CP_OFFSET(m, i.x), "C"), LAMBDA f :
    Then(Top(f.m, 1), LAMBDA r :
    IF gc_trap(r.m, f.v, r.v[1]) THEN LowPriorityTrap(r.m, TT.gc_notify)
    ELSE SizeAndStack(WriteWord(r.m, MASK_OBJREF(f.v), "B", r.v[1]),
                      i.len, -1)))

(***************************************************************************)
(* Fields.  The null test comes before any other; the barrier sees the     *)
(* reference as it is on the stack.                                        *)
(***************************************************************************)
doGetfield_quick(m, i, n) ==
    Then(Top(m, 1), LAMBDA o :
    IF o.v[1] = 0 THEN invoke_trap(o.m, TT.nullptr_excep) ELSE
    Then(StorageAddr(o.m, o.v[1]), LAMBDA b :
    Then(ReadAll(b.m, [k \in 1..n |-> b.v + 4 * (i.x + k - 1)], "B"),
         LAMBDA r :
    Result(r.m, i, 1, n, r.v))))

doPutfield_quick(m, i, n, barrier) ==
    Then(Top(m, n + 1), LAMBDA o :
    LET ref == o.v[n + 1] IN
    IF ref = 0 THEN invoke_trap(o.m, TT.nullptr_excep)
    ELSE IF barrier /\ gc_trap(o.m, ref, o.v[1])
         THEN LowPriorityTrap(o.m, TT.gc_notify)
    ELSE
    Then(StorageAddr(o.m, ref), LAMBDA b :
    SizeAndStack(WriteFrom(b.m, b.v + 4 * i.x, "B", SubSeq(o.v, 1, n)),
                 i.len, -(n + 1))))

-----------------------------------------------------------------------------
(***************************************************************************)
(* Method calls.  setupMethodCall tries the new OPTOP against the limit    *)
(* first and writes the frame only if that raised nothing: PC, VARS,       *)
(* FRAME, constant pool and method, behind the locals.                     *)
(***************************************************************************)
setupMethodCall(m, desc, nargs) ==
    Then(ReadWord(m, desc + Method.code, "B"), LAMBDA p :
    Then(ReadWord(p.m, desc + Method.nlocals, "B"), LAMBDA l :
    LET new_frame == Word(m.optop - l.v)
        new_optop == Word(new_frame - 20)
        try       == UpdateOptop(l.m, new_optop) IN
    IF bAnyExceptionPending(try) THEN try ELSE
    Then(ReadWord(UpdateOptop(try, m.optop), desc + Method.constpool, "B"),
         LAMBDA cp :
    Then(PutStack(UpdateOptop(cp.m, m.optop - Align(l.v)),
                  <<<<0, Word(m.pc + 3)>>, <<-1, m.vars>>, <<-2, m.frame>>,
                    <<-3, m.const_pool>>, <<-4, desc>>>>), LAMBDA m1 :
    UpdateOptop([m1 EXCEPT !.const_pool = cp.v, !.pc = p.v,
                           !.vars = Word(m.optop + nargs),
                           !.frame = new_frame],
                new_optop)))))

(***************************************************************************)
(* A call of desc on the object nargs words deep, after the null test;     *)
(* method(s) finds the method from the object in the virtual calls.        *)
(***************************************************************************)
VirtualMethod(m, ref, index) ==
    Then(ReadWord(m, MASK_OBJREF(ref), "B"), LAMBDA mv :
    ReadWord(mv.m, MASK_MV_PTR(mv.v) + 4 * index, "B"))

doInvokevirtual_quick(m, i) ==
    Then(ReadWord(m, OPTOP_OFFSET(m, i.y), "V"), LAMBDA o :
    IF o.v = 0 THEN invoke_trap(o.m, TT.nullptr_excep) ELSE
    Then(VirtualMethod(o.m, o.v, i.x), LAMBDA d :
    setupMethodCall(d.m, d.v, i.y * 4)))

ArgsWords(args) == (args % 2^8) \div 4

doInvokevirtual_quick_w(m, i) ==
    Then(ReadWord(m, CP_OFFSET(m, i.x), "C"), LAMBDA c :
    Then(ReadWord(c.m, c.v + Method.argsSize, "B"), LAMBDA a :
    LET n == ArgsWords(a.v) IN
    Then(ReadWord(a.m, OPTOP_OFFSET(m, n), "V"), LAMBDA o :
    IF o.v = 0 THEN invoke_trap(o.m, TT.nullptr_excep) ELSE
    Then(VirtualMethod(o.m, o.v, a.v \div 2^8), LAMBDA d :
    setupMethodCall(d.m, d.v, n * 4)))))

CallOnObject(m, desc) ==
    Then(ReadWord(m, desc + Method.argsSize, "B"), LAMBDA a :
    LET n == ArgsWords(a.v) IN
    Then(ReadWord(a.m, OPTOP_OFFSET(m, n), "V"), LAMBDA o :
    IF o.v = 0 THEN invoke_trap(o.m, TT.nullptr_excep)
    ELSE setupMethodCall(o.m, desc, n * 4)))

doInvokenonvirtual_quick(m, i) ==
    Then(ReadWord(m, CP_OFFSET(m, i.x), "C"), LAMBDA c :
    CallOnObject(c.m, c.v))

doInvokesuper_quick(m, i) ==
    Then(ReadWord(m, m.frame - 16, "V"), LAMBDA f :
    Then(ReadWord(f.m, f.v + Method.class, "B"), LAMBDA k :
    Then(ReadWord(k.m, k.v + 4 + Class.superClass, "B"), LAMBDA s :
    Then(ReadWord(s.m, s.v + 4 + Class.objHintBlk, "B"), LAMBDA h :
    Then(ReadWord(h.m, h.v + 8 + Hint.methods + 4 * i.x, "B"), LAMBDA d :
    CallOnObject(d.m, d.v))))))

doInvokestatic_quick(m, i) ==
    Then(ReadWord(m, CP_OFFSET(m, i.x), "C"), LAMBDA c :
    Then(ReadWord(c.m, c.v + Method.argsSize, "M"), LAMBDA a :
    setupMethodCall(a.m, c.v, a.v % 2^8)))

doGetCurrentClass(m, i) ==
    Then(ReadWord(m, m.frame - 16, "V"), LAMBDA f :
    Then(ReadWord(f.m, f.v + Method.class, "B"), LAMBDA k :
    Result(k.m, i, 0, 1, <<k.v>>)))

(***************************************************************************)
(* tableswitch reads its table as data; checkcast and instanceof compare   *)
(* the class two words before the methods with the one in the constant     *)
(* pool and trap if they differ.                                           *)
(***************************************************************************)
doTableSwitch(m) ==
    LET t == Align(m.pc) + 4 IN
    Then(ReadAll(m, <<t, t + 4, t + 8>>, "Z"), LAMBDA h :
    Then(Top(h.m, 1), LAMBDA s :
    LET index == Signed(s.v[1])
        low == Signed(h.v[2]) IN
    Then(IF index < low \/ index > Signed(h.v[3])
             THEN [m |-> s.m, v |-> h.v[1]]
             ELSE ReadWord(s.m, t + 12 + 4 * (index - low), "Z"), LAMBDA e :
    SizeAndStack([e.m EXCEPT !.pc = Word(@ + e.v)], 0, -1))))

ClassOfObject(m, ref) ==
    Then(ReadWord(m, MASK_OBJREF(ref), "B"), LAMBDA mv :
    ReadWord(mv.m, MASK_MV_PTR(mv.v) - 8, "B"))

doCheckCast_quick(m, i) ==
    Then(Top(m, 1), LAMBDA o :
    IF o.v[1] = 0 THEN SizeAndStack(o.m, i.len, 0) ELSE
    Then(ReadWord(o.m, CP_OFFSET(m, i.x), "C"), LAMBDA c :
    Then(ClassOfObject(c.m, o.v[1]), LAMBDA k :
    IF c.v = k.v THEN SizeAndStack(k.m, i.len, 0)
    ELSE LowPriorityTrap(k.m, i.code))))

doInstanceOf_quick(m, i) ==
    Then(Top(m, 1), LAMBDA o :
    IF o.v[1] = 0 THEN Result(o.m, i, 1, 1, <<0>>) ELSE
    Then(ReadWord(o.m, CP_OFFSET(m, i.x), "C"), LAMBDA c :
    Then(ClassOfObject(c.m, o.v[1]), LAMBDA k :
    IF c.v = k.v THEN Result(k.m, i, 1, 1, <<1>>)
    ELSE LowPriorityTrap(k.m, i.code))))

doNonnull_quick(m, i) ==
    Then(Top(m, 1), LAMBDA o :
    IF o.v[1] = 0 THEN invoke_trap(o.m, TT.nullptr_excep)
    ELSE SizeAndStack(o.m, i.len, -1))

-----------------------------------------------------------------------------
(***************************************************************************)
(* Monitors.  Two lock registers count, modulo 256, how often an object    *)
(* has been entered; bit 14 says that the count started elsewhere or that  *)
(* somebody waits, bit 15 that the hardware took the lock.  Only "pico2"   *)
(* takes a free register by itself, if the header's lowest bit says that   *)
(* the object is not locked.                                               *)
(***************************************************************************)
flag_fast_monitors == proc_type = "pico2"
LockRegs == {0, 1}
Count(c) == c % 2^8
CountBy(c, d) == (c - Count(c)) + ((Count(c) + d) % 2^8)
Hits(m, ref)  == {k \in LockRegs : MASK_OBJREF(m.lockAddr[k]) = ref}
FreeRegs(m)   == {k \in LockRegs : m.lockAddr[k] = 0}

AcquireFree(m, ref) ==
    LET k == CHOOSE k \in FreeRegs(m) : \A l \in FreeRegs(m) : k <= l IN
    [m EXCEPT !.lockAddr[k] = ref, !.lockCount[k] = TopBit + 1]

doMonitorEnter(m, i) ==
    Then(Top(m, 1), LAMBDA o :
    LET ref  == MASK_OBJREF(o.v[1])
        hits == Hits(o.m, ref)
        n    == [o.m EXCEPT !.lockCount = [k \in LockRegs |->
                    IF k \in hits THEN CountBy(@[k], 1) ELSE @[k]]] IN
    IF o.v[1] = 0 THEN invoke_trap(o.m, TT.nullptr_excep)
    ELSE IF \E k \in hits : Count(n.lockCount[k]) = 0
         THEN LowPriorityTrap(n, TT.lock_count_overflow_trap)
    ELSE IF hits # {} THEN SizeAndStack(n, i.len, -1)
    ELSE IF ~flag_fast_monitors \/ FreeRegs(o.m) = {}
         THEN LowPriorityTrap(o.m, TT.lock_enter_miss_trap)
    ELSE
    Then(ReadWord(o.m, ref, "B"), LAMBDA h :
    IF h.v % 2 = 0 THEN SizeAndStack(AcquireFree(h.m, ref), i.len, -1)
    ELSE LowPriorityTrap(h.m, TT.lock_enter_miss_trap)))

\* Seeded fault: a register is freed whatever its count.
Released_Fault(c) == ~Bit(c, 14) /\ Bit(c, 15)

Released(c) == Count(c) = 0 /\ ~Bit(c, 14) /\ Bit(c, 15)

doMonitorExit(m, i) ==
    Then(Top(m, 1), LAMBDA o :
    LET ref  == MASK_OBJREF(o.v[1])
        hits == Hits(o.m, ref)
        new  == [k \in LockRegs |-> IF k \in hits
                    THEN CountBy(o.m.lockCount[k], -1)
                    ELSE o.m.lockCount[k]]
        free == {k \in hits : flag_fast_monitors /\ Released(new[k])}
        n    == [o.m EXCEPT
                   !.lockCount = [k \in LockRegs |->
                                    IF k \in free THEN 0 ELSE new[k]],
                   !.lockAddr = [k \in LockRegs |->
                                    IF k \in free THEN 0 ELSE @[k]]] IN
    IF o.v[1] = 0 THEN invoke_trap(o.m, TT.nullptr_excep)
    ELSE IF \E k \in hits : Count(new[k]) = 2^8 - 1
         THEN LowPriorityTrap(n, TT.lock_count_overflow_trap)
    ELSE IF \E k \in hits : Count(new[k]) = 0 /\ Bit(new[k], 14)
         THEN LowPriorityTrap(n, TT.lock_release_trap)
    ELSE IF hits = {} THEN LowPriorityTrap(n, TT.lock_exit_miss_trap)
    ELSE SizeAndStack(n, i.len, -1))

-----------------------------------------------------------------------------
(***************************************************************************)
(* Arrays.  The reference lies below the index, which is k words deep.     *)
(* ok says that neither the null test nor the bounds test trapped; both    *)
(* take their trap at once, even with an exception pending.                *)
(***************************************************************************)
ArrayElement(m, k) ==
    Then(ReadWord(m, OPTOP_OFFSET(m, k + 1), "O"), LAMBDA r :
    IF r.v = 0
    THEN [ok |-> FALSE, m |-> invoke_trap(r.m, TT.nullptr_excep)] ELSE
    Then(StorageAddr(r.m, r.v), LAMBDA b :
    Then(ReadWord(b.m, OPTOP_OFFSET(m, k), "O"), LAMBDA x :
    Then(ReadWord(x.m, b.v, "M"), LAMBDA l :
    LET index == Signed(x.v) IN
    IF index < 0 \/ index >= Signed(MASK_ARRAY_LENGTH(l.v))
    THEN [ok |-> FALSE, m |-> invoke_trap(l.m, TT.indexoutofbnds_excep)]
    ELSE [ok |-> TRUE, m |-> l.m, storage |-> b.v, index |-> index]))))

\* Seeded fault: every element has a word.
ElementAddr_Fault(e, t) == e.storage + 4 + e.index * JAVAWORDSIZE

ElementAddr(e, t) == e.storage + 4 + e.index * 2^SizeOf[t]

doArrayLength(m, i) ==
    Then(Top(m, 1), LAMBDA r :
    IF r.v[1] = 0 THEN invoke_trap(r.m, TT.nullptr_excep) ELSE
    Then(StorageAddr(r.m, r.v[1]), LAMBDA b :
    Then(ReadWord(b.m, b.v, "M"), LAMBDA l :
    Result(l.m, i, 1, 1, <<MASK_ARRAY_LENGTH(l.v)>>))))

doArrayLoad(m, i) ==
    Then(ArrayElement(m, 1), LAMBDA e :
    IF ~e.ok THEN e.m ELSE
    Then(ReadPart(e.m, ElementAddr(e, i.t), i.t, "M"), LAMBDA r :
    Result(r.m, i, 2, 1, <<r.v>>)))

doArrayStore(m, i) ==
    Then(ArrayElement(m, 2), LAMBDA e :
    IF ~e.ok THEN e.m ELSE
    Then(ReadWord(e.m, OPTOP_OFFSET(e.m, 1), "O"), LAMBDA r :
    SizeAndStack(javaMemWrite(r.m, Word(ElementAddr(e, i.t)), r.v,
                              SizeOf[i.t], "M"),
                 i.len, -3)))

(***************************************************************************)
(* The two halves of a long element are read, and written to the stack,    *)
(* one after the other: the first goes over the index.                     *)
(***************************************************************************)
LongElement(e) == e.storage + 4 + e.index * 8

do64bArrayLoad(m, i) ==
    Then(ArrayElement(m, 1), LAMBDA e :
    IF ~e.ok THEN e.m ELSE
    Then(ReadWord(e.m, LongElement(e), "M"), LAMBDA hi :
    Then(ReadWord(PutStack(hi.m, <<<<1, hi.v>>>>), LongElement(e) + 4, "M"),
         LAMBDA lo :
    SizeAndStack(PutStack(lo.m, <<<<2, lo.v>>>>), i.len, 0))))

do64bArrayStore(m, i) ==
    Then(ArrayElement(m, 3), LAMBDA e :
    IF ~e.ok THEN e.m ELSE
    Then(Top(e.m, 2), LAMBDA r :
    SizeAndStack(WriteFrom(r.m, LongElement(e), "M", r.v), i.len, -4)))

(***************************************************************************)
(* aastore_quick masks the reference before it asks whether it is a handle *)
(* and shows the barrier the masked one.                                   *)
(***************************************************************************)
doAastore_quick(m, i) ==
    Then(ReadWord(m, OPTOP_OFFSET(m, 3), "O"), LAMBDA a :
    IF a.v = 0 THEN invoke_trap(a.m, TT.nullptr_excep) ELSE
    LET ref == MASK_OBJREF(a.v) IN
    Then(StorageAddr(a.m, ref), LAMBDA b :
    Then(ReadWord(b.m, OPTOP_OFFSET(m, 2), "O"), LAMBDA x :
    Then(ReadWord(x.m, b.v, "M"), LAMBDA l :
    LET index == Signed(x.v) IN
    IF index < 0 \/ index >= Signed(MASK_ARRAY_LENGTH(l.v))
    THEN invoke_trap(l.m, TT.indexoutofbnds_excep) ELSE
    Then(ReadWord(l.m, OPTOP_OFFSET(m, 1), "O"), LAMBDA v :
    IF gc_trap(v.m, ref, v.v) THEN LowPriorityTrap(v.m, TT.gc_notify)
    ELSE SizeAndStack(WriteWord(v.m, b.v + 4 * (index + 1), "M", v.v),
                      i.len, -3))))))
=============================================================================
