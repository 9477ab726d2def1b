----------------------------- MODULE Bytecodes ------------------------------
(***************************************************************************)
(* The instructions of the virtual machine: vDoJVMOp of tools/iam/src/     *)
(* jvm_ops.c.  Opcodes that share a case of the switch share a name here   *)
(* (iload, fload and aload are "load", bipush, sipush and the constants    *)
(* "push"), and so do the variants _0 to _3, _w and _m1 that only encode   *)
(* an operand.  An int or float is a word; a long or double is a pair,     *)
(* most significant word first, which is the word nearer to the top.       *)
(***************************************************************************)
EXTENDS ObjectOps

CONSTANT Fp(_, _)     \* the host's float arithmetic: operation, operands

Bool(b) == IF b THEN 1 ELSE 0
Hardware(m) == fpp /\ Bit(m.psr, PSR.FPE)     \* TRAP_IF_FPU_OFF

(***************************************************************************)
(* COPY_STACK_ITEM, for a sequence of <<to, from, types>>.                 *)
(***************************************************************************)
COPY_STACK_ITEM(m, to, tt, from, ft) ==
    Then(ReadWord(m, from, ft), LAMBDA r : WriteWord(r.m, to, tt, r.v))

CopyWithin(m, moves) ==
    FoldLeft(LAMBDA s, c : COPY_STACK_ITEM(s, OPTOP_OFFSET(s, c[1]), "O",
                                           OPTOP_OFFSET(s, c[2]), "O"),
             m, moves)

-----------------------------------------------------------------------------
(***************************************************************************)
(* Local variables.                                                        *)
(***************************************************************************)
Load(m, i) ==
    SizeAndStack(COPY_STACK_ITEM(m, OPTOP_OFFSET(m, 0), "O",
                                 VARS_OFFSET(m, -i.x), "V"),
                 i.len, 1)

Load2(m, i) ==
    Then(COPY_STACK_ITEM(m, OPTOP_OFFSET(m, 0), "O",
                         VARS_OFFSET(m, -i.x), "V"), LAMBDA m1 :
    Then(COPY_STACK_ITEM(m1, OPTOP_OFFSET(m, -1), "O",
                         VARS_OFFSET(m, -i.x - 1), "V"), LAMBDA m2 :
    SizeAndStack(m2, i.len, 2)))

Store(m, i) ==
    SizeAndStack(COPY_STACK_ITEM(m, VARS_OFFSET(m, -i.x), "V",
                                 OPTOP_OFFSET(m, 1), "O"),
                 i.len, -1)

Store2(m, i) ==
    Then(COPY_STACK_ITEM(m, VARS_OFFSET(m, -i.x), "V",
                         OPTOP_OFFSET(m, 2), "O"), LAMBDA m1 :
    Then(COPY_STACK_ITEM(m1, VARS_OFFSET(m, -i.x - 1), "V",
                         OPTOP_OFFSET(m, 1), "O"), LAMBDA m2 :
    SizeAndStack(m2, i.len, -2)))

Iinc(m, i) ==
    Then(ReadWord(m, VARS_OFFSET(m, -i.x), "V"), LAMBDA r :
    SizeAndStack(WriteWord(r.m, VARS_OFFSET(m, -i.x), "V", Word(r.v + i.y)),
                 i.len, 0))

(***************************************************************************)
(* Returns.  PC is taken from the frame before the other words are read,   *)
(* and the result goes to where the first local was; lreturn moves VARS    *)
(* before the last two reads, ireturn after OPTOP.                         *)
(***************************************************************************)
FromFrame(m, n) == ReadWord(m, FRAME_OFFSET(m, n), "F")

LeaveFrame(m) ==
    Then(FromFrame(m, -3), LAMBDA c :
    Then(FromFrame([c.m EXCEPT !.const_pool = c.v], -2), LAMBDA f :
    [f.m EXCEPT !.frame = f.v]))

TakePc(m) == Then(FromFrame(m, 0), LAMBDA p : [p.m EXCEPT !.pc = p.v])

\* Seeded fault: OPTOP keeps the first argument.
IReturn_Fault(m) ==
    Then(FromFrame(TakePc(m), -1), LAMBDA v :
    Then(COPY_STACK_ITEM(v.m, m.vars, "V", OPTOP_OFFSET(m, 1), "O"),
         LAMBDA m1 :
    Then(UpdateOptop(LeaveFrame(m1), m.vars - 2 * JAVAWORDSIZE), LAMBDA m2 :
    [m2 EXCEPT !.vars = v.v])))

IReturn(m) ==
    Then(FromFrame(TakePc(m), -1), LAMBDA v :
    Then(COPY_STACK_ITEM(v.m, m.vars, "V", OPTOP_OFFSET(m, 1), "O"),
         LAMBDA m1 :
    Then(UpdateOptop(LeaveFrame(m1), m.vars - JAVAWORDSIZE), LAMBDA m2 :
    [m2 EXCEPT !.vars = v.v])))

LReturn(m) ==
    Then(FromFrame(TakePc(m), -1), LAMBDA v :
    Then(COPY_STACK_ITEM(v.m, m.vars, "V", OPTOP_OFFSET(m, 2), "O"),
         LAMBDA m1 :
    Then(COPY_STACK_ITEM(m1, VARS_OFFSET(m, -1), "V",
                         OPTOP_OFFSET(m, 1), "O"), LAMBDA m2 :
    Then(LeaveFrame([m2 EXCEPT !.vars = v.v]), LAMBDA m3 :
    UpdateOptop(m3, m.vars - 2 * JAVAWORDSIZE)))))

Return(m) ==
    Then(FromFrame(TakePc(m), -1), LAMBDA v :
    Then(LeaveFrame(v.m), LAMBDA m1 :
    UpdateOptop([m1 EXCEPT !.vars = v.v], m.vars)))

ExitSyncMethod(m) ==
    Then(FromFrame(m, -5), LAMBDA r :
    SizeAndStack([r.m EXCEPT !.pc = r.v], 0, 0))

-----------------------------------------------------------------------------
(***************************************************************************)
(* Numbers.  A float is a sign, five bits of exponent and ten of mantissa; *)
(* the first word of a double has the same shape.  Everything about NaNs   *)
(* is in the code, the arithmetic on the others is the host's.             *)
(***************************************************************************)
Inf      == 31744
INan     == 32736
Mag(w)   == w % TopBit
FNan(f)  == Mag(f) > Inf
DNan(d)  == \/ Mag(d[1]) > Inf
            \/ Mag(d[1]) = Inf /\ d[2] # 0
Neg(w)   == w >= TopBit
Less(a, b) == a[1] < b[1] \/ (a[1] = b[1] /\ a[2] < b[2])
LLess(a, b) == Less(<<Signed(a[1]), a[2]>>, <<Signed(b[1]), b[2]>>)
DKey(d)  == IF Neg(d[1]) THEN <<-Mag(d[1]), -d[2]>> ELSE d
Order(less, greater) == IF less THEN Word(-1) ELSE Bool(greater)

Pair(v, k)  == <<v[k], v[k + 1]>>
LAdd(a, b)  == <<Word(a[1] + b[1] + ((a[2] + b[2]) \div WordSize)),
                 Word(a[2] + b[2])>>
LNeg(a)     == LAdd(<<WordSize - 1 - a[1], WordSize - 1 - a[2]>>, <<0, 1>>)

(***************************************************************************)
(* The instructions that replace words on the stack by a result, and the   *)
(* number of words in and out.                                             *)
(***************************************************************************)
IntOps    == {"iadd", "isub", "imul", "iand", "ior", "ixor", "idiv", "irem"}
LongOps   == {"ladd", "lsub", "land", "lor", "lxor"}
NoLongOps == {"lmul", "ldiv", "lrem"}
FloatOps  == {"fadd", "fsub", "fmul", "fdiv", "frem"}
DoubleOps == {"dadd", "dsub", "dmul", "ddiv", "drem"}
FromInt   == {"i2l", "l2i", "i2f", "i2d", "l2f", "l2d"}
FromFloat == {"f2i", "f2l", "d2i", "d2l", "f2d", "d2f"}
Narrowing == {"int2byte", "int2char", "int2short"}
Compares  == {"fcmpl", "fcmpg", "lcmp", "dcmpl", "dcmpg"}
IntShifts == {"ishl", "ishr", "iushr"}
LongShifts == {"lshl", "lshr", "lushr"}
Negations == {"ineg", "lneg", "fneg", "dneg"}
Operations ==
    UNION {IntOps, LongOps, FloatOps, DoubleOps, FromInt, FromFloat,
           Narrowing, Compares, IntShifts, LongShifts, Negations, {"sethi"}}

In(op) ==
    CASE op \in LongOps \cup DoubleOps \cup {"lcmp", "dcmpl", "dcmpg"} -> 4
      [] op \in LongShifts -> 3
      [] op \in {"l2i", "l2f", "l2d", "d2i", "d2l", "d2f", "lneg", "dneg",
                 "fcmpl", "fcmpg"} \cup IntOps \cup FloatOps \cup IntShifts
           -> 2
      [] OTHER -> 1

Out(op) == IF op \in {"i2l", "i2d", "l2d", "f2l", "d2l", "f2d", "lneg",
                      "dneg"} \cup LongOps \cup DoubleOps \cup LongShifts
           THEN 2 ELSE 1

(***************************************************************************)
(* The bitwise operations; whatever the host computes is a word as well.   *)
(***************************************************************************)
BitsWhere(b) ==
    b[0] + 2 * b[1] + 4 * b[2] + 8 * b[3] + 16 * b[4] + 32 * b[5]
    + 64 * b[6] + 128 * b[7] + 256 * b[8] + 512 * b[9] + 1024 * b[10]
    + 2048 * b[11] + 4096 * b[12] + 8192 * b[13] + 16384 * b[14]
    + 32768 * b[15]
And(a, b) == BitsWhere([k \in 0..15 |-> Bool(Bit(a, k) /\ Bit(b, k))])
Or(a, b)  == BitsWhere([k \in 0..15 |-> Bool(Bit(a, k) \/ Bit(b, k))])
Xor(a, b) == BitsWhere([k \in 0..15 |-> Bool(Bit(a, k) # Bit(b, k))])
Host(op, v) == LET r == Fp(op, v) IN
    [k \in 1..Out(op) |-> IF r[k] \in Words THEN r[k] ELSE 0]

(***************************************************************************)
(* Results: v are the words read, v[1] the top of the stack.               *)
(***************************************************************************)
ConvertInt(op, v) ==
    CASE op = "i2l" -> <<IF Neg(v[1]) THEN Word(-1) ELSE 0, v[1]>>
      [] op = "l2i" -> <<v[2]>>
      [] op \in {"i2f", "i2d", "l2f", "l2d"} -> Host(op, v)

ConvertFloat(op, v) ==
    LET nan == IF op \in {"f2i", "f2l", "f2d"} THEN FNan(v[1]) ELSE DNan(v)
    IN  CASE op \in {"f2i", "d2i"} -> IF nan THEN <<0>> ELSE Host(op, v)
          [] op \in {"f2l", "d2l"} -> IF nan THEN <<0, 0>> ELSE Host(op, v)
          [] op = "f2d" -> IF nan THEN <<Mag(v[1]), 0>> ELSE Host(op, v)
          [] op = "d2f" -> IF nan THEN <<INan>> ELSE Host(op, v)

Narrow(op, v) ==
    <<CASE op = "int2byte"  -> SignExtend(v[1] % 2^ByteBits, ByteBits)
        [] op = "int2char"  -> v[1] % 2^BitsOf(1)
        [] op = "int2short" -> SignExtend(v[1] % 2^BitsOf(1), BitsOf(1))>>

Compare(op, v) ==
    LET r   == IF op \in {"fcmpl", "fcmpg"} THEN <<v[1], 0>> ELSE Pair(v, 1)
        l   == IF op \in {"fcmpl", "fcmpg"} THEN <<v[2], 0>> ELSE Pair(v, 3)
    IN  CASE op = "lcmp" -> <<Order(LLess(l, r), LLess(r, l))>>
          [] DNan(l) \/ DNan(r) ->
                 <<IF op \in {"fcmpl", "dcmpl"} THEN Word(-1) ELSE 1>>
          [] OTHER -> <<Order(Less(DKey(l), DKey(r)), Less(DKey(r), DKey(l)))>>

(***************************************************************************)
(* Integer arithmetic wraps; division truncates.  The quotient of the      *)
(* least int by -1 is undefined on the host.                               *)
(***************************************************************************)
Abs(n) == IF n < 0 THEN -n ELSE n
Truncated(a, b) == LET q == Abs(a) \div Abs(b)
                   IN  IF (a < 0) # (b < 0) THEN -q ELSE q

IntResult(op, v, undefined) ==
    LET a == Signed(v[2])
        b == Signed(v[1])
    IN  CASE op = "iadd" -> <<Word(a + b)>>
          [] op = "isub" -> <<Word(a - b)>>
          [] op = "imul" -> <<Word(a * b)>>
          [] op = "iand" -> <<And(v[2], v[1])>>
          [] op = "ior"  -> <<Or(v[2], v[1])>>
          [] op = "ixor" -> <<Xor(v[2], v[1])>>
          [] op \in {"idiv", "irem"} /\ a = -TopBit /\ b = -1 ->
                 <<undefined>>
          [] op = "idiv" -> <<Word(Truncated(a, b))>>
          [] op = "irem" -> <<Word(a - b * Truncated(a, b))>>

LongResult(op, v) ==
    LET a == Pair(v, 3)
        b == Pair(v, 1)
    IN  CASE op = "ladd" -> LAdd(a, b)
          [] op = "lsub" -> LAdd(a, LNeg(b))
          [] op = "land" -> <<And(a[1], b[1]), And(a[2], b[2])>>
          [] op = "lor"  -> <<Or(a[1], b[1]), Or(a[2], b[2])>>
          [] op = "lxor" -> <<Xor(a[1], b[1]), Xor(a[2], b[2])>>

IntShift(op, v) ==
    LET n == v[1] % 16 IN
    CASE op = "ishl"  -> <<Word(v[2] * 2^n)>>
      [] op = "ishr"  -> <<Word(Signed(v[2]) \div 2^n)>>
      [] op = "iushr" -> <<v[2] \div 2^n>>

LongShift(op, v) ==
    LET n    == v[1] % 32
        a    == Pair(v, 2)
        fill == IF op = "lshr" THEN Signed(a[1]) ELSE a[1]
    IN  CASE op = "lshl" /\ n < 16 ->
                 <<Word(a[1] * 2^n + (a[2] \div 2^(16 - n))),
                   Word(a[2] * 2^n)>>
          [] op = "lshl" /\ n >= 16 -> <<Word(a[2] * 2^(n - 16)), 0>>
          [] op # "lshl" /\ n < 16 ->
                 <<Word(fill \div 2^n),
                   (a[2] \div 2^n) + ((a[1] % 2^n) * 2^(16 - n))>>
          [] op # "lshl" /\ n >= 16 ->
                 <<IF fill < 0 THEN Word(-1) ELSE 0,
                   Word(fill \div 2^(n - 16))>>

(***************************************************************************)
(* Of two NaNs the second operand's is the first looked at; its sign goes. *)
(***************************************************************************)
FloatResult(op, v) ==
    LET f == Host(op, v) IN
    IF FNan(v[2]) THEN <<Mag(v[2])>>
    ELSE IF FNan(v[1]) THEN <<Mag(v[1])>>
    ELSE IF FNan(f[1]) THEN <<INan>> ELSE f

DoubleResult(op, v) ==
    LET d == Host(op, v)
        Quiet(w) == <<Mag(w[1]), w[2]>>
    IN  IF DNan(Pair(v, 3)) THEN Quiet(Pair(v, 3))
        ELSE IF DNan(Pair(v, 1)) THEN Quiet(Pair(v, 1))
        ELSE IF DNan(d) THEN <<INan, 0>> ELSE d

Negate(op, v) ==
    CASE op = "ineg" -> <<Word(-v[1])>>
      [] op = "lneg" -> LNeg(v)
      [] op = "fneg" -> <<Word(v[1] + TopBit)>>
      [] op = "dneg" -> <<Word(v[1] + TopBit), v[2]>>

Sethi(v, hi) == <<(v[1] % 2^BitsOf(1)) + Word(hi * 2^BitsOf(1))>>

-----------------------------------------------------------------------------
(***************************************************************************)
(* These instructions together, and whether they need the FPU.  Words are  *)
(* read in one order here: whichever read fails first, the saved registers *)
(* are the same and the exception of highest priority is kept.             *)
(***************************************************************************)
NeedsFpu(op) == op \in UNION {FloatOps, DoubleOps, FromFloat,
                              FromInt \ {"i2l", "l2i"}, Compares \ {"lcmp"}}

Value(m, i, v) ==
    CASE i.op \in FromInt    -> ConvertInt(i.op, v)
      [] i.op \in FromFloat  -> ConvertFloat(i.op, v)
      [] i.op \in Narrowing  -> Narrow(i.op, v)
      [] i.op \in Compares   -> Compare(i.op, v)
      [] i.op \in IntOps     -> IntResult(i.op, v, m.junk)
      [] i.op \in LongOps    -> LongResult(i.op, v)
      [] i.op \in IntShifts  -> IntShift(i.op, v)
      [] i.op \in LongShifts -> LongShift(i.op, v)
      [] i.op \in FloatOps   -> FloatResult(i.op, v)
      [] i.op \in DoubleOps  -> DoubleResult(i.op, v)
      [] i.op \in Negations  -> Negate(i.op, v)
      [] i.op = "sethi"      -> Sethi(v, i.x)

Operate(m, i) ==
    Then(Top(m, In(i.op)), LAMBDA r :
    IF NeedsFpu(i.op) /\ ~Hardware(m) THEN invoke_trap(m, i.code)
    ELSE IF i.op = "drem" /\ Bit(m.psr, PSR.DREM)
         THEN LowPriorityTrap(m, i.code)
    ELSE IF i.op \in {"idiv", "irem"} /\ r.v[1] = 0
         THEN LowPriorityTrap(Top(m, 1).m, TT.arithmetic_excep)
    ELSE Result(r.m, i, In(i.op), Out(i.op), Value(r.m, i, r.v)))

Push(m, i, vals) == Result(m, i, 0, Len(vals), vals)

-----------------------------------------------------------------------------
(***************************************************************************)
(* Jumps.  The condition compares the word below with the top, or the top  *)
(* with zero; references are masked, in ifnull they are not.               *)
(***************************************************************************)
Holds(cond, a, b) ==
    CASE cond = "eq" -> a = b
      [] cond = "ne" -> a # b
      [] cond = "lt" -> a < b
      [] cond = "gt" -> a > b
      [] cond = "le" -> a <= b
      [] cond = "ge" -> a >= b

Branch(m, i, taken, n) ==
    JumpAndStack(m, IF taken THEN i.x ELSE i.len, -n)

IfIcmp(m, i) ==
    Then(Top(m, 2), LAMBDA r :
    Branch(r.m, i, Holds(i.t, Signed(r.v[2]), Signed(r.v[1])), 2))

If(m, i) ==
    Then(Top(m, 1), LAMBDA r :
    Branch(r.m, i, Holds(i.t, Signed(r.v[1]), 0), 1))

IfAcmp(m, i) ==
    Then(Top(m, 2), LAMBDA r :
    Branch(r.m, i, Holds(i.t, MASK_OBJREF(r.v[2]), MASK_OBJREF(r.v[1])), 2))

Jsr(m, i) ==
    SizeAndStack(WriteWord(m, OPTOP_OFFSET(m, 0), "O", Word(m.pc + i.len)),
                 i.x, 1)
Ret(m, i) ==
    Then(ReadWord(m, VARS_OFFSET(m, -i.x), "V"), LAMBDA r :
    SizeAndStack([r.m EXCEPT !.pc = r.v], 0, 0))

-----------------------------------------------------------------------------
(***************************************************************************)
(* Stack manipulation.  dup writes above the stack and moves OPTOP last;   *)
(* the dup_x family moves OPTOP first and then shifts words within the     *)
(* stack, of which it copies <<to, from>> in this order.                   *)
(***************************************************************************)
DupMoves == [dup  |-> <<<<0, 1>>>>,
             dup2 |-> <<<<0, 2>>, <<-1, 1>>>>]
Dup(m, i) == SizeAndStack(CopyWithin(m, DupMoves[i.op]), i.len,
                          Len(DupMoves[i.op]))

\* Seeded fault: dup2_x1 shifts two words where three must move.
DupXMoves_Fault ==
    [dup_x1  |-> <<<<1, 2>>, <<2, 3>>, <<3, 1>>>>,
     dup_x2  |-> <<<<1, 2>>, <<2, 3>>, <<3, 4>>, <<4, 1>>>>,
     dup2_x1 |-> <<<<1, 3>>, <<2, 4>>, <<4, 1>>, <<5, 2>>>>,
     dup2_x2 |-> <<<<1, 3>>, <<2, 4>>, <<3, 5>>, <<4, 6>>, <<5, 1>>,
                   <<6, 2>>>>]

DupXMoves ==
    [dup_x1  |-> <<<<1, 2>>, <<2, 3>>, <<3, 1>>>>,
     dup_x2  |-> <<<<1, 2>>, <<2, 3>>, <<3, 4>>, <<4, 1>>>>,
     dup2_x1 |-> <<<<1, 3>>, <<2, 4>>, <<3, 5>>, <<4, 1>>, <<5, 2>>>>,
     dup2_x2 |-> <<<<1, 3>>, <<2, 4>>, <<3, 5>>, <<4, 6>>, <<5, 1>>,
                   <<6, 2>>>>]
\* Seeded fault: the words are shifted before OPTOP is tried.
DupX_Fault(m, i) ==
    LET n  == IF i.op \in {"dup_x1", "dup_x2"} THEN 1 ELSE 2
        up == [k \in DOMAIN DupXMoves[i.op] |->
                  <<DupXMoves[i.op][k][1] - n, DupXMoves[i.op][k][2] - n>>]
    IN  SizeAndStack(CopyWithin(m, up), i.len, n)

DupX(m, i) ==
    LET n  == IF i.op \in {"dup_x1", "dup_x2"} THEN 1 ELSE 2
        m1 == UpdateOptop(m, m.optop - n * JAVAWORDSIZE)
    IN  SizeAndStack(CopyWithin(m1, DupXMoves[i.op]), i.len, 0)

Swap(m, i) ==
    Then(Top(m, 1), LAMBDA r :
    Then(CopyWithin(r.m, <<<<1, 2>>>>), LAMBDA m1 :
    SizeAndStack(PutStack(m1, <<<<2, r.v[1]>>>>), i.len, 0)))

-----------------------------------------------------------------------------
(***************************************************************************)
(* Loads and stores with an address in a local variable, which "pico" does *)
(* not have.  Bit 14 of the address swaps the bytes of a value, and both   *)
(* bits 13 and 12 make it noncacheable.                                    *)
(***************************************************************************)
IS_LE_ADDRESS(a) == Bit(a, 14)
IS_NC_ADDRESS(a) == Bit(a, 13) /\ Bit(a, 12)
SwapBytes(v, size) ==
    LET Byte(n) == (v \div 2^(ByteBits * n)) % 2^ByteBits IN
    CASE size = 0 -> v
      [] size = 1 -> Byte(0) * 2^ByteBits + Byte(1)
      [] size = 2 -> Byte(0) * 2^(3 * ByteBits) + Byte(1) * 2^(2 * ByteBits)
                     + Byte(2) * 2^ByteBits + Byte(3)
Endian(v, size, le) == IF le THEN SwapBytes(v, size) ELSE v

(***************************************************************************)
(* The value a load of type t gets from address a: the part of the word,   *)
(* its bytes swapped if le, widened.                                       *)
(***************************************************************************)
LoadValue(m, a, t, nc, le) ==
    Then(ReadWord(m, a % AddrSpace, IF nc THEN "N" ELSE "Z"), LAMBDA r :
    LET p == Endian(GetPart(r.v, a, SizeOf[t]), SizeOf[t], le) IN
    [m |-> r.m, v |-> IF t \in {"short", "byte"}
                      THEN SignExtend(p, BitsOf(SizeOf[t])) ELSE p])

StoreValue(m, a, v, t, c, le) ==
    javaMemWrite(m, a % AddrSpace,
                 Endian(v % 2^BitsOf(SizeOf[t]), SizeOf[t], le),
                 SizeOf[t], c)

(***************************************************************************)
(* An address that is not aligned only raises the exception: the access is *)
(* still tried.                                                            *)
(***************************************************************************)
CHECK_ADDRESS_ALIGNMENT(m, a, t) ==
    IF a % 2^SizeOf[t] = 0 THEN m ELSE vSetupException(m, Exc.UNALIGNED)

IndexedAddress(m, i) ==
    Then(ReadWord(m, VARS_OFFSET(m, -i.x), "V"), LAMBDA b :
    LET a == Word(b.v + i.y * 2^SizeOf[i.t]) IN
    [m |-> CHECK_ADDRESS_ALIGNMENT(b.m, a, i.t), v |-> a])

LoadIndex(m, i) ==
    Then(IndexedAddress(m, i), LAMBDA a :
    Then(LoadValue(a.m, a.v, i.t, IS_NC_ADDRESS(a.v), IS_LE_ADDRESS(a.v)),
         LAMBDA r :
    Push(r.m, i, <<r.v>>)))

StoreIndex(m, i) ==
    Then(IndexedAddress(m, i), LAMBDA a :
    Then(Top(a.m, 1), LAMBDA r :
    LET c == IF IS_NC_ADDRESS(a.v) THEN "N"
             ELSE IF i.op = "nastore_index" THEN "A" ELSE "Z"
    IN  SizeAndStack(StoreValue(r.m, a.v, r.v[1], i.t, c,
                                IS_LE_ADDRESS(a.v)), i.len, -1)))

-----------------------------------------------------------------------------
(***************************************************************************)
(* The switch.  In "push" the constant is y words, of value x.  What no    *)
(* case handles is an illegal instruction.                                 *)
(***************************************************************************)
OnStack(m, i) ==
    CASE i.op = "nop"   -> SizeAndStack(m, i.len, 0)
      [] i.op = "push"  -> Push(m, i, IF i.y = 1 THEN <<Word(i.x)>>
                                      ELSE <<0, Word(i.x)>>)
      [] i.op = "load"  -> Load(m, i)
      [] i.op = "load2" -> Load2(m, i)
      [] i.op = "store"  -> Store(m, i)
      [] i.op = "store2" -> Store2(m, i)
      [] i.op = "iinc"  -> Iinc(m, i)
      [] i.op = "pop"   -> SizeAndStack(m, i.len, -1)
      [] i.op = "pop2"  -> SizeAndStack(m, i.len, -2)
      [] i.op \in DOMAIN DupMoves  -> Dup(m, i)
      [] i.op \in DOMAIN DupXMoves -> DupX(m, i)
      [] i.op = "swap"  -> Swap(m, i)
      [] i.op \in NoLongOps -> LowPriorityTrap(Top(m, 2).m, i.code)
      [] i.op \in Operations -> Operate(m, i)
StackOps == UNION {{"nop", "push", "load", "load2", "store", "store2",
                    "iinc", "pop", "pop2", "swap"}, DOMAIN DupMoves,
                   DOMAIN DupXMoves, NoLongOps, Operations}

Transfer(m, i) ==
    CASE i.op = "goto"    -> JumpAndStack(m, i.x, 0)
      [] i.op = "jsr"     -> Jsr(m, i)
      [] i.op = "ret"     -> Ret(m, i)
      [] i.op = "if"      -> If(m, i)
      [] i.op = "if_icmp" -> IfIcmp(m, i)
      [] i.op = "if_acmp" -> IfAcmp(m, i)
      [] i.op = "ifnull"  -> LET r == Top(m, 1) IN
                             Branch(r.m, i, Holds(i.t, r.v[1], 0), 1)
      [] i.op = "ireturn" -> IReturn(m)
      [] i.op = "lreturn" -> LReturn(m)
      [] i.op = "return"  -> Return(m)
      [] i.op = "exit_sync_method" -> ExitSyncMethod(m)
      [] i.op = "tableswitch" -> doTableSwitch(m)
Transfers == {"goto", "jsr", "ret", "if", "if_icmp", "if_acmp", "ifnull",
              "ireturn", "lreturn", "return", "exit_sync_method",
              "tableswitch"}

OnObject(m, i) ==
    CASE i.op = "ldc_quick"        -> doLdc_quick(m, i, i.y)
      [] i.op = "getstatic_quick"  -> doGetstatic_quick(m, i, i.y)
      [] i.op = "putstatic_quick"  -> doPutstatic_quick(m, i, i.y)
      [] i.op = "aputstatic_quick" -> doAPutstatic_quick(m, i)
      [] i.op = "getfield_quick"   -> doGetfield_quick(m, i, i.y)
      [] i.op = "putfield_quick"   -> doPutfield_quick(m, i, i.y, FALSE)
      [] i.op = "aputfield_quick"  -> doPutfield_quick(m, i, 1, TRUE)
      [] i.op = "invokevirtual_quick"   -> doInvokevirtual_quick(m, i)
      [] i.op = "invokevirtual_quick_w" -> doInvokevirtual_quick_w(m, i)
      [] i.op = "invokenonvirtual_quick" -> doInvokenonvirtual_quick(m, i)
      [] i.op = "invokesuper_quick"  -> doInvokesuper_quick(m, i)
      [] i.op = "invokestatic_quick" -> doInvokestatic_quick(m, i)
      [] i.op = "checkcast_quick"  -> doCheckCast_quick(m, i)
      [] i.op = "instanceof_quick" -> doInstanceOf_quick(m, i)
      [] i.op = "nonnull_quick"    -> doNonnull_quick(m, i)
      [] i.op = "monitorenter"     -> doMonitorEnter(m, i)
      [] i.op = "monitorexit"      -> doMonitorExit(m, i)
      [] i.op = "arraylength"      -> doArrayLength(m, i)
      [] i.op = "aload"            -> doArrayLoad(m, i)
      [] i.op = "astore"           -> doArrayStore(m, i)
      [] i.op = "laload"           -> do64bArrayLoad(m, i)
      [] i.op = "lastore"          -> do64bArrayStore(m, i)
      [] i.op = "aastore_quick"    ->
             IF proc_type \in {"pico", "maya"}
             THEN LowPriorityTrap(m, i.code) ELSE doAastore_quick(m, i)
ObjectInstructions ==
    {"ldc_quick", "getstatic_quick", "putstatic_quick", "aputstatic_quick",
     "getfield_quick", "putfield_quick", "aputfield_quick",
     "invokevirtual_quick", "invokevirtual_quick_w",
     "invokenonvirtual_quick", "invokesuper_quick", "invokestatic_quick",
     "checkcast_quick", "instanceof_quick", "nonnull_quick",
     "monitorenter", "monitorexit", "arraylength", "aload", "astore",
     "laload", "lastore", "aastore_quick"}

vDoJVMOp(m, i) ==
    CASE i.op \in StackOps  -> OnStack(m, i)
      [] i.op \in Transfers -> Transfer(m, i)
      [] i.op \in ObjectInstructions -> OnObject(m, i)
      [] i.op = "trap"      -> LowPriorityTrap(m, i.code)
      [] i.op = "load_index" /\ proc_type # "pico" -> LoadIndex(m, i)
      [] i.op \in {"store_index", "nastore_index"} /\ proc_type # "pico"
                            -> StoreIndex(m, i)
      [] OTHER -> vSetupException(m, Exc.ILLEGAL_INSTR)
=============================================================================
