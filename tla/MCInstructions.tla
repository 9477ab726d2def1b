--------------------------- MODULE MCInstructions ---------------------------
(* The programs and starts of the runs "instructions" and                  *)
(* "instructions_oplim".                                                   *)
EXTENDS Instructions, MCMachine

P(n)     == 6144 + 128 * n
Nan      == 32000
Object   == HeapBase + 64
Descr(n) == HeapBase + 256 + 64 * n

(* Programs.                                                               *)
Shuffle == <<Const(3), Const(5), Op("dup_x1"), Op("dup2"), Op("iadd"),
    Op("dup_x2"), Op("dup2_x1"), Op("swap"), Op("dup2_x2"), Op("isub"),
    Op("dup"), Op("pop"), Op("pop2"), Op("imul"), Op("nop")>> \o Halt

Numbers == <<Const2(1), Const(40), Op("i2l"), Op("ladd"), Op("lneg"),
    Const(17), Op("lshr"), Op("dup2"), Op("lcmp"), Op("pop"),
    Const(Nan), Op("int2char"), Op("i2f"), Const(Nan), Op("fadd"),
    Op("fneg"), Const(2), Op("fcmpg"), Const(3), Op("irem"),
    Const(6), Op("ixor")>> \o Halt

Floats == <<Const(1), Const(31744), Op("d2f"), Op("f2i"), Op("i2l"),
    Op("l2d"), Op("dneg"), Coded("drem", 115), Const2(2), Op("dcmpl"),
    Const(1), Op("ishl"), Op("int2short"), I("sethi", 18, 0, "", 3)>>
    \o Halt

Locals == <<Const(2), Arg("store", 0), Arg("load", 0), Const2(9),
    Arg("store2", 2), Arg("load2", 2), Op("pop2"),
    I("iinc", 0, -1, "", 3), Arg("load", 0), Jump("if", "ne", -5),
    Jump("jsr", "", 8), Jump("goto", "", 9), Op("nop"), Op("nop"),
    Arg("store", 1), Arg("ret", 1), Op("nop")>> \o Halt

Access == <<Const(305), Const(HeapBase), StoreE("word", 0, 0),
    Const(HeapBase + 2), LoadE("short", 0, 1), Const(HeapBase + 5),
    StoreE("byte", 1, 0), Const(HeapBase + 4), LoadE("word", 0, 0),
    Const(HeapBase), Arg("store", 0), I("load_index", 0, 1, "ubyte", 3),
    Op("iadd"), I("nastore_index", 0, 2, "word", 3),
    Const(HeapBase + 16384), LoadE("char", 0, 0),
    Const(HeapBase + 8), LoadE("word", 0, 0), Ext("iucmp")>> \o Halt

Caller == <<Const(7), Const(9), Cp("invokestatic_quick", 0, 0), Op("pop2"),
    Const(Object), Cp("getfield_quick", 0, 1), Const(1), Op("iadd"),
    Op("pop")>> \o Halt
Middle == <<Arg("load", 0), Arg("load", 1), Op("iadd"),
    Cp("invokestatic_quick", 1, 0), Op("i2l"), Op("lreturn")>>
Leaf   == <<Arg("load", 0), Arg("store", 1), Arg("load", 1),
    Cp("invokestatic_quick", 2, 0), Op("ireturn")>>
Empty  == <<Op("return")>>

Supervisor == <<ReadR("psr"), WriteR("psr"), Const(64), WriteR("frame"),
    ReadR("oplim"), ReadR("optop"), Ext("priv_update_optop"),
    Const(HeapBase), Ext("zero_line"), Const(16), Const(HeapBase),
    Ext("cache_flush"), Ext("priv_read_cache"), Ext("priv_write_cache"),
    Ext("soft_trap"), Coded("lmul", 105), Coded("trap", 187),
    Ext("priv_powerdown"), Const(P(12)), Const(2), Ext("call"),
    Ext("priv_reset")>>
CFunction == <<Const(11), I("return_n", 1, 0, "", 2)>>

NotAllowed == <<Const(WholeHeap), WriteR("userrange1"), Op("nop")>> \o Halt
NoInstruction == <<Op("illegal"), Op("nop")>> \o Halt
WildJump == <<Const(9000), WriteR("pc"), Op("nop")>> \o Halt

(* What an OPLIM trap must not destroy, and what it does destroy.          *)
Widen == <<Const(Nan), Coded("f2d", 141), Op("pop")>> \o Halt

Programs == Listing(HandlerCode @@ Linked(<<
    <<0, Halt>>, <<P(0), Shuffle>>, <<P(1), Numbers>>, <<P(2), Floats>>,
    <<P(3), Locals>>, <<P(4), Access>>, <<P(5), Caller>>, <<P(6), Middle>>,
    <<P(7), Leaf>>, <<P(8), Supervisor>>, <<P(9), NotAllowed>>,
    <<P(10), NoInstruction>>, <<P(11), WildJump>>, <<P(12), CFunction>>,
    <<P(13), Widen>>, <<P(14), Empty>>>>))

(* Descriptors: code, bytes of further locals and of arguments.            *)
Descriptor(a, code, locals, args) ==
    (a :> code) @@ (a + 4 :> locals) @@ (a + 8 :> args) @@ (a + 28 :> Pool)
Contents == Memory((Pool :> Descr(0)) @@ (Pool + 4 :> Descr(1))
    @@ (Pool + 8 :> Descr(2)) @@ Descriptor(Descr(0), P(6), 0, 8)
    @@ Descriptor(Descr(1), P(7), 4, 4) @@ Descriptor(Descr(2), P(14), 0, 0)
    @@ (Object + 4 :> 77))

MCUnset == {<<P(7), 972>>, <<P(7) + 2, 972>>}    \* local 1 of Leaf
MCCode  == Programs
MCImage == Contents
MCHeap  == {HeapBase + 4 * n : n \in 0..3}

(* Starts.                                                                 *)
Protected(s) == [s EXCEPT !.psr = @ + 2^13]
Broken(s, how, a) == [s EXCEPT !.brk12c = how, !.brk1a = a]
Limited(s, depths) == {[s EXCEPT !.oplim = l] : l \in LimitsBelow(depths)}
Privilege(s) == [s EXCEPT !.psr = SupervisorPsr]

Depths == 4..20
MCStarts ==
    UNION {Limited(Fresh(P(n)), Depths) : n \in 0..3}
    \cup Limited(Fresh(P(5)), Depths \cup 21..26)
    \cup {Protected(Fresh(P(4))), Fresh(P(9)), Fresh(P(10)), Fresh(P(11)),
          Privilege(Fresh(P(8)))}
    \cup {Broken(Fresh(P(4)), how, HeapBase + 4 * n) :
             how \in {2, 3}, n \in 0..3}
    \cup {Broken(Fresh(P(n)), 1, P(n) + 12) : n \in {0, 1, 2, 3, 5}}
MCOplimStarts == Limited(Fresh(P(13)), {4, 5, 6})

(* The host's float arithmetic: any function will do, it is never a NaN.   *)
MCFp(op, v) ==
    CASE op \in {"i2f", "f2i", "d2i", "l2f", "d2f"} -> <<v[1] % 1024>>
      [] op \in {"i2d", "f2l", "f2d"} -> <<v[1] % 1024, 7>>
      [] op \in {"l2d", "d2l"} -> <<v[2] % 1024, v[1] % 1024>>
      [] op \in FloatOps -> <<(v[1] + 2 * v[2]) % 1024>>
      [] op \in DoubleOps -> <<(v[1] + v[3]) % 1024, v[2]>>
MCGcConfig == [w \in {0} |-> [pairs |-> {}, region |-> {}, car |-> {}]]
MCIoSpace == {}
=============================================================================
