------------------------------ MODULE MCObjects ------------------------------
(* The programs and starts of the runs "objects" and "objects_handle": an  *)
(* object, an object behind a handle, arrays of both kinds, a class with a *)
(* super class and methods, and the monitor of the first object.           *)
EXTENDS Instructions, MCMachine

P(n) == 6144 + 128 * n

(* The heap.  The lowest bit of a reference says that it is a handle.      *)
ObjA == HeapBase            \* header, two fields
ObjB == HeapBase + 16       \* a handle: header, address of the fields
DatB == HeapBase + 32
ArrI == HeapBase + 48       \* header, length, three words
ArrH == HeapBase + 72       \* a handle: header, address of the length
DatH == HeapBase + 88
ArrL == HeapBase + 104      \* header, length, two long elements
Stat == HeapBase + 128      \* two static words
Methods   == HeapBase + 320 \* the method vector, its class two words before
Descr(n)  == HeapBase + 384 + 64 * n
ClassC    == HeapBase + 704
ClassS    == HeapBase + 768
HintS     == HeapBase + 832
Handle(a) == a + 1

Array(t, op) == I(op, 0, 0, t, 1)
Field(op, x, n) == I(op, x, n, "", 3)

FieldsCode == <<Const(ObjA), Const(5), Field("putfield_quick", 0, 1),
    Const(ObjA), Field("getfield_quick", 0, 1),
    Const(Handle(ObjB)), Const2(7), Field("putfield_quick", 0, 2),
    Const(Handle(ObjB)), Field("getfield_quick", 0, 2), Op("pop2"),
    Const(ObjA), Const(ObjB), Field("aputfield_quick", 1, 1),
    Const(9), Field("putstatic_quick", 3, 1),
    Field("getstatic_quick", 3, 1), Op("pop"),
    Field("ldc_quick", 4, 2), Field("putstatic_quick", 3, 2),
    Field("getstatic_quick", 3, 2), Op("pop2"), Const(ObjA),
    Field("aputstatic_quick", 3, 1), Const(ObjA),
    Field("checkcast_quick", 5, 0), Op("dup"),
    Field("instanceof_quick", 5, 0), Op("iadd"), Op("nonnull_quick")>>
    \o Halt

ArraysCode == <<Const(ArrI), Const(1), Const(42), Array("word", "astore"),
    Const(ArrI), Const(1), Array("word", "aload"),
    Const(Handle(ArrH)), Const(1), Const(300), Array("byte", "astore"),
    Const(Handle(ArrH)), Const(0), Array("short", "aload"),
    Const(Handle(ArrH)), Op("arraylength"), Op("pop2"),
    Const(ArrL), Const(1), Const2(77), Array("", "lastore"),
    Const(ArrL), Const(1), Array("", "laload"), Op("pop2"),
    Const(ArrI), Const(2), Const(ObjA), Array("", "aastore_quick"),
    Const(3), I("tableswitch", 0, 0, "", 0)>>
Switch    == P(1) + 49              \* the address of its opcode
Selected  == P(2)
OutOfBounds == <<Const(ArrI), Const(3), Array("word", "aload")>> \o Halt
NullObject  == <<Const(0), Field("getfield_quick", 0, 1)>> \o Halt
Barrier     == <<Const(ObjA), Const(ObjB + 16384),
    Field("aputfield_quick", 0, 1)>> \o Halt

(* A virtual call, whose method calls the one of the super class.          *)
CallsCode == <<Const(ObjA), Const(4), I("invokevirtual_quick", 1, 2, "", 3),
    Op("pop"), Const(ObjA), Cp("invokevirtual_quick_w", 6, 0),
    Const(ObjA), Cp("invokenonvirtual_quick", 1, 0)>> \o Halt
VirtualCode == <<Arg("load", 0), Cp("invokesuper_quick", 0, 0),
    Ext("get_current_class"), Op("pop"), Arg("load", 1), Op("ireturn")>>
PlainCode == <<Const(P(8)), Op("exit_sync_method")>>
ReturnCode == <<Op("pop"), Op("return")>>
SuperCode == <<Op("return")>>

HandleCode == <<Const(Handle(ArrH)), Const(1), Const(ObjA),
    Array("", "aastore_quick")>> \o Halt

MonitorsCode == <<Const(ObjA), Op("monitorenter"), Const(ObjA),
    Op("monitorenter"), Const(ObjA), Op("monitorexit"), Const(ObjA),
    Op("monitorenter"), Const(ObjA), Op("monitorexit"), Const(ObjA),
    Op("monitorexit"), Const(ObjA), Op("monitorexit")>> \o Halt

Programs == Listing(HandlerCode @@ Linked(<<
    <<0, Halt>>, <<P(0), FieldsCode>>, <<P(1), ArraysCode>>,
    <<P(2), Halt>>, <<P(3), OutOfBounds>>, <<P(4), NullObject>>,
    <<P(5), CallsCode>>, <<P(6), VirtualCode>>, <<P(7), PlainCode>>,
    <<P(8), ReturnCode>>, <<P(9), SuperCode>>, <<P(10), MonitorsCode>>,
    <<P(11), Barrier>>, <<P(12), HandleCode>>>>))

(* Words behind a: code, locals, index and size of the arguments, pool,    *)
(* class.                                                                  *)
Desc(a, code, args) == (a :> code) @@ (a + 4 :> 0) @@ (a + 8 :> args)
                       @@ (a + 28 :> Pool) @@ (a + 32 :> ClassC)
Contents == Memory(
    (Pool :> Descr(0)) @@ (Pool + 4 :> Descr(1)) @@ (Pool + 12 :> Stat)
    @@ (Pool + 16 :> 11) @@ (Pool + 20 :> ClassC) @@ (Pool + 24 :> Descr(2))
    @@ (ObjA :> Methods) @@ (ObjB :> Methods) @@ (ObjB + 4 :> DatB)
    @@ (ArrI + 4 :> 3) @@ (ArrH + 4 :> DatH) @@ (DatH :> 2)
    @@ (ArrL + 4 :> 2)
    @@ (Methods - 8 :> ClassC) @@ (Methods :> Descr(1))
    @@ (Methods + 4 :> Descr(0))
    @@ Desc(Descr(0), P(6), 8) @@ Desc(Descr(1), P(7), 4)
    @@ Desc(Descr(2), P(7), 4) @@ Desc(Descr(3), P(9), 4)
    @@ (ClassC + 36 :> ClassS) @@ (ClassS + 28 :> HintS)
    @@ (HintS + 32 :> Descr(3))
    @@ (Align(Switch) + 4 :> 1) @@ (Align(Switch) + 8 :> 2)
    @@ (Align(Switch) + 12 :> 4)
    @@ (Align(Switch) + 20 :> Selected - Switch))
MCCode  == Programs
MCImage == Contents
MCHeap  == {HeapBase + 4 * n : n \in 0..34}
MCObjs  == {ObjA}
MCUnset == {}
MCIoSpace == {}
MCGcConfig == [w \in {0, 1} |->
    [pairs |-> IF w = 1 THEN {1} ELSE {}, region |-> {}, car |-> {}]]
MCFp(op, v) == <<0, 0>>

Limited(s, depths) == {[s EXCEPT !.oplim = l] : l \in LimitsBelow(depths)}
Broken(s, how, a) == [s EXCEPT !.brk12c = how, !.brk1a = a]
Entered1(s, n) == [s EXCEPT !.lockAddr[0] = ObjA, !.lockCount[0] = n]

MCStarts ==
    UNION {Limited(Fresh(P(n)), 4..14) : n \in {0, 1, 10}}
    \cup Limited(Fresh(P(5)), 5..24)
    \cup {Fresh(P(3)), Fresh(P(4)), [Fresh(P(11)) EXCEPT !.gcConfig = 1]}
    \cup {Broken(Fresh(P(0)), how, HeapBase + 4 * n) :
             how \in {2, 3}, n \in {1, 2, 5, 8, 9, 32}}
    \cup {Broken(Fresh(P(1)), how, HeapBase + 4 * n) :
             how \in {2, 3}, n \in {13, 15, 19, 22, 23}}
    \cup {Entered1(Fresh(P(10)), n) :
             n \in {1, 254, 2^14 + 1, TopBit + 3, TopBit + 255}}
MCHandleStarts == {Fresh(P(12))}
=============================================================================
