----------------------------- MODULE MCMachine ------------------------------
(* What the instances of Instructions share: an assembler, the memory map, *)
(* the trap table and the trap handlers.  The handlers do what those of    *)
(* tools/traps do: VARS to the word above the frame, the service, and      *)
(* priv_ret_from_trap.                                                     *)
EXTENDS Integers, SequencesExt

I(op, x, y, t, len) ==
    [op |-> op, code |-> 0, x |-> x, y |-> y, t |-> t, len |-> len]
Op(op)       == I(op, 0, 0, "", 1)
Arg(op, x)   == I(op, x, 0, "", 2)
Jump(op, t, x) == I(op, x, 0, t, 3)
Cp(op, x, y) == I(op, x, y, "", 3)
Coded(op, code) == [I(op, 0, 0, "", 1) EXCEPT !.code = code]
Const(v)     == I("push", v, 1, "", 2)
Const2(v)    == I("push", v, 2, "", 1)
Ext(op)      == I(op, 0, 0, "", 2)
ReadR(t)     == I("read_reg", 0, 0, t, 2)
WriteR(t)    == I("write_reg", 0, 0, t, 2)
LoadE(t, nc, oe)  == I("ext_load", nc, oe, t, 2)
StoreE(t, nc, oe) == I("ext_store", nc, oe, t, 2)

(* The instructions of code, one behind the other from base on.            *)
Assemble(base, code) ==
    LET at == FoldLeft(LAMBDA s, i : Append(s, s[Len(s)] + i.len),
                       <<base>>, code)
    IN  [a \in {at[k] : k \in DOMAIN code} |->
            code[CHOOSE k \in DOMAIN code : at[k] = a]]
Linked(blocks) == FoldLeft(LAMBDA f, b : Assemble(b[1], b[2]) @@ f,
                           <<>>, blocks)

StackTop  == 1020
Pool      == 1536      \* the constant pool
HeapBase  == 2048
Table     == 4096      \* the trap table
Handlers  == 8192
Eoi       == 8184
End       == 8188

Leave == <<ReadR("frame"), Const(4), Op("iadd"), WriteR("vars"),
           Ext("priv_ret_from_trap")>>
Skip(len) == <<ReadR("frame"), Const(4), Op("iadd"), WriteR("vars"),
               I("iinc", 1, len, "", 3), Ext("priv_ret_from_trap")>>
Halt  == <<Const(0), Const(End), StoreE("word", 1, 0)>>
WholeHeap == 16416     \* a user range from 2048 to 4096
Service ==
    [stop      |-> Halt,
     oplim     |-> Leave,
     protect   |-> <<Const(WholeHeap), WriteR("userrange1")>> \o Leave,
     break     |-> <<Const(0), WriteR("brk12c")>> \o Leave,
     interrupt |-> <<Const(0), Const(Eoi), StoreE("word", 1, 0)>> \o Leave,
     skip1     |-> Skip(1),
     skip2     |-> Skip(2)]
HandlerAt == [stop |-> Handlers, oplim |-> Handlers + 32,
              protect |-> Handlers + 64, break |-> Handlers + 96,
              interrupt |-> Handlers + 128, skip1 |-> Handlers + 160,
              skip2 |-> Handlers + 192]
HandlerCode == Linked([k \in 1..7 |->
    LET n == <<"stop", "oplim", "protect", "break", "interrupt", "skip1",
               "skip2">>[k]
    IN  <<HandlerAt[n], Service[n]>>])

(* lmul, ldiv, lrem, new and sync methods' emulation only skip.            *)
HandlerOf(tt) ==
    CASE tt = 12 -> HandlerAt.oplim
      [] tt = 2  -> HandlerAt.protect
      [] tt \in {7, 8} -> HandlerAt.break
      [] tt \in 48..63 -> HandlerAt.interrupt
      [] tt \in {105, 109, 113, 115, 187} -> HandlerAt.skip1
      [] tt \in {13, 41} -> HandlerAt.skip2
      [] OTHER -> HandlerAt.stop

Memory(data) ==
    [a \in 512..8191 |->
        IF a \in DOMAIN data THEN data[a]
        ELSE IF a >= Table /\ a < Table + 2048
             THEN HandlerOf((a - Table) \div 8)
        ELSE 0]
Listing(code) == [a \in 0..8500 |-> IF a \in DOMAIN code THEN code[a]
                                    ELSE Op("illegal")]

(* A machine in user mode, with interrupts enabled, an FPU and four words  *)
(* of locals.                                                              *)
UserPsr == 2^4 + 2^11
SupervisorPsr == UserPsr + 2^5
Fresh(pc) ==
    [pc |-> pc, vars |-> StackTop, frame |-> StackTop, optop |-> StackTop - 16,
     oplim |-> 0, const_pool |-> Pool, psr |-> UserPsr, trapbase |-> Table,
     lockCount |-> [k \in {0, 1} |-> 0], lockAddr |-> [k \in {0, 1} |-> 0],
     userrange1 |-> 0, userrange2 |-> 32832, gcConfig |-> 0,
     brk1a |-> 0, brk2a |-> 0, brk12c |-> 0, scBottom |-> StackTop,
     global |-> [k \in 0..3 |-> 0], mem |-> <<>>, sc |-> <<>>,
     exc |-> [id |-> 0], bPowerDownState |-> FALSE, uIRLState |-> 0,
     bNMIState |-> FALSE, end_of_simulation |-> FALSE,
     program_exit_code |-> 0, junk |-> 0, type |-> "Z"]

(* The values of brk12c: breakpoint 1 on a fetch, a load or a store by a   *)
(* user program, with all the bits of the address compared.                *)
Off == [en |-> FALSE, su |-> FALSE, src |-> 0, mask |-> {}]
On(src) == [en |-> TRUE, su |-> TRUE, src |-> src, mask |-> 0..6]
MCBrk12c == [w \in 1..3 |-> [halt |-> FALSE,
                             brk |-> <<On(<<3, 0, 1>>[w]), Off>>]]
NoLimit == {0}
LimitsBelow(depths) == {32768 + StackTop - 4 * d : d \in depths}
=============================================================================
