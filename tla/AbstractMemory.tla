---------------------------- MODULE AbstractMemory ----------------------------
(***************************************************************************)
(* What the data cache of the instruction accurate simulator promises      *)
(* (tools/cache/src/cache.c as javamem.c and ext_ops.c use it), without    *)
(* ways, tags or dirty bits: a word has the value the program sees and the *)
(* value memory keeps.  The second follows the first at some time of its   *)
(* own; nothing but cache_invalidate ever makes a word go back to it.      *)
(* op is the instruction a step carries out.                               *)
(***************************************************************************)
EXTENDS Integers

CONSTANTS
    MaxAddr,      \* word addresses are 0..MaxAddr
    LineWords,    \* words of a line of the data cache
    Values,       \* the values a word may have
    Absent        \* content of a word that does not exist

VARIABLES
    ram,          \* what the program sees
    kept,         \* what memory keeps
    op            \* the last instruction

Addr     == 0..MaxAddr
Contents == [Addr -> Values \cup {Absent}]

LineAddrs(a) == {b \in Addr : b \div LineWords = a \div LineWords}

(* Memory keeps what it kept, or gets what the program has seen.           *)
Keeps(b) ==
    \/ kept'[b] = kept[b]
    \/ kept[b] # Absent /\ kept'[b] = ram[b]

NoOp         == [kind |-> "none"]
Load(a, v)   == [kind |-> "load", addr |-> a, value |-> v]
Store(a, v)  == [kind |-> "store", addr |-> a, value |-> v]
Zero(a)      == [kind |-> "zero", addr |-> a]
Discard(a)   == [kind |-> "discard", addr |-> a]

Init == ram \in Contents /\ kept = ram /\ op = NoOp

(* Flushes, diagnostic accesses, failed accesses: a line may be written    *)
(* back, the program sees what it saw.                                     *)
WriteBack ==
    /\ op' = NoOp
    /\ ram' = ram
    /\ kept' \in Contents
    /\ \A b \in Addr : Keeps(b)

LoadWord(a) ==
    /\ ram[a] # Absent
    /\ op' = Load(a, ram[a])
    /\ ram' = ram
    /\ kept' \in Contents
    /\ \A b \in Addr : Keeps(b)

(* A store may also write through.                                         *)
StoreWord(a, v) ==
    /\ ram[a] # Absent
    /\ op' = Store(a, v)
    /\ ram' = [ram EXCEPT ![a] = v]
    /\ kept' \in Contents
    /\ \A b \in Addr : Keeps(b) \/ (b = a /\ kept'[b] = v)

(* zero_line may also bring a line to life that memory does not have.      *)
ZeroLine(a) ==
    /\ op' = Zero(a)
    /\ ram' = [b \in Addr |-> IF b \in LineAddrs(a) THEN 0 ELSE ram[b]]
    /\ kept' \in Contents
    /\ \A b \in Addr : Keeps(b)

(* cache_invalidate: what memory keeps comes back.                         *)
DiscardLine(a) ==
    /\ op' = Discard(a)
    /\ ram' = [b \in Addr |-> IF b \in LineAddrs(a) THEN kept[b] ELSE ram[b]]
    /\ kept' = kept

Next ==
    \/ WriteBack
    \/ \E a \in Addr : \/ LoadWord(a) \/ ZeroLine(a) \/ DiscardLine(a)
                       \/ \E v \in Values : StoreWord(a, v)

Spec == Init /\ [][Next]_<<ram, kept, op>>
===============================================================================
