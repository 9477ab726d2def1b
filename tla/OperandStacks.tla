---------------------------- MODULE OperandStacks ----------------------------
(***************************************************************************)
(* What the stack cache of the instruction accurate simulator promises to  *)
(* the program: two operand stacks in memory, of which one is in use, each *)
(* growing towards lower addresses.  A live word keeps its value until an  *)
(* instruction writes it or pops it.  There is no stack cache here.  op is *)
(* the instruction a step carries out, with the words it writes.           *)
(***************************************************************************)
EXTENDS Integers

CONSTANTS
    Depth,        \* the words of a stack
    Gap,          \* the words between the two stacks
    Operands,     \* OPTOP offsets are at most this
    TrapWords,    \* the words of a trap frame
    FrameWords,   \* the words of a method frame
    Locals,       \* numbers of local variables a method may have
    Contents,     \* what a word may hold
    Dead          \* the content of a word that is not in use

VARIABLES
    thread,       \* the stack in use
    top,          \* of each stack, the free word next to its last live one
    word,         \* what the program sees
    op            \* the last instruction

Stacks  == {0, 1}
Base(s) == IF s = 0 THEN Depth ELSE 2 * Depth + Gap
Low(s)  == Base(s) - Depth

StackWords(s) == Low(s) + 1..Base(s)
Words == UNION {StackWords(s) : s \in Stacks}

Live(s) == top[s] + 1..Base(s)

Writes(W) == [W -> Contents]

Init ==
    /\ thread = 0
    /\ top = [s \in Stacks |-> IF s = 0 THEN Base(s) - 1 ELSE Base(s)]
    /\ word \in [Words -> Contents \cup {Dead}]
    /\ \A a \in Words : word[a] = Dead <=> a # Base(0)
    /\ op = [kind |-> "none"]

(* Stack s ends at t, and w is what was written.                           *)
WordsAfter(s, t, w) ==
    [a \in Words |-> IF a \in Low(s) + 1..t THEN Dead
                     ELSE IF a \in DOMAIN w THEN w[a] ELSE word[a]]

Becomes(t, w) ==
    /\ t \in Low(thread)..Base(thread)
    /\ UNCHANGED thread
    /\ top' = [top EXCEPT ![thread] = t]
    /\ word' = WordsAfter(thread, t, w)

(* Constants, calls, traps: n new words; a call leaves its locals unset.   *)
Push(n) ==
    /\ op'.kind = "push"
    /\ op'.words \in Writes(top[thread] - n + 1..top[thread])
    /\ Becomes(top[thread] - n, op'.words)

Pop(n) ==
    /\ op' = [kind |-> "pop", n |-> n]
    /\ Becomes(top[thread] + n, <<>>)

(* iinc.                                                                   *)
Modify(a) ==
    /\ a \in Live(thread)
    /\ op'.kind = "modify" /\ op'.words \in Writes({a})
    /\ Becomes(top[thread], op'.words)

(* xload: the local a is on top of the stack.                              *)
Load(a) ==
    /\ a \in Live(thread)
    /\ op' = [kind |-> "load", addr |-> a]
    /\ Becomes(top[thread] - 1, [b \in {top[thread]} |-> word[a]])

(* xstore: the top of the stack is now the local a.                        *)
Store(a) ==
    /\ a \in Live(thread) \ {top[thread] + 1}
    /\ op' = [kind |-> "store", addr |-> a]
    /\ Becomes(top[thread] + 1, [b \in {a} |-> word[top[thread] + 1]])

(* dup_x1: the top word is now also below the second.                      *)
DupX1 ==
    LET o == top[thread]
    IN  /\ op' = [kind |-> "dup_x1"]
        /\ Becomes(o - 1, [b \in o..o + 2 |-> IF b = o + 1 THEN word[o + 2]
                                             ELSE word[o + 1]])

(* Return: k words are the result and the last thing on the stack.         *)
Return(k, t) ==
    /\ t > top[thread]
    /\ op' = [kind |-> "return", k |-> k, top |-> t]
    /\ Becomes(t, [b \in t + 1..t + k |-> word[b - t + top[thread]]])

(* Another stack is used; n operands are taken off the old one first.      *)
Switch(n) ==
    /\ op' = [kind |-> "switch", n |-> n]
    /\ thread' = 1 - thread
    /\ top' = [top EXCEPT ![thread] = @ + n]
    /\ word' = WordsAfter(thread, top'[thread], <<>>)

(* A switch that ends in a trap on the new stack.                          *)
SwitchAndTrap(n) ==
    LET t == top[1 - thread]
    IN  /\ op'.kind = "switch and trap" /\ op'.n = n
        /\ op'.words \in Writes(t - TrapWords + 1..t)
        /\ thread' = 1 - thread
        /\ top' = [s \in Stacks |-> IF s = thread THEN top[s] + n ELSE t - TrapWords]
        /\ word' = WordsAfter(thread, top'[thread], op'.words)

(* The debugger writes a word of either stack.                             *)
Poke(a) ==
    /\ a \in Live(0) \cup Live(1)
    /\ op'.kind = "poke" /\ op'.words \in Writes({a})
    /\ Becomes(top[thread], op'.words)

Next ==
    \/ \E n \in 1..Operands \cup {TrapWords} \cup {l + FrameWords : l \in Locals} : Push(n)
    \/ \E n \in 1..Operands : Pop(n)
    \/ \E a \in Words : Modify(a) \/ Load(a) \/ Store(a) \/ Poke(a)
    \/ DupX1
    \/ \E k \in 0..2, t \in Words : Return(k, t)
    \/ \E n \in 1..2 : Switch(n) \/ SwitchAndTrap(n)

Spec == Init /\ [][Next]_<<thread, top, word, op>>
==============================================================================
