--------------------------- MODULE StackCacheProofs ---------------------------
(***************************************************************************)
(* Theorems about StackCache, for stack caches, marks, stacks and methods  *)
(* of any size, of a program without data read breakpoints: what the runs  *)
(* StackCache_breakpoint and StackCache_debugger show is that breakpoints  *)
(* and writes of the debugger to cached words are what breaks it.          *)
(*                                                                         *)
(* First the slots of the window (SameSlot, WordInSlot), then what each    *)
(* operator of an instruction does to the words the program sees           *)
(* (FillEffect to MovedEffect, WriteAllEffect), then on a stack            *)
(* (MoveEffect, SwitchEffect, TrapEffect), then the invariant Inv, one     *)
(* lemma for each instruction, and the theorems at the end.                *)
(***************************************************************************)
EXTENDS StackCache, FiniteSetTheorems, TLAPS

LEMMA SizePositive == SCACHE_SIZE \in Nat /\ SCACHE_SIZE > 0
  BY StackCacheAssumption

LEMMA SlotIn == ASSUME NEW a \in Int PROVE Slot(a) \in StackIndex
  BY SizePositive DEF Slot, StackIndex

LEMMA DivMod ==
    ASSUME NEW a \in Int
    PROVE  /\ a \div SCACHE_SIZE \in Int
           /\ a = SCACHE_SIZE * (a \div SCACHE_SIZE) + Slot(a)
  BY SizePositive DEF Slot

LEMMA SameSlot ==
    ASSUME NEW a \in Int, NEW b \in Int, Slot(a) = Slot(b),
           a - b < SCACHE_SIZE, b - a < SCACHE_SIZE
    PROVE  a = b
<1> DEFINE q == a \div SCACHE_SIZE
           p == b \div SCACHE_SIZE
<1>1. q \in Int /\ p \in Int /\ a = SCACHE_SIZE * q + Slot(a) /\ b = SCACHE_SIZE * p + Slot(a)
  BY DivMod
<1>2. Slot(a) \in Int
  BY SlotIn, SizePositive DEF StackIndex
<1> HIDE DEF q, p
<1>3. a - b = SCACHE_SIZE * (q - p)
  BY <1>1, <1>2, SizePositive
<1>4. q - p < 1
  <2>1. q - p >= 1 => SCACHE_SIZE * (q - p) >= SCACHE_SIZE
    BY <1>1, SizePositive
  <2>2. QED BY <1>1, <1>3, <2>1, SizePositive
<1>5. p - q < 1
  <2>1. p - q >= 1 => SCACHE_SIZE * (p - q) >= SCACHE_SIZE
    BY <1>1, SizePositive
  <2>2. SCACHE_SIZE * (p - q) = b - a
    BY <1>1, <1>2, SizePositive
  <2>3. QED BY <1>1, <2>1, <2>2, SizePositive
<1>6. QED BY <1>1, <1>4, <1>5, <1>3

LEMMA WordInSlot ==
    ASSUME NEW i \in StackIndex, NEW b \in Int
    PROVE  /\ WordIn(i, b) \in Int
           /\ WordIn(i, b) <= b /\ WordIn(i, b) > b - SCACHE_SIZE
           /\ Slot(WordIn(i, b)) = i
<1> DEFINE m == (b - i) % SCACHE_SIZE
           q == (b - i) \div SCACHE_SIZE
           a == WordIn(i, b)
<1>1. i \in Int /\ i >= 0 /\ i < SCACHE_SIZE /\ SCACHE_SIZE \in Nat
  BY SizePositive DEF StackIndex
<1>2. m \in 0..SCACHE_SIZE - 1 /\ q \in Int /\ b - i = SCACHE_SIZE * q + m
  BY <1>1
<1>3. a = b - m
  BY DEF WordIn
<1> HIDE DEF m, q, a
<1>4. a = SCACHE_SIZE * q + i
  BY <1>1, <1>2, <1>3
<1>5. a \in Int
  BY <1>1, <1>2, <1>3
<1>6. a = SCACHE_SIZE * (a \div SCACHE_SIZE) + Slot(a) /\ a \div SCACHE_SIZE \in Int /\ Slot(a) \in StackIndex
  BY <1>5, DivMod, SlotIn
<1>7. Slot(a) = i
  <2> DEFINE p == a \div SCACHE_SIZE
  <2>1. p \in Int /\ a = SCACHE_SIZE * p + Slot(a) /\ Slot(a) \in 0..SCACHE_SIZE - 1
    BY <1>6 DEF StackIndex
  <2> HIDE DEF p
  <2>2. i - Slot(a) = SCACHE_SIZE * (p - q)
    BY <2>1, <1>1, <1>2, <1>4
  <2>3. p - q >= 1 => SCACHE_SIZE * (p - q) >= SCACHE_SIZE
    BY <1>1, <1>2, <2>1
  <2>4. q - p >= 1 => SCACHE_SIZE * (q - p) >= SCACHE_SIZE
    BY <1>1, <1>2, <2>1
  <2>5. SCACHE_SIZE * (q - p) = Slot(a) - i
    BY <2>1, <1>1, <1>2, <1>4
  <2>6. p = q
    BY <1>1, <1>2, <2>1, <2>2, <2>3, <2>4, <2>5
  <2>7. QED BY <1>1, <1>2, <1>4, <2>1, <2>6
<1>8. QED BY <1>1, <1>2, <1>3, <1>5, <1>7 DEF a

LEMMA SlotWord ==
    ASSUME NEW a \in Int, NEW b \in Int, a <= b, a > b - SCACHE_SIZE
    PROVE  WordIn(Slot(a), b) = a
<1>1. Slot(a) \in StackIndex
  BY SlotIn
<1> DEFINE w == WordIn(Slot(a), b)
<1>2. w \in Int /\ w <= b /\ w > b - SCACHE_SIZE /\ Slot(w) = Slot(a)
  BY <1>1, WordInSlot
<1> HIDE DEF w
<1>3. w = a
  BY <1>2, SameSlot, SizePositive
<1>4. QED BY <1>3 DEF w

-----------------------------------------------------------------------------
(***************************************************************************)
(* The processor between any two operators of an instruction.              *)
(***************************************************************************)
Cpu == [optop : Int, scBottom : Int, fill : Nat, spill : Nat, dre : BOOLEAN,
        oplim : Int, limited : BOOLEAN, eid : Int,
        saved : [optop : Int, scBottom : Int],
        sCacheMem : [StackIndex -> Values], mem : [Addr -> Values]]

Marked(c) == <<c.fill, c.spill>> \in Marks

(* All but OPTOP, SC_BOTTOM, the slots and memory.                         *)
SameRest(c, e) ==
    /\ e.fill = c.fill /\ e.spill = c.spill /\ e.dre = c.dre
    /\ e.oplim = c.oplim /\ e.limited = c.limited
    /\ e.eid = c.eid /\ e.saved = c.saved

LEMMA MarkBounds ==
    ASSUME NEW c \in Cpu, Marked(c)
    PROVE  /\ 2 <= c.fill /\ c.fill <= c.spill
           /\ c.spill + 2 <= SCACHE_SIZE
           /\ c.spill + TrapWords <= SCACHE_SIZE
           /\ c.spill + FrameWords <= SCACHE_SIZE
           /\ c.spill < Gap /\ Gap + c.fill > SCACHE_SIZE
<1>1. \A k \in Marks : k \in Nat \X Nat /\ k[2] < Gap /\ Gap + k[1] > SCACHE_SIZE
                       /\ Operands <= k[1] /\ k[1] <= k[2] /\ k[2] + TrapWords <= SCACHE_SIZE
                       /\ k[2] + FrameWords <= SCACHE_SIZE
  BY StackCacheAssumption
<1>2. c.fill \in Nat /\ c.spill \in Nat
  BY DEF Cpu
<1>3. Operands \in Nat /\ Operands >= 2 /\ TrapWords \in Nat /\ TrapWords >= 2
      /\ SCACHE_SIZE \in Nat /\ Gap \in Nat /\ FrameWords \in Nat
  BY StackCacheAssumption
<1>4. QED BY <1>1, <1>2, <1>3 DEF Marked

LEMMA CpuTyped ==
    ASSUME NEW c \in Cpu
    PROVE  /\ c.optop \in Int /\ c.scBottom \in Int /\ c.fill \in Nat /\ c.spill \in Nat
           /\ c.sCacheMem \in [StackIndex -> Values] /\ c.mem \in [Addr -> Values]
           /\ c.oplim \in Int /\ c.eid \in Int /\ c.limited \in BOOLEAN /\ c.dre \in BOOLEAN
           /\ c.saved \in [optop : Int, scBottom : Int]
  BY DEF Cpu

LEMMA AddrBounds ==
    /\ Addr = -1..MaxAddr /\ Addr \subseteq Int
    /\ MaxAddr \in Int /\ MaxAddr = 2 * Depth + Gap + SCACHE_SIZE
  BY StackCacheAssumption DEF Addr, MaxAddr, Base

LEMMA VisibleTyped ==
    ASSUME NEW c \in Cpu, NEW a \in Addr
    PROVE  Visible(c, a) \in Values
  BY CpuTyped, SlotIn, AddrBounds DEF Visible

(* Words are read above the bottom.                                        *)
LEMMA FillEffect ==
    ASSUME Broken = {}, NEW c \in Cpu, NEW n \in Nat,
           c.scBottom >= -2, c.scBottom + n <= MaxAddr, NEW e, e = Fill(c, n)
    PROVE  /\ e \in Cpu /\ SameRest(c, e)
           /\ e.optop = c.optop /\ e.mem = c.mem /\ e.scBottom = c.scBottom + n
           /\ \A a \in Addr : a > c.scBottom + n - SCACHE_SIZE
                                => Visible(e, a) = Visible(c, a)
           /\ \A a \in Int : a > c.scBottom + n - SCACHE_SIZE /\ a <= c.scBottom
                                => e.sCacheMem[Slot(a)] = c.sCacheMem[Slot(a)]
<1> DEFINE b == c.scBottom + n
           new == c.scBottom + 1..b
           g == [i \in StackIndex |-> IF WordIn(i, b) \notin new THEN c.sCacheMem[i]
                                      ELSE c.mem[WordIn(i, b)]]
<1>1. c.scBottom \in Int /\ c.sCacheMem \in [StackIndex -> Values] /\ c.mem \in [Addr -> Values]
      /\ SCACHE_SIZE \in Nat /\ SCACHE_SIZE > 0 /\ b \in Int
  BY CpuTyped, SizePositive
<1>2. e = [c EXCEPT !.scBottom = b, !.sCacheMem = g]
  BY <1>1 DEF Fill, Cpu
<1>3. ASSUME NEW i \in StackIndex PROVE WordIn(i, b) \in new => WordIn(i, b) \in Addr
  <2>1. WordIn(i, b) \in Int
    BY <1>1, WordInSlot
  <2>2. c.scBottom + 1 >= -1 /\ b <= MaxAddr /\ c.scBottom \in Int /\ b \in Int
    BY <1>1
  <2> HIDE DEF b
  <2>3. QED BY <2>1, <2>2, AddrBounds
<1>4. g \in [StackIndex -> Values]
  BY <1>1, <1>3
<1> HIDE DEF g
<1>5. e \in Cpu /\ SameRest(c, e) /\ e.optop = c.optop /\ e.mem = c.mem
      /\ e.scBottom = b /\ e.sCacheMem = g
  BY <1>1, <1>2, <1>4 DEF Cpu, SameRest
<1>6. \A a \in Int : a <= b /\ a > b - SCACHE_SIZE => WordIn(Slot(a), b) = a /\ Slot(a) \in StackIndex
  BY <1>1, SlotWord, SlotIn
<1>7. ASSUME NEW a \in Int, a > b - SCACHE_SIZE, a <= c.scBottom
      PROVE  g[Slot(a)] = c.sCacheMem[Slot(a)]
  BY <1>1, <1>6, <1>7 DEF g
<1>8. ASSUME NEW a \in Addr, a > b - SCACHE_SIZE
      PROVE  Visible(e, a) = Visible(c, a)
  <2>1. a \in Int
    BY AddrBounds
  <2>2. CASE a <= c.scBottom
    <3>1. Hits(e, a) /\ Hits(c, a)
      BY <1>1, <1>5, <1>8, <2>1, <2>2 DEF Hits
    <3>2. QED BY <3>1, <1>5, <1>7, <1>8, <2>1, <2>2 DEF Visible
  <2>3. CASE a > c.scBottom /\ a <= b
    <3>1. Hits(e, a) /\ ~Hits(c, a)
      BY <1>1, <1>5, <1>8, <2>1, <2>3 DEF Hits
    <3>2. a \in new
      BY <1>1, <2>1, <2>3
    <3>3. g[Slot(a)] = c.mem[a]
      BY <1>6, <2>1, <2>3, <1>8, <3>2 DEF g
    <3>4. QED BY <3>1, <3>3, <1>5 DEF Visible
  <2>4. CASE a > b
    <3>1. ~Hits(e, a) /\ ~Hits(c, a)
      BY <1>1, <1>5, <2>1, <2>4 DEF Hits
    <3>2. QED BY <3>1, <1>5 DEF Visible
  <2>5. QED BY <2>1, <2>2, <2>3, <2>4, <1>1
<1>9. \A a \in Int : a > b - SCACHE_SIZE /\ a <= c.scBottom
                    => e.sCacheMem[Slot(a)] = c.sCacheMem[Slot(a)]
  BY <1>5, <1>7
<1>10. \A a \in Addr : a > b - SCACHE_SIZE => Visible(e, a) = Visible(c, a)
  BY <1>8
<1>11. b - SCACHE_SIZE = c.scBottom + n - SCACHE_SIZE
  BY <1>1
<1>12. QED BY <1>5, <1>9, <1>10, <1>11

(* Words are written from the bottom, when no exception is pending.        *)
LEMMA SpillEffect ==
    ASSUME NEW c \in Cpu, NEW n \in 0..SCACHE_SIZE, c.eid = NO_EXCEPTION,
           NEW e, e = Spill(c, n)
    PROVE  /\ e \in Cpu /\ SameRest(c, e)
           /\ e.optop = c.optop /\ e.sCacheMem = c.sCacheMem
           /\ e.scBottom = c.scBottom - n
           /\ \A a \in Addr : a > c.scBottom - SCACHE_SIZE
                                => Visible(e, a) = Visible(c, a)
           /\ \A a \in Addr : e.mem[a] = IF a > c.scBottom - n /\ a <= c.scBottom
                                         THEN Visible(c, a) ELSE c.mem[a]
<1> DEFINE b == c.scBottom
           g == [a \in Addr |-> IF a \in b - n + 1..b THEN c.sCacheMem[Slot(a)] ELSE c.mem[a]]
<1>1. b \in Int /\ c.sCacheMem \in [StackIndex -> Values] /\ c.mem \in [Addr -> Values]
      /\ SCACHE_SIZE \in Nat /\ SCACHE_SIZE > 0 /\ n \in Int
  BY CpuTyped, SizePositive
<1>2. e = [c EXCEPT !.scBottom = b - n, !.mem = g]
  BY <1>1 DEF Spill, Cpu
<1>3. g \in [Addr -> Values]
  BY <1>1, SlotIn, AddrBounds
<1> HIDE DEF g
<1>4. e \in Cpu /\ SameRest(c, e) /\ e.optop = c.optop /\ e.sCacheMem = c.sCacheMem
      /\ e.scBottom = b - n /\ e.mem = g
  <2>1. b - n \in Int
    BY <1>1
  <2> HIDE DEF b
  <2>2. QED BY <2>1, <1>2, <1>3 DEF Cpu, SameRest
<1>5. ASSUME NEW a \in Addr
      PROVE  g[a] = IF a > b - n /\ a <= b THEN Visible(c, a) ELSE c.mem[a]
  <2>1. a \in Int
    BY AddrBounds
  <2>2. a \in b - n + 1..b <=> a > b - n /\ a <= b
    BY <1>1, <2>1
  <2>3. a > b - n /\ a <= b => Hits(c, a)
    BY <1>1, <2>1 DEF Hits
  <2>4. QED BY <2>2, <2>3 DEF g, Visible
<1>6. ASSUME NEW a \in Addr, a > b - SCACHE_SIZE
      PROVE  Visible(e, a) = Visible(c, a)
  <2>1. a \in Int
    BY AddrBounds
  <2>2. CASE a <= b - n
    <3>1. Hits(e, a) /\ Hits(c, a)
      BY <1>1, <1>4, <1>6, <2>1, <2>2 DEF Hits
    <3>2. QED BY <3>1, <1>4 DEF Visible
  <2>3. CASE a > b - n
    <3>1. ~Hits(e, a)
      BY <1>1, <1>4, <2>1, <2>3 DEF Hits
    <3>2. a > b => ~Hits(c, a)
      BY <1>1, <2>1 DEF Hits
    <3>3. QED BY <3>1, <3>2, <1>1, <1>4, <1>5, <2>1, <2>3 DEF Visible
  <2>4. QED BY <1>1, <2>1, <2>2, <2>3
<1>7. QED BY <1>4, <1>5, <1>6

LEMMA AddrIsInt == ASSUME NEW a \in Addr PROVE a \in Int
  BY AddrBounds

(* What an update of OPTOP that is not refused does: the words that are    *)
(* live before and after are seen as before, those above the old OPTOP     *)
(* too, unless it moved by more than the stack cache has room for, and     *)
(* memory changes only between the lower OPTOP and the old bottom.         *)
MovedWell(c, value, e) ==
    /\ e \in Cpu /\ SameRest(c, e)
    /\ e.optop = value
    /\ e.scBottom - value \in e.fill..e.spill
    /\ \A a \in Addr : a > value /\ (a > c.optop \/ value >= c.scBottom - SCACHE_SIZE)
                          => Visible(e, a) = Visible(c, a)
    /\ \A a \in Addr : (a <= value /\ a <= c.optop) \/ a > c.scBottom
                          => e.mem[a] = c.mem[a]

LEMMA OutsideWell ==
    ASSUME Broken = {}, NEW c \in Cpu, Marked(c), c.eid = NO_EXCEPTION,
           NEW old \in Int, c.scBottom - old \in 0..SCACHE_SIZE,
           NEW isReturn \in BOOLEAN, isReturn => c.optop >= old,
           c.optop >= -1, c.optop + c.spill <= MaxAddr,
           c.scBottom - c.optop > SCACHE_SIZE \/ c.scBottom - c.optop < 0,
           NEW e, e = Outside(c, old, isReturn)
    PROVE  /\ e \in Cpu /\ SameRest(c, e)
           /\ e.optop = c.optop /\ e.scBottom = c.optop + c.fill
           /\ \A a \in Addr : a > c.optop /\ (a > old \/ c.optop >= c.scBottom - SCACHE_SIZE)
                                => Visible(e, a) = Visible(c, a)
           /\ \A a \in Addr : a <= old \/ a > c.scBottom => e.mem[a] = c.mem[a]
<1> DEFINE b == c.scBottom
           o == c.optop
           spilt == b - o > SCACHE_SIZE \/ ~isReturn
           d == IF spilt THEN Spill(c, b - old) ELSE c
           f == [d EXCEPT !.scBottom = d.optop]
<1>1. /\ b \in Int /\ o \in Int /\ c.fill \in Nat /\ c.spill \in Nat /\ SCACHE_SIZE \in Nat
      /\ c.fill <= c.spill /\ c.fill + 2 <= SCACHE_SIZE
      /\ b - old \in 0..SCACHE_SIZE
  BY CpuTyped, MarkBounds, SizePositive
<1>2. e = Fill(f, c.fill)
  BY DEF Outside
<1>3. /\ d \in Cpu /\ SameRest(c, d) /\ d.optop = o
      /\ \A a \in Addr : d.mem[a] = IF spilt /\ a > old /\ a <= b
                                    THEN Visible(c, a) ELSE c.mem[a]
  <2>1. CASE spilt
    <3>1. d = Spill(c, b - old) /\ b - (b - old) = old
      BY <2>1, <1>1
    <3> HIDE DEF d, b, o
    <3>2. b = c.scBottom /\ o = c.optop
      BY DEF b, o
    <3>3. QED BY <3>1, <3>2, <1>1, <2>1, SpillEffect
  <2>2. CASE ~spilt
    BY <2>2 DEF SameRest
  <2>3. QED BY <2>1, <2>2
<1> HIDE DEF d
<1>4. /\ f \in Cpu /\ SameRest(c, f) /\ f.optop = o /\ f.scBottom = o
      /\ f.mem = d.mem
  BY <1>1, <1>3 DEF Cpu, SameRest
<1> HIDE DEF f
<1>5. /\ e \in Cpu /\ SameRest(f, e) /\ e.optop = f.optop /\ e.mem = f.mem
      /\ e.scBottom = f.scBottom + c.fill
      /\ \A a \in Addr : a > f.scBottom + c.fill - SCACHE_SIZE
                           => Visible(e, a) = Visible(f, a)
  <2>1. f.scBottom >= -2 /\ f.scBottom + c.fill <= MaxAddr
    BY <1>1, <1>4, AddrBounds
  <2>2. QED BY <2>1, <1>1, <1>2, <1>4, FillEffect
<1>6. ASSUME NEW a \in Addr, a > o, a > old \/ o >= b - SCACHE_SIZE
      PROVE  Visible(e, a) = Visible(c, a)
  <2>1. a \in Int
    BY AddrIsInt
  <2>2. Visible(e, a) = Visible(f, a)
    BY <1>1, <1>4, <1>5, <1>6, <2>1
  <2>3. Visible(f, a) = d.mem[a]
    BY <1>1, <1>4, <1>6, <2>1 DEF Visible, Hits
  <2>4. a > old
    BY <1>1, <1>6, <2>1
  <2>5. CASE a > b
    <3>1. ~Hits(c, a)
      BY <1>1, <2>1, <2>5 DEF Hits
    <3>2. d.mem[a] = c.mem[a]
      BY <1>1, <1>3, <2>1, <2>5
    <3>3. QED BY <2>2, <2>3, <3>1, <3>2 DEF Visible
  <2>6. CASE a <= b
    <3>1. spilt
      BY <1>1, <1>6, <2>1, <2>6
    <3>2. QED BY <1>3, <2>2, <2>3, <2>4, <2>6, <3>1
  <2>7. QED BY <2>1, <1>1, <2>5, <2>6
<1>7. ASSUME NEW a \in Addr, a <= old \/ a > b
      PROVE  e.mem[a] = c.mem[a]
  <2>1. a \in Int
    BY AddrIsInt
  <2>2. QED BY <1>1, <1>3, <1>4, <1>5, <1>7, <2>1
<1>8. e \in Cpu /\ SameRest(c, e) /\ e.optop = c.optop /\ e.scBottom = c.optop + c.fill
  BY <1>4, <1>5 DEF SameRest
<1>9. QED BY <1>6, <1>7, <1>8

LEMMA MovedEffect ==
    ASSUME Broken = {}, NEW c \in Cpu, Marked(c), c.eid = NO_EXCEPTION, c.dre,
           c.scBottom - c.optop \in 0..SCACHE_SIZE,
           NEW value \in Int, value >= -1, value + c.spill <= MaxAddr,
           NEW isReturn \in BOOLEAN, isReturn => value >= c.optop,
           NEW e, e = Moved(c, value, isReturn)
    PROVE  MovedWell(c, value, e)
<1> DEFINE d == [c EXCEPT !.optop = value]
           b == c.scBottom
           n == b - value
<1>1. /\ b \in Int /\ c.optop \in Int /\ c.fill \in Nat /\ c.spill \in Nat
      /\ SCACHE_SIZE \in Nat /\ c.fill <= c.spill /\ c.spill + 2 <= SCACHE_SIZE
  BY CpuTyped, MarkBounds, SizePositive
<1>2. /\ d \in Cpu /\ SameRest(c, d) /\ d.optop = value /\ d.scBottom = b
      /\ d.mem = c.mem /\ d.sCacheMem = c.sCacheMem
  BY DEF Cpu, SameRest
<1>3. \A a : Visible(d, a) = Visible(c, a)
  BY <1>2 DEF Visible, Hits
<1>4. e = vUpdateSCache(d, c.optop, isReturn) /\ Marked(d) /\ d.eid = NO_EXCEPTION
      /\ d.fill = c.fill /\ d.spill = c.spill
  BY <1>2 DEF Moved, SameRest, Marked
<1> HIDE DEF d
<1>5. CASE n > SCACHE_SIZE \/ n < 0
  <2>1. e = Outside(d, c.optop, isReturn)
    BY <1>2, <1>4, <1>5 DEF vUpdateSCache
  <2>2. /\ Broken = {} /\ d \in Cpu /\ Marked(d) /\ d.eid = NO_EXCEPTION
        /\ c.optop \in Int /\ isReturn \in BOOLEAN
        /\ d.scBottom - c.optop \in 0..SCACHE_SIZE
        /\ isReturn => d.optop >= c.optop
        /\ d.optop >= -1 /\ d.optop + d.spill <= MaxAddr
        /\ d.scBottom - d.optop > SCACHE_SIZE \/ d.scBottom - d.optop < 0
    BY <1>1, <1>2, <1>4, <1>5
  <2>3. /\ e \in Cpu /\ SameRest(d, e)
        /\ e.optop = d.optop /\ e.scBottom = d.optop + d.fill
        /\ \A a \in Addr : a > d.optop /\ (a > c.optop \/ d.optop >= d.scBottom - SCACHE_SIZE)
                             => Visible(e, a) = Visible(d, a)
        /\ \A a \in Addr : a <= c.optop \/ a > d.scBottom => e.mem[a] = d.mem[a]
    BY <2>1, <2>2, OutsideWell
  <2>4. e.scBottom - value \in e.fill..e.spill
    BY <2>3, <1>1, <1>2, <1>4 DEF SameRest
  <2>5. QED BY <2>3, <2>4, <1>1, <1>2, <1>3, AddrIsInt DEF MovedWell, SameRest
<1>6. CASE n \in 0..SCACHE_SIZE /\ n < c.fill
  <2>1. e = Fill(d, c.fill - n) /\ c.fill - n \in Nat
    BY <1>1, <1>2, <1>4, <1>6 DEF vUpdateSCache
  <2>2. d.scBottom >= -2 /\ d.scBottom + (c.fill - n) <= MaxAddr
    <3>1. d.scBottom >= -2 /\ d.scBottom + (c.fill - n) = value + c.fill
      BY <1>1, <1>2, <1>6
    <3>2. value + c.fill <= MaxAddr
      BY <1>1, AddrBounds
    <3>3. QED BY <3>1, <3>2
  <2>3. /\ e \in Cpu /\ SameRest(d, e) /\ e.optop = d.optop /\ e.mem = d.mem
        /\ e.scBottom = d.scBottom + (c.fill - n)
        /\ \A a \in Addr : a > d.scBottom + (c.fill - n) - SCACHE_SIZE
                             => Visible(e, a) = Visible(d, a)
    BY <2>1, <2>2, <1>2, FillEffect
  <2>4. e.scBottom = value + c.fill
    BY <2>3, <1>1, <1>2
  <2>5. ASSUME NEW a \in Addr, a > value PROVE Visible(e, a) = Visible(c, a)
    <3>1. a > d.scBottom + (c.fill - n) - SCACHE_SIZE
      BY <2>5, <1>1, <1>2, AddrIsInt
    <3>2. QED BY <2>3, <3>1, <1>3
  <2>6. e.scBottom - value \in e.fill..e.spill
    BY <2>3, <2>4, <1>1, <1>2, <1>4 DEF SameRest
  <2>7. QED BY <2>3, <2>5, <2>6, <1>2 DEF MovedWell, SameRest
<1>7. CASE n \in 0..SCACHE_SIZE /\ n > c.spill
  <2>1. e = Spill(d, n - c.spill) /\ n - c.spill \in 0..SCACHE_SIZE
    BY <1>1, <1>2, <1>4, <1>7 DEF vUpdateSCache
  <2>2. /\ e \in Cpu /\ SameRest(d, e)
        /\ e.optop = d.optop /\ e.scBottom = d.scBottom - (n - c.spill)
        /\ \A a \in Addr : a > d.scBottom - SCACHE_SIZE => Visible(e, a) = Visible(d, a)
        /\ \A a \in Addr : e.mem[a] = IF a > d.scBottom - (n - c.spill) /\ a <= d.scBottom
                                      THEN Visible(d, a) ELSE d.mem[a]
    BY <2>1, <1>2, <1>4, SpillEffect
  <2>3. e.scBottom = value + c.spill
    BY <2>2, <1>1, <1>2
  <2>4. ASSUME NEW a \in Addr, a > value PROVE Visible(e, a) = Visible(c, a)
    <3>1. a > d.scBottom - SCACHE_SIZE
      BY <2>4, <1>1, <1>2, <1>7, AddrIsInt
    <3>2. QED BY <2>2, <3>1, <1>3
  <2>5. ASSUME NEW a \in Addr, (a <= value /\ a <= c.optop) \/ a > b
        PROVE  e.mem[a] = c.mem[a]
    <3>1. a \in Int /\ ~(a > d.scBottom - (n - c.spill) /\ a <= d.scBottom)
      BY <2>5, <1>1, <1>2, <1>7, AddrIsInt
    <3>2. QED BY <3>1, <2>2, <1>2
  <2>6. e.scBottom - value \in e.fill..e.spill
    BY <2>2, <2>3, <1>1, <1>2, <1>4 DEF SameRest
  <2>7. QED BY <2>2, <2>4, <2>5, <2>6, <1>2 DEF MovedWell, SameRest
<1>8. CASE n \in 0..SCACHE_SIZE /\ ~(n < c.fill) /\ ~(n > c.spill)
  <2>1. e = d
    BY <1>1, <1>2, <1>4, <1>8 DEF vUpdateSCache
  <2>2. e.scBottom - value \in e.fill..e.spill
    BY <2>1, <1>1, <1>2, <1>4, <1>8
  <2>3. QED BY <2>1, <2>2, <1>2, <1>3 DEF MovedWell
<1>9. n \in Int
  BY <1>1
<1>10. QED BY <1>1, <1>5, <1>6, <1>7, <1>8, <1>9

-----------------------------------------------------------------------------
(* Writes.                                                                 *)
LEMMA WriteAllEffect ==
    ASSUME NEW c \in Cpu, c.eid = NO_EXCEPTION,
           NEW W \in SUBSET Addr, NEW f \in [Addr -> Values],
           NEW e, e = WriteAll(c, W, f)
    PROVE  /\ e \in Cpu /\ SameRest(c, e)
           /\ e.optop = c.optop /\ e.scBottom = c.scBottom
           /\ \A a \in Addr : Visible(e, a) = IF a \in W THEN f[a] ELSE Visible(c, a)
           /\ \A a \in Addr \ W : e.mem[a] = c.mem[a]
<1> DEFINE b == c.scBottom
           g == [i \in StackIndex |-> IF WordIn(i, b) \in W THEN f[WordIn(i, b)]
                                      ELSE c.sCacheMem[i]]
           h == [a \in Addr |-> IF a \in W /\ ~Hits(c, a) THEN f[a] ELSE c.mem[a]]
<1>1. b \in Int /\ c.sCacheMem \in [StackIndex -> Values] /\ c.mem \in [Addr -> Values]
  BY CpuTyped
<1>2. e = [c EXCEPT !.sCacheMem = g, !.mem = h]
  BY DEF WriteAll
<1>3. g \in [StackIndex -> Values] /\ h \in [Addr -> Values]
  BY <1>1
<1> HIDE DEF g, h
<1>4. /\ e \in Cpu /\ SameRest(c, e)
      /\ e.optop = c.optop /\ e.scBottom = b /\ e.sCacheMem = g /\ e.mem = h
  BY <1>2, <1>3 DEF Cpu, SameRest
<1>5. ASSUME NEW a \in Addr
      PROVE  Visible(e, a) = IF a \in W THEN f[a] ELSE Visible(c, a)
  <2>1. Hits(e, a) <=> Hits(c, a)
    BY <1>4 DEF Hits
  <2>2. CASE Hits(c, a)
    <3>1. WordIn(Slot(a), b) = a /\ Slot(a) \in StackIndex
      BY <1>1, <2>2, AddrIsInt, SlotWord, SlotIn DEF Hits
    <3>2. g[Slot(a)] = IF a \in W THEN f[a] ELSE c.sCacheMem[Slot(a)]
      BY <3>1 DEF g
    <3>3. QED BY <2>1, <2>2, <3>2, <1>4 DEF Visible
  <2>3. CASE ~Hits(c, a)
    BY <2>1, <2>3, <1>4 DEF Visible, h
  <2>4. QED BY <2>2, <2>3
<1>6. \A a \in Addr \ W : e.mem[a] = c.mem[a]
  BY <1>4 DEF h
<1>7. QED BY <1>4, <1>5, <1>6

LEMMA StackWriteEffect ==
    ASSUME NEW c \in Cpu, c.eid = NO_EXCEPTION,
           NEW a \in Addr, NEW v \in Values, NEW e, e = StackWrite(c, a, v)
    PROVE  /\ e \in Cpu /\ SameRest(c, e)
           /\ e.optop = c.optop /\ e.scBottom = c.scBottom
           /\ Visible(e, a) = v
           /\ \A x \in Addr \ {a} : Visible(e, x) = Visible(c, x) /\ e.mem[x] = c.mem[x]
<1>1. /\ c.scBottom \in Int /\ c.sCacheMem \in [StackIndex -> Values]
      /\ c.mem \in [Addr -> Values] /\ SCACHE_SIZE \in Nat
  BY CpuTyped, SizePositive
<1>2. CASE Hits(c, a)
  <2>1. e = [c EXCEPT !.sCacheMem = [@ EXCEPT ![Slot(a)] = v]] /\ Slot(a) \in StackIndex
    BY <1>2, AddrIsInt, SlotIn DEF StackWrite, Written
  <2>2. /\ e \in Cpu /\ SameRest(c, e) /\ e.optop = c.optop /\ e.scBottom = c.scBottom
        /\ e.mem = c.mem /\ e.sCacheMem = [c.sCacheMem EXCEPT ![Slot(a)] = v]
    BY <1>1, <2>1 DEF Cpu, SameRest
  <2>3. ASSUME NEW x \in Addr \ {a} PROVE Visible(e, x) = Visible(c, x)
    <3>1. Hits(c, x) => Slot(x) # Slot(a) /\ Slot(x) \in StackIndex
      BY <1>1, <1>2, AddrIsInt, SameSlot, SlotIn DEF Hits
    <3>2. QED BY <3>1, <2>1, <2>2, <1>1 DEF Visible, Hits
  <2>4. Visible(e, a) = v
    BY <1>1, <1>2, <2>1, <2>2 DEF Visible, Hits
  <2>5. QED BY <2>2, <2>3, <2>4
<1>3. CASE ~Hits(c, a)
  <2>1. e = [c EXCEPT !.mem = [@ EXCEPT ![a] = v]]
    BY <1>3 DEF StackWrite, Written
  <2>2. /\ e \in Cpu /\ SameRest(c, e) /\ e.optop = c.optop /\ e.scBottom = c.scBottom
        /\ e.sCacheMem = c.sCacheMem /\ e.mem = [c.mem EXCEPT ![a] = v]
    BY <1>1, <2>1 DEF Cpu, SameRest
  <2>3. QED BY <1>1, <1>3, <2>2 DEF Visible, Hits
<1>4. QED BY <1>2, <1>3

(* OPTOP and the exception number after a move, whatever the rest is.      *)
Whole(c) == {"optop", "eid"} \subseteq DOMAIN c

LEMMA FillWhole ==
    ASSUME Broken = {}, NEW c, Whole(c), NEW n, NEW e, e = Fill(c, n)
    PROVE  Whole(e) /\ e.optop = c.optop /\ e.eid = c.eid
  BY DEF Fill, Whole

LEMMA SpillWhole ==
    ASSUME NEW c, Whole(c), NEW n, NEW e, e = Spill(c, n)
    PROVE  Whole(e) /\ e.optop = c.optop /\ e.eid = c.eid
  BY DEF Spill, Whole

LEMMA MovedWhole ==
    ASSUME Broken = {}, NEW c, Whole(c), NEW value, NEW isReturn,
           NEW e, e = Moved(c, value, isReturn)
    PROVE  Whole(e) /\ e.optop = value /\ e.eid = c.eid
<1> DEFINE d == [c EXCEPT !.optop = value]
           o == c.optop
<1>1. Whole(d) /\ d.optop = value /\ d.eid = c.eid
  BY DEF Whole
<1>2. e = IF c.dre THEN vUpdateSCache(d, o, isReturn) ELSE d
  BY DEF Moved
<1> HIDE DEF d, o
<1>3. ASSUME NEW g, g = Outside(d, o, isReturn)
      PROVE  Whole(g) /\ g.optop = d.optop /\ g.eid = d.eid
  <2> DEFINE k == IF d.scBottom - d.optop > SCACHE_SIZE \/ ~isReturn
                  THEN Spill(d, d.scBottom - o) ELSE d
             h == [k EXCEPT !.scBottom = k.optop]
  <2>1. Whole(k) /\ k.optop = d.optop /\ k.eid = d.eid
    BY <1>1, SpillWhole
  <2>2. g = Fill(h, d.fill)
    BY <1>3 DEF Outside
  <2> HIDE DEF k
  <2>3. Whole(h) /\ h.optop = k.optop /\ h.eid = k.eid
    BY <2>1 DEF Whole
  <2> HIDE DEF h
  <2>4. QED BY <2>1, <2>2, <2>3, FillWhole
<1>4. \A n : LET g == Fill(d, n) IN Whole(g) /\ g.optop = d.optop /\ g.eid = d.eid
  BY <1>1, FillWhole
<1>5. \A n : LET g == Spill(d, n) IN Whole(g) /\ g.optop = d.optop /\ g.eid = d.eid
  BY <1>1, SpillWhole
<1>6. \/ e = d \/ e = Outside(d, o, isReturn)
      \/ \E n : e = Fill(d, n) \/ e = Spill(d, n)
  BY <1>2 DEF vUpdateSCache
<1>7. QED BY <1>1, <1>3, <1>4, <1>5, <1>6

-----------------------------------------------------------------------------
(***************************************************************************)
(* The processor between two instructions, on stack s.  Elsewhere is where *)
(* the other stack is.                                                     *)
(***************************************************************************)
Loose(c, s) ==
    /\ c \in Cpu /\ Marked(c) /\ c.eid = NO_EXCEPTION
    /\ c.optop \in Low(s)..Base(s)
    /\ c.scBottom - c.optop \in 0..SCACHE_SIZE /\ c.scBottom - c.optop < Gap
    /\ c.limited => c.optop >= c.oplim

Ready(c, s) ==
    /\ Loose(c, s) /\ c.dre
    /\ c.scBottom - c.optop \in c.fill..c.spill

SameElsewhere(c, e, s) ==
    \A a \in Addr : a <= Low(s) - Gap \/ a > Base(s) + Gap => e.mem[a] = c.mem[a]

LEMMA Geometry ==
    ASSUME NEW s \in Stacks
    PROVE  /\ Low(s) \in Nat /\ Base(s) \in Nat /\ Base(s) = Low(s) + Depth
           /\ Depth \in Nat /\ Depth > 0 /\ Gap \in Nat
           /\ Base(s) + SCACHE_SIZE <= MaxAddr /\ MaxAddr \in Int
           /\ 1 - s \in Stacks /\ 1 - s # s /\ 1 - (1 - s) = s
           /\ Base(1 - s) <= Low(s) - Gap \/ Low(1 - s) >= Base(s) + Gap
           /\ Base(1 - s) + Gap = Low(s) \/ Low(1 - s) = Base(s) + Gap
           /\ \A a \in Int : a >= -1 /\ a <= Base(s) => a \in Addr
  BY StackCacheAssumption, AddrBounds DEF Stacks, Low, Base

LEMMA LooseTyped ==
    ASSUME NEW s \in Stacks, NEW c, Loose(c, s)
    PROVE  /\ c \in Cpu /\ c.optop \in Int /\ c.scBottom \in Int /\ c.oplim \in Int
           /\ c.fill \in Nat /\ c.spill \in Nat
           /\ 2 <= c.fill /\ c.fill <= c.spill /\ c.spill + 2 <= SCACHE_SIZE
           /\ c.spill + TrapWords <= SCACHE_SIZE /\ c.spill < Gap
           /\ SCACHE_SIZE \in Nat /\ TrapWords \in Nat /\ TrapWords >= 2
           /\ SCACHE_SIZE < Gap + c.fill
           /\ FrameWords \in Nat /\ FrameWords >= 1
<1>1. c \in Cpu /\ Marked(c)
  BY DEF Loose
<1>2. QED BY <1>1, CpuTyped, MarkBounds, StackCacheAssumption

(* An update of OPTOP that is not refused.                                 *)
LEMMA MoveEffect ==
    ASSUME Broken = {}, NEW s \in Stacks, NEW c, Loose(c, s), c.dre,
           NEW value \in Low(s)..Base(s), ~Refused(c, value),
           NEW isReturn \in BOOLEAN, isReturn => value >= c.optop,
           NEW e, e = vUpdateOptop(c, value, isReturn)
    PROVE  /\ Ready(e, s) /\ SameRest(c, e) /\ e.optop = value
           /\ \A a \in Addr : a > value /\ (a > c.optop \/ value >= c.scBottom - SCACHE_SIZE)
                                => Visible(e, a) = Visible(c, a)
           /\ SameElsewhere(c, e, s)
<1>1. e = Moved(c, value, isReturn)
  BY DEF vUpdateOptop
<1>2. /\ c \in Cpu /\ c.optop \in Int /\ c.scBottom \in Int /\ c.oplim \in Int
      /\ c.fill \in Nat /\ c.spill \in Nat
      /\ 2 <= c.fill /\ c.fill <= c.spill /\ c.spill + 2 <= SCACHE_SIZE
      /\ c.spill < Gap /\ SCACHE_SIZE \in Nat
  BY LooseTyped
<1>3. /\ Low(s) \in Nat /\ Base(s) \in Nat /\ Gap \in Nat
      /\ Base(s) + SCACHE_SIZE <= MaxAddr /\ MaxAddr \in Int
  BY Geometry
<1>4. value \in Int /\ value >= -1 /\ value + c.spill <= MaxAddr /\ value <= Base(s)
      /\ value >= Low(s)
  BY <1>2, <1>3
<1>5. c.optop \in Low(s)..Base(s) /\ c.scBottom - c.optop \in 0..SCACHE_SIZE
      /\ c.scBottom - c.optop < Gap /\ Marked(c) /\ c.eid = NO_EXCEPTION
  BY DEF Loose
<1>6. MovedWell(c, value, e)
  BY <1>1, <1>2, <1>4, <1>5, MovedEffect
<1>7. /\ e \in Cpu /\ SameRest(c, e) /\ e.optop = value
      /\ e.scBottom - value \in e.fill..e.spill
      /\ \A a \in Addr : a > value /\ (a > c.optop \/ value >= c.scBottom - SCACHE_SIZE)
                           => Visible(e, a) = Visible(c, a)
      /\ \A a \in Addr : (a <= value /\ a <= c.optop) \/ a > c.scBottom
                           => e.mem[a] = c.mem[a]
  BY <1>6 DEF MovedWell
<1>8. /\ e.fill = c.fill /\ e.spill = c.spill /\ e.dre = c.dre
      /\ e.oplim = c.oplim /\ e.limited = c.limited /\ e.eid = c.eid
  BY <1>7 DEF SameRest
<1>9. Ready(e, s)
  <2>1. e.limited => e.optop >= e.oplim
    BY <1>2, <1>4, <1>7, <1>8 DEF Refused
  <2>2. Marked(e)
    BY <1>5, <1>8 DEF Marked
  <2>3. e.scBottom - e.optop \in 0..SCACHE_SIZE /\ e.scBottom - e.optop < Gap
    BY <1>2, <1>3, <1>7, <1>8
  <2>4. QED BY <2>1, <2>2, <2>3, <1>5, <1>7, <1>8 DEF Ready, Loose
<1>10. SameElsewhere(c, e, s)
  <2>1. SUFFICES ASSUME NEW a \in Addr, a <= Low(s) - Gap \/ a > Base(s) + Gap
                 PROVE  e.mem[a] = c.mem[a]
    BY DEF SameElsewhere
  <2>2. (a <= value /\ a <= c.optop) \/ a > c.scBottom
    BY <2>1, <1>2, <1>3, <1>4, <1>5, AddrIsInt
  <2>3. QED BY <2>2, <1>7
<1>11. QED BY <1>7, <1>9, <1>10

LEMMA FrameTyped ==
    ASSUME NEW f \in Frames
    PROVE  f \in [Addr -> Values]
  BY StackCacheAssumption DEF Frames

(* A trap: OPTOP is always moved, and the frame is in place.               *)
LEMMA TrapEffect ==
    ASSUME Broken = {}, NEW s \in Stacks, NEW c, Ready(c, s),
           NEW f \in Frames, NEW e, e = invoke_trap(c, f), e.optop >= Low(s)
    PROVE  /\ Ready(e, s) /\ e.optop = c.optop - TrapWords
           /\ \A a \in Addr : a > c.optop - TrapWords =>
                 Visible(e, a) = IF a <= c.optop THEN f[a] ELSE Visible(c, a)
           /\ SameElsewhere(c, e, s)
<1> DEFINE value == c.optop - TrapWords
           d == IF c.limited /\ value < c.oplim THEN [c EXCEPT !.limited = FALSE] ELSE c
           m == Moved(d, value, FALSE)
           k == [m EXCEPT !.eid = NO_EXCEPTION]
           W == m.optop + 1..m.optop + TrapWords
           g == WriteAll(k, W, f)
<1>1. Loose(c, s) /\ c.dre /\ c.scBottom - c.optop \in c.fill..c.spill
  BY DEF Ready
<1>2. /\ c \in Cpu /\ c.optop \in Int /\ c.scBottom \in Int /\ c.oplim \in Int
      /\ c.fill \in Nat /\ c.spill \in Nat
      /\ 2 <= c.fill /\ c.fill <= c.spill
      /\ c.spill + TrapWords <= SCACHE_SIZE
      /\ SCACHE_SIZE \in Nat /\ TrapWords \in Nat /\ TrapWords >= 2
  BY <1>1, LooseTyped
<1>3. /\ Low(s) \in Nat /\ Base(s) \in Nat /\ Gap \in Nat
      /\ Base(s) + SCACHE_SIZE <= MaxAddr
  BY Geometry
<1>4. /\ d \in Cpu /\ d.optop = c.optop /\ d.scBottom = c.scBottom /\ d.mem = c.mem
      /\ d.sCacheMem = c.sCacheMem /\ d.dre = c.dre /\ d.fill = c.fill /\ d.spill = c.spill
      /\ d.eid = c.eid /\ d.oplim = c.oplim
      /\ d.limited => c.limited /\ value >= c.oplim
  <2>1. value \in Int
    BY <1>2
  <2> HIDE DEF value
  <2>2. CASE c.limited /\ value < c.oplim
    <3>1. d = [c EXCEPT !.limited = FALSE]
      BY <2>2
    <3> HIDE DEF d
    <3>2. QED BY <3>1, <1>2 DEF Cpu
  <2>3. CASE ~(c.limited /\ value < c.oplim)
    <3>1. d = c
      BY <2>3
    <3>2. QED BY <3>1, <2>1, <2>3, <1>2
  <2>4. QED BY <2>2, <2>3
<1>5. e = [g EXCEPT !.eid = m.eid]
  BY <1>4 DEF invoke_trap
<1> HIDE DEF d
<1>6. Loose(d, s) /\ d.dre
  BY <1>1, <1>2, <1>4 DEF Loose, Marked
<1>7. m.optop = value /\ m.eid = NO_EXCEPTION
  <2>1. Whole(d)
    BY <1>4 DEF Whole, Cpu
  <2>2. m.optop = value /\ m.eid = d.eid
    <3> DEFINE r == FALSE
    <3>1. m = Moved(d, value, r)
      OBVIOUS
    <3> HIDE DEF r, m, value
    <3>2. QED BY <2>1, <3>1, MovedWhole
  <2>3. d.eid = NO_EXCEPTION
    BY <1>6 DEF Loose
  <2>4. QED BY <2>2, <2>3
<1> HIDE DEF m
<1>8. e.optop = m.optop
  <2>1. Whole(m) /\ Whole(k) /\ k.optop = m.optop
    <3>1. Whole(d)
      BY <1>4 DEF Whole, Cpu
    <3>2. Whole(m)
      BY <3>1, MovedWhole DEF m
    <3>3. QED BY <3>2 DEF Whole
  <2> HIDE DEF k
  <2>2. Whole(g) /\ g.optop = k.optop
    BY <2>1 DEF Whole, WriteAll
  <2> HIDE DEF g
  <2>3. QED BY <2>1, <2>2, <1>5 DEF Whole
<1>9. value \in Low(s)..Base(s)
  <2>1. c.optop \in Low(s)..Base(s)
    BY <1>1 DEF Loose
  <2>2. QED BY <2>1, <1>2, <1>3, <1>7, <1>8
<1>10. /\ Ready(m, s) /\ SameRest(d, m)
       /\ \A a \in Addr : a > value /\ (a > d.optop \/ value >= d.scBottom - SCACHE_SIZE)
                            => Visible(m, a) = Visible(d, a)
       /\ SameElsewhere(d, m, s)
  <2>1. ~Refused(d, value)
    BY <1>2, <1>4 DEF Refused
  <2>2. m = vUpdateOptop(d, value, FALSE)
    BY <2>1 DEF m, vUpdateOptop
  <2> DEFINE r == FALSE
  <2>3. m = vUpdateOptop(d, value, r) /\ r \in BOOLEAN /\ ~r
    BY <2>2
  <2> HIDE DEF value, r
  <2>4. QED BY <2>1, <2>3, <1>6, <1>9, MoveEffect
<1>11. m \in Cpu
  BY <1>10 DEF Ready, Loose
<1>12. /\ k \in Cpu /\ SameRest(m, k) /\ k.optop = m.optop /\ k.scBottom = m.scBottom
       /\ k.mem = m.mem /\ k.sCacheMem = m.sCacheMem
  BY <1>7, <1>11 DEF Cpu, SameRest, NO_EXCEPTION
<1> HIDE DEF k
<1>13. W \subseteq Addr /\ W = value + 1..c.optop
  <2>1. W = value + 1..c.optop
    BY <1>7, <1>2
  <2>2. ASSUME NEW a \in value + 1..c.optop PROVE a \in Addr
    <3>1. a \in Int /\ a >= -1 /\ a <= Base(s)
      BY <1>1, <1>2, <1>3, <1>9 DEF Loose
    <3>2. QED BY <3>1, Geometry
  <2>3. QED BY <2>1, <2>2
<1> HIDE DEF W
<1>14. /\ g \in Cpu /\ SameRest(k, g) /\ g.optop = k.optop /\ g.scBottom = k.scBottom
       /\ \A a \in Addr : Visible(g, a) = IF a \in W THEN f[a] ELSE Visible(k, a)
       /\ \A a \in Addr \ W : g.mem[a] = k.mem[a]
  <2>1. k.eid = NO_EXCEPTION
    BY <1>7, <1>12 DEF SameRest
  <2>2. f \in [Addr -> Values]
    BY FrameTyped
  <2>3. g = WriteAll(k, W, f) /\ k \in Cpu /\ W \in SUBSET Addr
    BY <1>12, <1>13
  <2> HIDE DEF g
  <2>4. QED BY <2>1, <2>2, <2>3, WriteAllEffect
<1> HIDE DEF g
<1>15. /\ e \in Cpu /\ SameRest(m, e) /\ e.optop = m.optop /\ e.scBottom = m.scBottom
       /\ e.mem = g.mem /\ e.sCacheMem = g.sCacheMem /\ e.scBottom = g.scBottom
  <2>1. m.eid \in Int
    BY <1>11, CpuTyped
  <2>2. QED BY <2>1, <1>5, <1>12, <1>14 DEF Cpu, SameRest
<1>16. Ready(e, s)
  BY <1>10, <1>15 DEF Ready, Loose, SameRest, Marked
<1>17. ASSUME NEW a \in Addr, a > value
       PROVE  Visible(e, a) = IF a <= c.optop THEN f[a] ELSE Visible(c, a)
  <2>1. a \in W <=> a <= c.optop
    BY <1>2, <1>13, <1>17, AddrIsInt
  <2>2. Visible(e, a) = Visible(g, a)
    BY <1>15 DEF Visible, Hits
  <2>3. Visible(k, a) = Visible(m, a)
    BY <1>12 DEF Visible, Hits
  <2>4. Visible(m, a) = Visible(d, a)
    BY <1>1, <1>2, <1>4, <1>10, <1>17
  <2>5. Visible(d, a) = Visible(c, a)
    BY <1>4 DEF Visible, Hits
  <2>6. QED BY <2>1, <2>2, <2>3, <2>4, <2>5, <1>14
<1>18. SameElsewhere(c, e, s)
  <2>1. SUFFICES ASSUME NEW a \in Addr, a <= Low(s) - Gap \/ a > Base(s) + Gap
                 PROVE  e.mem[a] = c.mem[a]
    BY DEF SameElsewhere
  <2>2. a \notin W
    <3>1. /\ a \in Int /\ value \in Int /\ value >= Low(s) /\ c.optop <= Base(s)
          /\ c.optop \in Int /\ Low(s) \in Int /\ Base(s) \in Int /\ Gap \in Nat
      BY <1>1, <1>2, <1>3, <1>9, AddrIsInt DEF Loose
    <3> HIDE DEF value
    <3>2. a \notin value + 1..c.optop
      BY <2>1, <3>1
    <3>3. QED BY <3>2, <1>13
  <2>3. e.mem[a] = m.mem[a]
    BY <2>2, <1>12, <1>14, <1>15
  <2>4. m.mem[a] = d.mem[a]
    BY <2>1, <1>10 DEF SameElsewhere
  <2>5. QED BY <2>3, <2>4, <1>4
<1>19. QED BY <1>7, <1>15, <1>16, <1>17, <1>18

LEMMA MoveWhole ==
    ASSUME Broken = {}, NEW c \in Cpu, NEW value, ~Refused(c, value),
           NEW r, NEW e, e = vUpdateOptop(c, value, r)
    PROVE  e.optop = value /\ e.eid = c.eid
<1>1. e = Moved(c, value, r)
  BY DEF vUpdateOptop
<1>2. Whole(c) /\ Broken = {}
  BY DEF Whole, Cpu
<1>3. QED BY ONLY <1>1, <1>2, MovedWhole

-----------------------------------------------------------------------------
(***************************************************************************)
(* An instruction that is undone: k is the processor it began with, and c  *)
(* what there is when its exception is taken.                              *)
(***************************************************************************)
Undone(k, c, s) ==
    /\ c \in Cpu /\ Marked(c) /\ c.dre /\ c.eid # NO_EXCEPTION /\ ~c.limited
    /\ c.saved.optop \in Low(s)..Base(s)
    /\ c.saved.scBottom - c.saved.optop \in c.fill..c.spill
    /\ \A a \in Addr : a > c.saved.optop => Visible(Restored(c), a) = Visible(k, a)
    /\ SameElsewhere(k, c, s)

(* OPTOP and SC_BOTTOM are still what was saved.                           *)
Unmoved(c) == c.optop = c.saved.optop /\ c.scBottom = c.saved.scBottom

LEMMA RestoredEffect ==
    ASSUME NEW s \in Stacks, NEW k, NEW c, Undone(k, c, s), NEW r, r = Restored(c)
    PROVE  /\ Ready(r, s) /\ r.optop = c.saved.optop
           /\ r.scBottom = c.saved.scBottom
           /\ r.mem = c.mem /\ r.sCacheMem = c.sCacheMem
<1>1. c \in Cpu /\ Marked(c) /\ c.dre /\ c.saved \in [optop : Int, scBottom : Int]
  BY CpuTyped DEF Undone
<1>2. /\ r \in Cpu /\ r.optop = c.saved.optop /\ r.scBottom = c.saved.scBottom
      /\ r.mem = c.mem /\ r.sCacheMem = c.sCacheMem /\ r.eid = NO_EXCEPTION
      /\ r.fill = c.fill /\ r.spill = c.spill /\ r.dre = c.dre /\ r.limited = c.limited
  <2>1. /\ NoState \in [optop : Int, scBottom : Int] /\ NO_EXCEPTION \in Int
        /\ c.saved.optop \in Int /\ c.saved.scBottom \in Int
    BY <1>1 DEF NoState, NO_EXCEPTION
  <2>2. QED BY <1>1, <2>1 DEF Restored, Cpu
<1>3. /\ 2 <= c.fill /\ c.fill <= c.spill /\ c.spill + 2 <= SCACHE_SIZE /\ c.spill < Gap
      /\ SCACHE_SIZE \in Nat /\ Gap \in Nat /\ c.fill \in Nat /\ c.spill \in Nat
  BY <1>1, MarkBounds, CpuTyped, SizePositive, StackCacheAssumption
<1>4. /\ r.optop \in Low(s)..Base(s) /\ r.scBottom - r.optop \in r.fill..r.spill
      /\ ~r.limited /\ Marked(r) /\ r.dre
  BY <1>1, <1>2 DEF Undone, Marked
<1>5. r.scBottom - r.optop \in 0..SCACHE_SIZE /\ r.scBottom - r.optop < Gap
  BY <1>1, <1>2, <1>3, <1>4
<1>6. QED BY <1>2, <1>4, <1>5 DEF Ready, Loose

LEMMA RefusedEffect ==
    ASSUME NEW s \in Stacks, NEW c, Ready(c, s), NEW value, Refused(c, value),
           NEW r, NEW e, e = vUpdateOptop(c, value, r)
    PROVE  /\ Undone(c, e, s) /\ Unmoved(e) /\ e.saved.optop = c.optop
           /\ e.optop = c.optop
<1>1. /\ c \in Cpu /\ Marked(c) /\ c.dre /\ c.eid = NO_EXCEPTION
      /\ c.optop \in Low(s)..Base(s) /\ c.scBottom - c.optop \in c.fill..c.spill
      /\ c.optop \in Int /\ c.scBottom \in Int
  BY CpuTyped DEF Ready, Loose
<1> DEFINE kept == [optop |-> c.optop, scBottom |-> c.scBottom]
<1>2. e = [c EXCEPT !.eid = OPLIM_EXCEPTION, !.saved = kept, !.limited = FALSE]
  BY <1>1 DEF vUpdateOptop, vSetupException, Cpu
<1>3. /\ kept \in [optop : Int, scBottom : Int] /\ OPLIM_EXCEPTION \in Int
      /\ kept.optop = c.optop /\ kept.scBottom = c.scBottom
  BY <1>1 DEF OPLIM_EXCEPTION
<1> HIDE DEF kept
<1>4. /\ e \in Cpu /\ e.optop = c.optop /\ e.scBottom = c.scBottom
      /\ e.saved = kept
      /\ e.mem = c.mem /\ e.sCacheMem = c.sCacheMem /\ e.eid = OPLIM_EXCEPTION
      /\ e.fill = c.fill /\ e.spill = c.spill /\ e.dre = c.dre /\ ~e.limited
  BY <1>1, <1>2, <1>3 DEF Cpu
<1>5. \A a : Visible(Restored(e), a) = Visible(c, a)
  <2>1. /\ Restored(e).scBottom = c.scBottom /\ Restored(e).mem = c.mem
        /\ Restored(e).sCacheMem = c.sCacheMem
    BY <1>4, <1>3 DEF Restored, Cpu
  <2>2. QED BY <2>1 DEF Visible, Hits
<1>6. SameElsewhere(c, e, s) /\ e.eid # NO_EXCEPTION
  <2>1. OPLIM_EXCEPTION # NO_EXCEPTION
    BY DEF NO_EXCEPTION, OPLIM_EXCEPTION
  <2>2. e.eid # NO_EXCEPTION
    BY <2>1, <1>4
  <2>3. QED BY <2>2, <1>4 DEF SameElsewhere
<1>7. /\ e.saved.optop \in Low(s)..Base(s) /\ e.saved.scBottom - e.saved.optop \in e.fill..e.spill
      /\ Marked(e)
  BY <1>1, <1>4, <1>3 DEF Marked
<1>8. QED BY <1>1, <1>4, <1>5, <1>6, <1>7, <1>3 DEF Undone, Unmoved

(* Whatever else the instruction does before it is undone: OPTOP stays, or *)
(* an operand is popped and the word this reads is not a live one.         *)
LEMMA UndoneMove ==
    ASSUME Broken = {}, NEW s \in Stacks, NEW k, NEW c, Undone(k, c, s), Unmoved(c),
           NEW n \in 0..1, c.optop + n <= Base(s), NEW value, value = c.optop + n,
           NEW r, NEW e, e = vUpdateOptop(c, value, r)
    PROVE  Undone(k, e, s) /\ e.saved = c.saved
<1> DEFINE d == [c EXCEPT !.optop = value]
<1>1. /\ c \in Cpu /\ Marked(c) /\ c.dre /\ c.eid # NO_EXCEPTION /\ ~c.limited
      /\ c.optop \in Low(s)..Base(s) /\ c.scBottom - c.optop \in c.fill..c.spill
      /\ c.optop \in Int /\ c.scBottom \in Int /\ n \in Int
  BY CpuTyped DEF Undone, Unmoved
<1>2. /\ 2 <= c.fill /\ c.fill <= c.spill /\ c.spill + 2 <= SCACHE_SIZE /\ c.spill < Gap
      /\ SCACHE_SIZE \in Nat /\ Gap \in Nat /\ c.fill \in Nat /\ c.spill \in Nat
  BY <1>1, MarkBounds, CpuTyped, SizePositive, StackCacheAssumption
<1>3. Low(s) \in Nat /\ Base(s) \in Nat /\ Base(s) + SCACHE_SIZE <= MaxAddr /\ MaxAddr \in Int
  BY Geometry
<1>4. /\ d \in Cpu /\ SameRest(c, d) /\ d.optop = c.optop + n
      /\ d.scBottom = c.scBottom /\ d.mem = c.mem /\ d.sCacheMem = c.sCacheMem
  <2>1. c.optop + n \in Int
    BY <1>1
  <2>2. QED BY <1>1, <2>1 DEF Cpu, SameRest
<1>5. e = vUpdateSCache(d, c.optop, r)
  BY <1>1 DEF vUpdateOptop, Refused, Moved
<1> HIDE DEF d
<1>6. d.fill = c.fill /\ d.spill = c.spill
  BY <1>4 DEF SameRest
<1> DEFINE m == d.scBottom - d.optop
<1>7. m >= 0 /\ ~(m > SCACHE_SIZE \/ m < 0) /\ ~(m > d.spill) /\ m + 1 >= d.fill /\ m \in Int
  BY <1>1, <1>2, <1>4, <1>6
<1>8. /\ e \in Cpu /\ SameRest(d, e) /\ e.mem = d.mem
      /\ \A a \in Int : a > d.optop + d.fill - SCACHE_SIZE /\ a <= d.scBottom
                           => e.sCacheMem[Slot(a)] = d.sCacheMem[Slot(a)]
  <2>1. CASE m < d.fill
    <3>1. e = Fill(d, d.fill - m)
      BY <1>5, <1>7, <2>1 DEF vUpdateSCache
    <3>2. /\ d.fill - m \in Nat /\ d.scBottom >= -2
          /\ d.scBottom + (d.fill - m) = d.optop + d.fill
          /\ d.scBottom + (d.fill - m) <= MaxAddr
      BY <1>1, <1>2, <1>3, <1>4, <1>6, <1>7, <2>1
    <3> DEFINE j == d.fill - m
    <3>3. e = Fill(d, j) /\ j \in Nat /\ d.scBottom + j = d.optop + d.fill
          /\ d.scBottom + j <= MaxAddr
      BY <3>1, <3>2
    <3> HIDE DEF j, m
    <3>4. /\ e \in Cpu /\ SameRest(d, e) /\ e.mem = d.mem
          /\ \A a \in Int : a > d.scBottom + j - SCACHE_SIZE /\ a <= d.scBottom
                           => e.sCacheMem[Slot(a)] = d.sCacheMem[Slot(a)]
      BY <3>2, <3>3, <1>4, FillEffect
    <3>5. d.scBottom + j - SCACHE_SIZE = d.optop + d.fill - SCACHE_SIZE
      <4>1. j \in Int /\ d.scBottom \in Int /\ d.optop \in Int /\ d.fill \in Int
        BY <3>3, <1>1, <1>2, <1>4, <1>6
      <4>2. QED BY <4>1, <3>3, <1>2
    <3>6. QED BY <3>4, <3>5
  <2>2. CASE ~(m < d.fill)
    <3>1. e = d
      BY <1>5, <1>7, <2>2 DEF vUpdateSCache
    <3>2. QED BY <3>1, <1>4 DEF SameRest
  <2>3. QED BY <2>1, <2>2
<1>9. /\ e.saved = c.saved /\ e.fill = c.fill /\ e.spill = c.spill /\ e.dre = c.dre
      /\ e.eid = c.eid /\ e.limited = c.limited /\ e.mem = c.mem
  BY <1>4, <1>8 DEF SameRest
<1>10. ASSUME NEW a \in Addr, a > c.saved.optop
       PROVE  Visible(Restored(e), a) = Visible(k, a)
  <2>1. Visible(Restored(c), a) = Visible(k, a)
    BY <1>10 DEF Undone
  <2>2. /\ Restored(e).scBottom = c.saved.scBottom /\ Restored(c).scBottom = c.saved.scBottom
        /\ Restored(e).mem = c.mem /\ Restored(c).mem = c.mem
        /\ Restored(e).sCacheMem = e.sCacheMem /\ Restored(c).sCacheMem = c.sCacheMem
    BY <1>1, <1>8, <1>9 DEF Restored, Cpu
  <2>3. a <= c.saved.scBottom => e.sCacheMem[Slot(a)] = c.sCacheMem[Slot(a)]
    <3>1. a \in Int /\ c.saved.optop = c.optop /\ c.saved.scBottom = c.scBottom
      BY AddrIsInt DEF Unmoved
    <3>2. a > d.optop + d.fill - SCACHE_SIZE
      BY <3>1, <1>1, <1>2, <1>4, <1>6, <1>10
    <3>3. QED BY <3>1, <3>2, <1>4, <1>8
  <2>4. QED BY <2>1, <2>2, <2>3 DEF Visible, Hits
<1>11. SameElsewhere(k, e, s)
  BY <1>9 DEF SameElsewhere, Undone
<1>12. QED BY <1>1, <1>8, <1>9, <1>10, <1>11 DEF Undone, Marked

(* A new limit: at once, or as an exception that clears it again.          *)
LEMMA OplimEffect ==
    ASSUME NEW s \in Stacks, NEW c, Ready(c, s), NEW v \in Nat,
           NEW e, e = vUpdateOplim(c, v)
    PROVE  /\ e.optop = c.optop /\ e.scBottom = c.scBottom /\ e.mem = c.mem
           /\ \A a : Visible(e, a) = Visible(c, a)
           /\ v > c.optop => /\ Undone(c, e, s) /\ Unmoved(e)
                             /\ e.saved.optop = c.optop /\ ~Refused(e, c.optop + 1)
           /\ v <= c.optop => Ready(e, s)
<1>1. /\ c \in Cpu /\ Marked(c) /\ c.dre /\ c.eid = NO_EXCEPTION
      /\ c.optop \in Low(s)..Base(s) /\ c.scBottom - c.optop \in c.fill..c.spill
      /\ c.scBottom - c.optop \in 0..SCACHE_SIZE /\ c.scBottom - c.optop < Gap
      /\ c.optop \in Int /\ c.scBottom \in Int
  BY CpuTyped DEF Ready, Loose
<1> DEFINE kept == [optop |-> c.optop, scBottom |-> c.scBottom]
           d == [c EXCEPT !.oplim = v, !.limited = TRUE]
<1>2. /\ kept \in [optop : Int, scBottom : Int] /\ OPLIM_EXCEPTION \in Int
      /\ kept.optop = c.optop /\ kept.scBottom = c.scBottom
      /\ OPLIM_EXCEPTION # NO_EXCEPTION
  BY <1>1 DEF OPLIM_EXCEPTION, NO_EXCEPTION
<1>3. /\ d \in Cpu /\ d.optop = c.optop /\ d.scBottom = c.scBottom
      /\ d.mem = c.mem /\ d.sCacheMem = c.sCacheMem /\ d.eid = c.eid
      /\ d.fill = c.fill /\ d.spill = c.spill /\ d.dre = c.dre /\ d.oplim = v
  <2> DEFINE yes == TRUE
  <2>1. v \in Int /\ yes \in BOOLEAN /\ d = [c EXCEPT !.oplim = v, !.limited = yes]
    OBVIOUS
  <2> HIDE DEF d, yes
  <2>2. QED BY <1>1, <2>1 DEF Cpu
<1>4. CASE v > c.optop
  <2>1. e = [d EXCEPT !.eid = OPLIM_EXCEPTION, !.saved = kept, !.limited = FALSE]
    <3>1. d.eid = NO_EXCEPTION /\ e = [vSetupException(d, OPLIM_EXCEPTION) EXCEPT !.limited = FALSE]
      BY <1>1, <1>3, <1>4 DEF vUpdateOplim
    <3> HIDE DEF d
    <3>2. QED BY <3>1, <1>3 DEF vSetupException, Cpu
  <2> HIDE DEF kept, d
  <2>2. /\ e \in Cpu /\ e.optop = c.optop /\ e.scBottom = c.scBottom
        /\ e.saved = kept
        /\ e.mem = c.mem /\ e.sCacheMem = c.sCacheMem /\ e.eid = OPLIM_EXCEPTION
        /\ e.fill = c.fill /\ e.spill = c.spill /\ e.dre = c.dre /\ ~e.limited
    BY <1>3, <1>2, <2>1 DEF Cpu
  <2>3. \A a : Visible(Restored(e), a) = Visible(c, a) /\ Visible(e, a) = Visible(c, a)
    <3>1. /\ Restored(e).scBottom = c.scBottom /\ Restored(e).mem = c.mem
          /\ Restored(e).sCacheMem = c.sCacheMem
      BY <2>2, <1>2 DEF Restored, Cpu
    <3>2. QED BY <2>2, <3>1 DEF Visible, Hits
  <2>4. SameElsewhere(c, e, s) /\ e.eid # NO_EXCEPTION
    BY <1>2, <2>2 DEF SameElsewhere
  <2>5. /\ e.saved.optop \in Low(s)..Base(s) /\ e.saved.scBottom - e.saved.optop \in e.fill..e.spill
        /\ Marked(e)
    BY <1>1, <1>2, <2>2 DEF Marked
  <2>6. Undone(c, e, s) /\ Unmoved(e) /\ ~Refused(e, c.optop + 1)
    BY <1>1, <1>2, <2>2, <2>3, <2>4, <2>5 DEF Undone, Unmoved, Refused
  <2>7. QED BY <1>1, <1>2, <1>4, <2>2, <2>3, <2>6
<1>5. CASE v <= c.optop
  <2>1. e = d
    BY <1>1, <1>5 DEF vUpdateOplim
  <2> HIDE DEF d
  <2>2. Ready(e, s)
    BY <1>1, <1>3, <1>5, <2>1 DEF Ready, Loose, Marked
  <2>3. \A a : Visible(e, a) = Visible(c, a)
    BY <1>3, <2>1 DEF Visible, Hits
  <2>4. QED BY <1>1, <1>3, <1>5, <2>1, <2>2, <2>3
<1>6. QED BY <1>1, <1>4, <1>5

(* OPTOP goes to the other stack: what is live on the old one is written,  *)
(* and what is live on the new one is read.                                *)
LEMMA SwitchEffect ==
    ASSUME Broken = {}, NEW s \in Stacks, NEW c, Ready(c, s),
           NEW value \in Low(1 - s)..Base(1 - s), ~Refused(c, value),
           NEW r \in BOOLEAN, ~r, NEW e, e = vUpdateOptop(c, value, r)
    PROVE  /\ Ready(e, 1 - s) /\ e.optop = value /\ SameRest(c, e)
           /\ \A a \in value + 1..Base(1 - s) : Visible(e, a) = c.mem[a]
           /\ \A a \in c.optop + 1..Base(s) : e.mem[a] = Visible(c, a)
<1> DEFINE d == [c EXCEPT !.optop = value]
           g == Spill(d, d.scBottom - c.optop)
           h == [g EXCEPT !.scBottom = g.optop]
<1>1. /\ c \in Cpu /\ Marked(c) /\ c.dre /\ c.eid = NO_EXCEPTION
      /\ c.optop \in Low(s)..Base(s) /\ c.scBottom - c.optop \in c.fill..c.spill
      /\ c.scBottom - c.optop \in 0..SCACHE_SIZE /\ c.scBottom - c.optop < Gap
      /\ c.optop \in Int /\ c.scBottom \in Int /\ c.oplim \in Int
  BY CpuTyped DEF Ready, Loose
<1>2. /\ 2 <= c.fill /\ c.fill <= c.spill /\ c.spill + 2 <= SCACHE_SIZE /\ c.spill < Gap
      /\ SCACHE_SIZE < Gap + c.fill
      /\ SCACHE_SIZE \in Nat /\ Gap \in Nat /\ c.fill \in Nat /\ c.spill \in Nat
  BY <1>1, MarkBounds, CpuTyped, SizePositive, StackCacheAssumption
<1>3. /\ Low(s) \in Nat /\ Base(s) \in Nat /\ Low(1 - s) \in Nat /\ Base(1 - s) \in Nat
      /\ Base(1 - s) + SCACHE_SIZE <= MaxAddr /\ MaxAddr \in Int
      /\ Base(1 - s) + Gap = Low(s) \/ Low(1 - s) = Base(s) + Gap
      /\ 1 - s \in Stacks
      /\ \A a \in Int : a >= -1 /\ a <= Base(s) => a \in Addr
      /\ \A a \in Int : a >= -1 /\ a <= Base(1 - s) => a \in Addr
  BY Geometry
<1>4. /\ d \in Cpu /\ SameRest(c, d) /\ d.optop = value
      /\ d.scBottom = c.scBottom /\ d.mem = c.mem /\ d.sCacheMem = c.sCacheMem
      /\ d.fill = c.fill /\ d.spill = c.spill /\ d.eid = c.eid
  <2>1. value \in Int
    BY <1>3
  <2>2. QED BY <1>1, <2>1 DEF Cpu, SameRest
<1>5. /\ value \in Int /\ value >= Low(1 - s) /\ value <= Base(1 - s)
      /\ c.scBottom - value > SCACHE_SIZE \/ c.scBottom - value < 0
  BY <1>1, <1>2, <1>3
<1>6. e = Fill(h, d.fill)
  <2>1. e = vUpdateSCache(d, c.optop, r)
    BY <1>1 DEF vUpdateOptop, Moved
  <2> HIDE DEF d
  <2>2. e = Outside(d, c.optop, r)
    BY <1>4, <1>5, <2>1 DEF vUpdateSCache
  <2>3. QED BY <1>4, <2>2 DEF Outside
<1> HIDE DEF d
<1>7. /\ g \in Cpu /\ SameRest(d, g) /\ g.optop = d.optop
      /\ \A a \in Addr : g.mem[a] = IF a > c.optop /\ a <= c.scBottom
                                    THEN Visible(d, a) ELSE d.mem[a]
  <2> DEFINE n == d.scBottom - c.optop
  <2>1. n \in 0..SCACHE_SIZE /\ d.scBottom - n = c.optop /\ d.eid = NO_EXCEPTION
    BY <1>1, <1>4
  <2>2. g = Spill(d, n)
    OBVIOUS
  <2> HIDE DEF n, g
  <2>3. /\ g \in Cpu /\ SameRest(d, g) /\ g.optop = d.optop
        /\ \A a \in Addr : g.mem[a] = IF a > d.scBottom - n /\ a <= d.scBottom
                                      THEN Visible(d, a) ELSE d.mem[a]
    BY <2>1, <2>2, <1>4, SpillEffect
  <2>4. QED BY <2>1, <2>3, <1>4
<1> HIDE DEF g
<1>8. /\ h \in Cpu /\ SameRest(g, h) /\ h.optop = value /\ h.scBottom = value
      /\ h.mem = g.mem
  BY <1>4, <1>7 DEF Cpu, SameRest
<1> HIDE DEF h
<1>9. /\ e \in Cpu /\ SameRest(h, e) /\ e.optop = value /\ e.mem = h.mem
      /\ e.scBottom = value + c.fill
      /\ \A a \in Addr : a > value + c.fill - SCACHE_SIZE
                           => Visible(e, a) = Visible(h, a)
  <2>1. h.scBottom >= -2 /\ h.scBottom + c.fill <= MaxAddr /\ c.fill \in Nat
    BY <1>2, <1>3, <1>5, <1>8
  <2>2. e = Fill(h, c.fill)
    BY <1>4, <1>6
  <2>3. /\ e \in Cpu /\ SameRest(h, e) /\ e.optop = h.optop /\ e.mem = h.mem
        /\ e.scBottom = h.scBottom + c.fill
        /\ \A a \in Addr : a > h.scBottom + c.fill - SCACHE_SIZE
                           => Visible(e, a) = Visible(h, a)
    BY <2>1, <2>2, <1>8, FillEffect
  <2>4. QED BY <2>3, <1>8
<1>10. SameRest(c, e)
  BY <1>4, <1>7, <1>8, <1>9 DEF SameRest
<1>11. Ready(e, 1 - s)
  <2>1. /\ e.fill = c.fill /\ e.spill = c.spill /\ e.dre = c.dre /\ e.eid = c.eid
        /\ e.limited = c.limited /\ e.oplim = c.oplim
    BY <1>10 DEF SameRest
  <2>2. e.limited => e.optop >= e.oplim
    <3>1. c.limited => value >= c.oplim
      BY <1>1, <1>5 DEF Refused
    <3>2. QED BY <2>1, <3>1, <1>9
  <2>3. e.scBottom - e.optop \in e.fill..e.spill /\ e.scBottom - e.optop \in 0..SCACHE_SIZE
        /\ e.scBottom - e.optop < Gap
    <3>1. e.scBottom - e.optop = c.fill
      <4>1. e.scBottom = value + c.fill /\ e.optop = value
        BY <1>9
      <4>2. value \in Int /\ c.fill \in Int
        BY <1>2, <1>5
      <4>3. QED BY ONLY <4>1, <4>2
    <3>2. QED BY ONLY <2>1, <3>1, <1>2
  <2>4. QED BY <2>1, <2>2, <2>3, <1>1, <1>9 DEF Ready, Loose, Marked
<1>12. ASSUME NEW a \in value + 1..Base(1 - s) PROVE Visible(e, a) = c.mem[a]
  <2>1. a \in Int /\ a \in Addr /\ a > value /\ a <= Base(1 - s)
    BY <1>3, <1>5
  <2>2. a > value + c.fill - SCACHE_SIZE
    BY <2>1, <1>2, <1>5
  <2>3. Visible(e, a) = Visible(h, a) /\ ~Hits(h, a)
    <3>1. Visible(e, a) = Visible(h, a)
      BY <2>1, <2>2, <1>9
    <3>2. ~(a <= h.scBottom)
      BY <2>1, <1>5, <1>8
    <3>3. QED BY <3>1, <3>2 DEF Hits
  <2>4. ~(a > c.optop /\ a <= c.scBottom)
    BY <2>1, <1>1, <1>2, <1>3, <1>5
  <2>5. QED BY <2>1, <2>3, <2>4, <1>4, <1>7, <1>8 DEF Visible
<1>13. ASSUME NEW a \in c.optop + 1..Base(s) PROVE e.mem[a] = Visible(c, a)
  <2>1. a \in Int /\ a \in Addr /\ a > c.optop
    BY <1>1, <1>3
  <2>2. Visible(d, a) = Visible(c, a)
    BY <1>4 DEF Visible, Hits
  <2>3. a > c.scBottom => ~Hits(c, a)
    BY <1>1, <2>1 DEF Hits
  <2>4. g.mem[a] = Visible(c, a)
    <3>1. CASE a > c.scBottom
      BY <3>1, <2>1, <2>3, <1>1, <1>4, <1>7 DEF Visible
    <3>2. CASE ~(a > c.scBottom)
      BY <3>2, <2>1, <2>2, <1>1, <1>7
    <3>3. QED BY <3>1, <3>2
  <2>5. QED BY <2>4, <1>8, <1>9
<1>14. QED BY <1>9, <1>10, <1>11, <1>12, <1>13

-----------------------------------------------------------------------------
(***************************************************************************)
(* The inductive invariant.  Between two instructions no exception is      *)
(* pending, and the bottom of the stack cache is at most the spill mark    *)
(* and, when the dribbler is on, at least the fill mark below OPTOP.       *)
(***************************************************************************)
Inv ==
    /\ thread \in Stacks
    /\ parked \in Low(1 - thread)..Base(1 - thread)
    /\ Loose(cpu, thread) /\ cpu.scBottom - cpu.optop <= cpu.spill
    /\ cpu.dre => Ready(cpu, thread)

LEMMA ReadyInv ==
    ASSUME thread \in Stacks, parked \in Low(1 - thread)..Base(1 - thread),
           Ready(cpu, thread)
    PROVE  Inv
<1>1. Loose(cpu, thread) /\ cpu.scBottom - cpu.optop \in cpu.fill..cpu.spill
  BY DEF Ready
<1>2. cpu.fill \in Nat /\ cpu.spill \in Nat /\ cpu.scBottom \in Int /\ cpu.optop \in Int
  BY <1>1, LooseTyped
<1>3. cpu.scBottom - cpu.optop <= cpu.spill
  BY <1>1, <1>2
<1>4. QED BY <1>1, <1>3 DEF Inv

LEMMA ReadyInvNext ==
    ASSUME thread' \in Stacks, parked' \in Low(1 - thread')..Base(1 - thread'),
           Ready(cpu', thread')
    PROVE  Inv'
<1>1. Loose(cpu', thread') /\ cpu'.scBottom - cpu'.optop \in cpu'.fill..cpu'.spill
  BY DEF Ready
<1>2. /\ cpu'.fill \in Nat /\ cpu'.spill \in Nat
      /\ cpu'.scBottom \in Int /\ cpu'.optop \in Int
  BY <1>1, LooseTyped
<1>3. cpu'.scBottom - cpu'.optop <= cpu'.spill
  BY <1>1, <1>2
<1>4. QED BY <1>1, <1>3 DEF Inv, Ready, Loose, Marked, Low, Base

(* The end of an instruction that is undone.                               *)
LEMMA EndsTrap ==
    ASSUME Broken = {}, NEW s \in Stacks, NEW k, NEW c, NEW done,
           Undone(k, c, s), Ends(c, s, done)
    PROVE  /\ Ready(cpu', s) /\ cpu'.optop = c.saved.optop - TrapWords
           /\ SameElsewhere(k, cpu', s)
           /\ \E f \in [Addr -> Values] :
                 /\ op' = Trapped(done, [kind |-> "push",
                        words |-> Words(c.saved.optop - TrapWords + 1..c.saved.optop, f)])
                 /\ \A a \in Addr : a > c.saved.optop - TrapWords =>
                       Visible(cpu', a) = IF a <= c.saved.optop THEN f[a] ELSE Visible(k, a)
<1> DEFINE r == Restored(c)
<1>1. c.eid # NO_EXCEPTION
  BY DEF Undone
<1>2. PICK f \in Frames : /\ cpu' = invoke_trap(r, f) /\ cpu'.optop >= Low(s)
                          /\ op' = Trapped(done, Pushes(r, TrapWords, f))
  BY <1>1 DEF Ends
<1>3. /\ Ready(r, s) /\ r.optop = c.saved.optop /\ r.mem = c.mem
  BY RestoredEffect
<1> HIDE DEF r
<1>4. /\ Ready(cpu', s) /\ cpu'.optop = r.optop - TrapWords
      /\ \A a \in Addr : a > r.optop - TrapWords =>
            Visible(cpu', a) = IF a <= r.optop THEN f[a] ELSE Visible(r, a)
      /\ SameElsewhere(r, cpu', s)
  BY <1>2, <1>3, TrapEffect
<1>5. SameElsewhere(k, cpu', s)
  BY <1>3, <1>4 DEF SameElsewhere, Undone
<1>6. \A a \in Addr : a > c.saved.optop => Visible(r, a) = Visible(k, a)
  BY DEF Undone, r
<1>7. c.saved.optop \in Int
  BY Geometry DEF Undone
<1>8. \A a \in Addr : a > c.saved.optop - TrapWords =>
         Visible(cpu', a) = IF a <= c.saved.optop THEN f[a] ELSE Visible(k, a)
  BY <1>3, <1>4, <1>6, <1>7, AddrIsInt
<1>9. f \in [Addr -> Values]
  BY FrameTyped
<1>10. QED BY <1>2, <1>3, <1>4, <1>5, <1>8, <1>9 DEF Pushes

-----------------------------------------------------------------------------
(***************************************************************************)
(* The two stacks of OperandStacks.                                        *)
(***************************************************************************)
AllWords == UNION {Low(s) + 1..Base(s) : s \in Stacks}
topOf    == [s \in Stacks |-> IF s = thread THEN cpu.optop ELSE parked]
wordOf   == [a \in AllWords |-> Word(a)]

LEMMA StackGeometry ==
    /\ Stack!Stacks = Stacks /\ Stack!Words = AllWords
    /\ \A s \in Stacks : Stack!Base(s) = Base(s) /\ Stack!Low(s) = Low(s)
  BY DEF Stack!Stacks, Stack!Words, Stack!StackWords, Stack!Base, Stack!Low, Stacks, Base, Low,
         AllWords

LEMMA WordPlaces ==
    ASSUME NEW s \in Stacks, NEW a
    PROVE  /\ a \in AllWords <=> \/ a \in Low(s) + 1..Base(s)
                                 \/ a \in Low(1 - s) + 1..Base(1 - s)
           /\ ~(a \in Low(s) + 1..Base(s) /\ a \in Low(1 - s) + 1..Base(1 - s))
           /\ a \in AllWords => a \in Addr /\ a \in Int
           /\ a \in Low(1 - s) + 1..Base(1 - s) => a <= Low(s) - Gap \/ a > Base(s) + Gap
<1>1. Stacks = {s, 1 - s}
  BY DEF Stacks
<1>2. /\ Low(s) \in Nat /\ Base(s) \in Nat /\ Gap \in Nat
      /\ Low(1 - s) \in Nat /\ Base(1 - s) \in Nat
      /\ Base(1 - s) <= Low(s) - Gap \/ Low(1 - s) >= Base(s) + Gap
      /\ Base(s) = Low(s) + Depth /\ Depth \in Nat /\ Depth > 0
      /\ Base(1 - s) = Low(1 - s) + Depth
      /\ \A x \in Int : x >= -1 /\ x <= Base(s) => x \in Addr
      /\ \A x \in Int : x >= -1 /\ x <= Base(1 - s) => x \in Addr
  BY <1>1, Geometry
<1>3. AllWords = (Low(s) + 1..Base(s)) \cup (Low(1 - s) + 1..Base(1 - s))
  BY <1>1 DEF AllWords
<1>4. QED BY <1>2, <1>3

(* A step on the stack in use, seen from outside.                          *)
LEMMA BecomesEffect ==
    ASSUME Inv, Inv', thread' = thread, parked' = parked, NEW w,
           \A a \in cpu'.optop + 1..Base(thread) :
              Visible(cpu', a) = IF a \in DOMAIN w THEN w[a] ELSE Word(a),
           \A a \in Low(1 - thread) + 1..Base(1 - thread) :
              IF a \in DOMAIN w THEN a > parked /\ cpu'.mem[a] = w[a]
                                ELSE cpu'.mem[a] = cpu.mem[a]
    PROVE  Stack!Becomes(cpu'.optop, w)
<1> DEFINE t == cpu'.optop
           s == thread
<1>1. /\ s \in Stacks /\ 1 - s \in Stacks /\ s # 1 - s
      /\ t \in Low(s)..Base(s) /\ cpu.optop \in Low(s)..Base(s)
      /\ parked \in Low(1 - s)..Base(1 - s)
      /\ Low(s) \in Nat /\ Base(s) \in Nat /\ Low(1 - s) \in Nat /\ Base(1 - s) \in Nat
  BY Geometry DEF Inv, Loose
<1>2. topOf' = [topOf EXCEPT ![thread] = t]
  BY <1>1 DEF topOf
<1>3. ASSUME NEW a \in AllWords
      PROVE  Word(a)' = IF a \in Low(s) + 1..t THEN Dead
                        ELSE IF a \in DOMAIN w THEN w[a] ELSE Word(a)
  <2>1. /\ \/ a \in Low(s) + 1..Base(s) \/ a \in Low(1 - s) + 1..Base(1 - s)
        /\ ~(a \in Low(s) + 1..Base(s) /\ a \in Low(1 - s) + 1..Base(1 - s))
        /\ a \in Int
    BY <1>1, WordPlaces
  <2>2. Word(a)' = IF a \in t + 1..Base(s) THEN Visible(cpu', a)
                   ELSE IF a \in parked + 1..Base(1 - s) THEN cpu'.mem[a] ELSE Dead
    BY DEF Word, InUse
  <2>3. CASE a \in Low(s) + 1..t
    BY <2>1, <2>2, <2>3, <1>1
  <2>4. CASE a \in t + 1..Base(s)
    BY <2>1, <2>2, <2>4, <1>1
  <2>5. CASE a \in Low(1 - s) + 1..Base(1 - s)
    <3>1. a \notin cpu.optop + 1..Base(s) /\ a \notin t + 1..Base(s)
          /\ a \notin Low(s) + 1..t
      BY <2>1, <2>5, <1>1
    <3>2. Word(a) = IF a \in parked + 1..Base(1 - s) THEN cpu.mem[a] ELSE Dead
      BY <3>1 DEF Word, InUse
    <3>3. a \in DOMAIN w => a \in parked + 1..Base(1 - s)
      BY <2>5, <1>1
    <3>4. QED BY <2>2, <2>5, <3>1, <3>2, <3>3
  <2>6. QED BY <2>1, <2>3, <2>4, <2>5, <1>1
<1>4. wordOf' = Stack!WordsAfter(thread, t, w)
  <2>1. wordOf' = [a \in AllWords |-> Word(a)']
    BY DEF wordOf, AllWords, Low, Base
  <2>2. Stack!WordsAfter(thread, t, w) =
           [a \in AllWords |-> IF a \in Low(s) + 1..t THEN Dead
                               ELSE IF a \in DOMAIN w THEN w[a] ELSE wordOf[a]]
    BY <1>1, StackGeometry DEF Stack!WordsAfter, wordOf, AllWords
  <2>3. \A a \in AllWords : wordOf[a] = Word(a)
    BY DEF wordOf
  <2> HIDE DEF t, s
  <2>4. QED BY <2>1, <2>2, <2>3, <1>3
<1>5. QED BY <1>1, <1>2, <1>4, StackGeometry DEF Stack!Becomes, topOf, wordOf, AllWords

(* An instruction on the stack in use that is undone has pushed a frame.   *)
LEMMA StaysTrap ==
    ASSUME Broken = {}, Inv, NEW c, NEW done, done.kind # "switch",
           Undone(cpu, c, thread), c.saved.optop = cpu.optop, Stays(c, done)
    PROVE  Inv' /\ Stack!Push(TrapWords)
<1> DEFINE o == cpu.optop
           t == o - TrapWords
<1>1. /\ thread \in Stacks /\ thread' = thread /\ parked' = parked
      /\ Ends(c, thread, done)
      /\ parked \in Low(1 - thread)..Base(1 - thread)
      /\ o \in Low(thread)..Base(thread)
  BY DEF Inv, Stays, Loose
<1>2. PICK f \in [Addr -> Values] :
         /\ op' = Trapped(done, [kind |-> "push", words |-> Words(t + 1..o, f)])
         /\ \A a \in Addr : a > t =>
               Visible(cpu', a) = IF a <= o THEN f[a] ELSE Visible(cpu, a)
         /\ Ready(cpu', thread) /\ cpu'.optop = t
         /\ SameElsewhere(cpu, cpu', thread)
  BY <1>1, EndsTrap
<1>3. Inv'
  <2>1. thread' \in Stacks /\ parked' \in Low(1 - thread')..Base(1 - thread')
    BY <1>1
  <2>2. Ready(cpu', thread')
    BY <1>1, <1>2
  <2>3. QED BY <2>1, <2>2, ReadyInvNext
<1>w. PICK w : w = Words(t + 1..o, f)
  OBVIOUS
<1>4. /\ o \in Int /\ TrapWords \in Nat /\ TrapWords >= 2 /\ t \in Int
      /\ t \in Low(thread)..Base(thread)
      /\ Low(thread) \in Nat /\ Base(thread) \in Nat
  <2>1. cpu'.optop \in Low(thread)..Base(thread)
    BY <1>2 DEF Ready, Loose
  <2>2. QED BY <2>1, <1>1, <1>2, Geometry, StackCacheAssumption
<1>5. op'.kind = "push" /\ op'.words = w
  BY <1>w, <1>2 DEF Trapped
<1>6. DOMAIN w = t + 1..o /\ \A a \in t + 1..o : w[a] = f[a]
  BY <1>w DEF Words
<1>7. w \in [t + 1..o -> Contents]
  <2>1. \A a \in t + 1..o : a \in Int /\ a >= -1 /\ a <= Base(thread)
    BY <1>1, <1>4
  <2>2. \A a \in t + 1..o : a \in Addr
    BY <2>1, <1>1, Geometry
  <2>3. QED BY <1>w, <2>2 DEF Words, Contents
<1>8. \A a \in cpu'.optop + 1..Base(thread) :
         Visible(cpu', a) = IF a \in DOMAIN w THEN w[a] ELSE Word(a)
  <2>1. SUFFICES ASSUME NEW a \in t + 1..Base(thread)
                 PROVE  Visible(cpu', a) = IF a \in DOMAIN w THEN w[a] ELSE Word(a)
    BY <1>2
  <2>2. a \in Int /\ a \in Addr /\ a > t
    BY <1>1, <1>4, Geometry
  <2>3. ~(a <= o) => Word(a) = Visible(cpu, a)
    BY <1>1, <1>4, <2>2 DEF Word, InUse
  <2>4. a \in DOMAIN w <=> a <= o
    BY <1>4, <1>6, <2>2
  <2>5. QED BY <1>2, <1>6, <2>2, <2>3, <2>4
<1>9. \A a \in Low(1 - thread) + 1..Base(1 - thread) :
         a \notin DOMAIN w /\ cpu'.mem[a] = cpu.mem[a]
  <2>1. SUFFICES ASSUME NEW a \in Low(1 - thread) + 1..Base(1 - thread)
                 PROVE  a \notin DOMAIN w /\ cpu'.mem[a] = cpu.mem[a]
    OBVIOUS
  <2>2. /\ a \in Addr /\ a \in Int /\ a \notin Low(thread) + 1..Base(thread)
        /\ a <= Low(thread) - Gap \/ a > Base(thread) + Gap
    BY <1>1, WordPlaces
  <2>3. QED BY <1>1, <1>2, <1>4, <1>6, <2>2 DEF SameElsewhere
<1>10. Stack!Becomes(t, w)
  <2>1. Stack!Becomes(cpu'.optop, w)
    BY <1>1, <1>3, <1>8, <1>9, BecomesEffect
  <2>2. QED BY <2>1, <1>2
<1>11. topOf[thread] = o
  BY <1>1 DEF topOf
<1>12. /\ Stack!Becomes(topOf[thread] - TrapWords, op'.words)
       /\ op'.words \in [topOf[thread] - TrapWords + 1..topOf[thread] -> Contents]
  <2>1. Stack!Becomes(topOf[thread] - TrapWords, op'.words)
    <3>1. topOf[thread] - TrapWords = t
      BY <1>11
    <3> HIDE DEF t
    <3>2. QED BY <1>5, <1>10, <3>1 DEF Stack!Becomes
  <2>2. op'.words \in [t + 1..topOf[thread] -> Contents]
    BY <1>5, <1>7, <1>11
  <2>3. QED BY <2>1, <2>2, <1>11
<1>13. QED BY <1>3, <1>5, <1>12 DEF Stack!Push, Stack!Writes, topOf

(* An instruction on the stack in use that is carried out; w is what it    *)
(* leaves.                                                                 *)
LEMMA StaysDone ==
    ASSUME Broken = {}, Inv, NEW c, NEW done, NEW w,
           Ready(c, thread), Stays(c, done), SameElsewhere(cpu, c, thread),
           \A a \in DOMAIN w : a \in Low(thread) + 1..Base(thread),
           \A a \in c.optop + 1..Base(thread) :
              Visible(c, a) = IF a \in DOMAIN w THEN w[a] ELSE Word(a)
    PROVE  /\ Inv' /\ op' = done
           /\ topOf[thread] = cpu.optop /\ Stack!Becomes(c.optop, w)
<1>1. /\ thread \in Stacks /\ thread' = thread /\ parked' = parked
      /\ Ends(c, thread, done)
      /\ parked \in Low(1 - thread)..Base(1 - thread)
  BY DEF Inv, Stays
<1>2. c.eid = NO_EXCEPTION
  BY DEF Ready, Loose
<1>3. cpu' = c /\ op' = done
  BY <1>1, <1>2 DEF Ends
<1>4. Inv'
  BY <1>1, <1>3, ReadyInvNext
<1>5. \A a \in Low(1 - thread) + 1..Base(1 - thread) :
         a \notin DOMAIN w /\ cpu'.mem[a] = cpu.mem[a]
  <2>1. SUFFICES ASSUME NEW a \in Low(1 - thread) + 1..Base(1 - thread)
                 PROVE  a \notin DOMAIN w /\ cpu'.mem[a] = cpu.mem[a]
    OBVIOUS
  <2>2. /\ a \in Addr /\ a \in Int /\ a \notin Low(thread) + 1..Base(thread)
        /\ a <= Low(thread) - Gap \/ a > Base(thread) + Gap
    BY <1>1, WordPlaces
  <2>3. QED BY <1>3, <2>2 DEF SameElsewhere
<1>6. \A a \in cpu'.optop + 1..Base(thread) :
         Visible(cpu', a) = IF a \in DOMAIN w THEN w[a] ELSE Word(a)
  BY <1>3
<1>7. Stack!Becomes(c.optop, w)
  BY <1>1, <1>3, <1>4, <1>5, <1>6, BecomesEffect
<1>8. topOf[thread] = cpu.optop
  BY <1>1 DEF topOf
<1>9. QED BY <1>3, <1>4, <1>7, <1>8

LEMMA SameReady ==
    ASSUME NEW s, NEW c, Ready(c, s), NEW e \in Cpu, SameRest(c, e),
           e.optop = c.optop, e.scBottom = c.scBottom
    PROVE  Ready(e, s)
  BY DEF Ready, Loose, SameRest, Marked

LEMMA UndoneFrom ==
    ASSUME NEW s, NEW k, NEW d, NEW c, Undone(d, c, s), SameElsewhere(k, d, s),
           \A a \in Addr : a > c.saved.optop => Visible(d, a) = Visible(k, a)
    PROVE  Undone(k, c, s)
<1>1. SameElsewhere(k, c, s)
  BY DEF Undone, SameElsewhere
<1>2. \A a \in Addr : a > c.saved.optop => Visible(Restored(c), a) = Visible(k, a)
  BY DEF Undone
<1>3. QED BY <1>1, <1>2 DEF Undone

LEMMA SameElsewhereTwice ==
    ASSUME NEW s, NEW c, NEW d, NEW e, SameElsewhere(c, d, s), SameElsewhere(d, e, s)
    PROVE  SameElsewhere(c, e, s)
  BY DEF SameElsewhere

(* What Inv says when the dribbler is on.                                  *)
LEMMA InvFacts ==
    ASSUME Inv, cpu.dre
    PROVE  /\ thread \in Stacks /\ Ready(cpu, thread) /\ Loose(cpu, thread)
           /\ cpu \in Cpu /\ Marked(cpu)
           /\ cpu.eid = NO_EXCEPTION /\ cpu.optop \in Int /\ cpu.scBottom \in Int
           /\ cpu.optop >= Low(thread) /\ cpu.optop <= Base(thread)
           /\ cpu.scBottom - cpu.optop >= 2
           /\ cpu.scBottom - cpu.optop + 2 <= SCACHE_SIZE
           /\ cpu.oplim \in Int
           /\ cpu.limited => cpu.optop >= cpu.oplim
           /\ Low(thread) \in Nat /\ Base(thread) \in Nat /\ Gap \in Nat /\ Gap > 2
           /\ SCACHE_SIZE \in Nat
           /\ parked \in Low(1 - thread)..Base(1 - thread)
           /\ Low(1 - thread) \in Nat /\ Base(1 - thread) \in Nat
           /\ \A a \in Int : a >= -1 /\ a <= Base(thread) => a \in Addr
<1>1. thread \in Stacks /\ Ready(cpu, thread) /\ Loose(cpu, thread)
      /\ parked \in Low(1 - thread)..Base(1 - thread)
  BY DEF Inv
<1>2. /\ cpu.eid = NO_EXCEPTION /\ cpu.optop \in Low(thread)..Base(thread)
      /\ cpu.limited => cpu.optop >= cpu.oplim
      /\ Marked(cpu) /\ cpu.scBottom - cpu.optop \in cpu.fill..cpu.spill
  BY <1>1 DEF Ready, Loose
<1>3. /\ cpu \in Cpu /\ cpu.optop \in Int /\ cpu.scBottom \in Int /\ cpu.oplim \in Int
      /\ cpu.fill \in Nat /\ cpu.spill \in Nat
      /\ 2 <= cpu.fill /\ cpu.fill <= cpu.spill /\ cpu.spill + 2 <= SCACHE_SIZE
      /\ cpu.spill < Gap /\ SCACHE_SIZE \in Nat
  BY <1>1, LooseTyped
<1>4. /\ 1 - thread \in Stacks /\ Low(thread) \in Nat /\ Base(thread) \in Nat /\ Gap \in Nat
      /\ \A a \in Int : a >= -1 /\ a <= Base(thread) => a \in Addr
  BY <1>1, Geometry
<1>5. Low(1 - thread) \in Nat /\ Base(1 - thread) \in Nat
  BY <1>4, Geometry
<1>6. QED BY <1>1, <1>2, <1>3, <1>4, <1>5

(* The end of most instructions: n words are pushed or popped, after w was *)
(* written.                                                                *)
LEMMA SizeEffect ==
    ASSUME Broken = {}, Inv, cpu.dre,
           NEW n \in -2..2, cpu.optop - n <= Base(thread),
           NEW c \in Cpu, SameRest(cpu, c), c.optop = cpu.optop, c.scBottom = cpu.scBottom,
           NEW w, \A a \in DOMAIN w : a \in Int /\ a > cpu.optop - n /\ a <= Base(thread),
           \A a \in cpu.optop - n + 1..cpu.optop : a \in DOMAIN w,
           n > 0 => \A a \in DOMAIN w : a <= cpu.optop,
           \A a \in Addr : Visible(c, a) = IF a \in DOMAIN w THEN w[a] ELSE Visible(cpu, a),
           \A a \in Addr : a \notin DOMAIN w => c.mem[a] = cpu.mem[a],
           NEW done, done.kind # "switch", SizeAndStackReturn(c, n, done)
    PROVE  /\ Inv'
           /\ \/ /\ op' = done /\ topOf[thread] = cpu.optop
                 /\ Stack!Becomes(cpu.optop - n, w)
              \/ Stack!Push(TrapWords)
<1> DEFINE s == thread
           o == cpu.optop
           value == c.optop - n
           q == FALSE
           e == vUpdateOptop(c, value, q)
<1>1. Broken = {} /\ c \in Cpu
  OBVIOUS
<1>2. /\ s \in Stacks /\ Ready(cpu, s) /\ cpu.eid = NO_EXCEPTION
      /\ o \in Int /\ cpu.scBottom \in Int /\ o >= Low(s) /\ o <= Base(s)
      /\ cpu.scBottom - o >= 2 /\ cpu.scBottom - o + 2 <= SCACHE_SIZE
      /\ cpu.oplim \in Int
      /\ cpu.limited => o >= cpu.oplim
      /\ Low(s) \in Nat /\ Base(s) \in Nat /\ Gap \in Nat /\ Gap > 2
      /\ SCACHE_SIZE \in Nat
      /\ \A a \in Int : a >= -1 /\ a <= Base(s) => a \in Addr
  BY InvFacts
<1>3. Stays(e, done)
  BY DEF SizeAndStackReturn
<1> HIDE DEF e
<1>4. q \in BOOLEAN /\ ~q
  OBVIOUS
<1> HIDE DEF q
<1>5. value \in Int /\ n \in Int /\ value = o - n /\ c.optop = o /\ n \in -2..2
  BY <1>2
<1> HIDE DEF value
<1>6. Ready(c, s)
  BY <1>2, SameReady
<1>7. SameElsewhere(cpu, c, s)
  <2>1. SUFFICES ASSUME NEW a \in Addr, a <= Low(s) - Gap \/ a > Base(s) + Gap
                 PROVE  a \notin DOMAIN w
    BY DEF SameElsewhere
  <2>2. a \in Int
    BY AddrIsInt
  <2>3. QED BY <1>2, <2>1, <2>2
<1>8. CASE Refused(c, value)
  <2>1. Undone(c, e, s) /\ e.saved.optop = c.optop
    <3>1. e = vUpdateOptop(c, value, q)
      BY DEF e
    <3>2. QED BY <1>2, <1>6, <1>8, <3>1, RefusedEffect
  <2>2. n > 0
    <3>1. cpu.limited /\ cpu.oplim > value
      BY <1>8 DEF Refused, SameRest
    <3>2. QED BY ONLY <3>1, <1>2, <1>5
  <2>3. ASSUME NEW a \in Addr, a > e.saved.optop PROVE Visible(c, a) = Visible(cpu, a)
    <3>1. a \notin DOMAIN w
      BY <1>2, <1>5, <2>1, <2>2, <2>3, AddrIsInt
    <3>2. QED BY <3>1
  <2>4. Undone(cpu, e, s)
    BY <2>1, <2>3, <1>7, UndoneFrom
  <2>5. Inv' /\ Stack!Push(TrapWords)
    BY <2>1, <2>4, <1>3, StaysTrap
  <2>6. QED BY <2>5
<1>9. CASE ~Refused(c, value)
  <2>1. e.optop = value /\ e.eid = NO_EXCEPTION
    <3>1. e = vUpdateOptop(c, value, q) /\ c.eid = NO_EXCEPTION
      BY <1>2 DEF SameRest, e
    <3>2. QED BY <1>1, <1>9, <3>1, MoveWhole
  <2>2. value \in Low(s)..Base(s)
    <3>1. value >= Low(s)
      BY <1>3, <2>1 DEF Stays, Ends
    <3>2. QED BY <1>2, <1>5, <3>1
  <2>3. /\ Ready(e, s)
        /\ \A a \in Addr : a > value /\ (a > c.optop \/ value >= c.scBottom - SCACHE_SIZE)
                             => Visible(e, a) = Visible(c, a)
        /\ SameElsewhere(c, e, s)
    <3>1. e = vUpdateOptop(c, value, q) /\ c.dre /\ Loose(c, s)
      BY <1>6 DEF Ready, e
    <3>2. s \in Stacks /\ value \in Low(s)..Base(s) /\ ~Refused(c, value)
      BY <1>2, <1>9, <2>2
    <3> HIDE DEF s
    <3>3. QED BY <1>1, <1>4, <3>1, <3>2, MoveEffect
  <2>4. SameElsewhere(cpu, e, s)
    BY <1>7, <2>3, SameElsewhereTwice
  <2>5. \A a \in DOMAIN w : a \in Low(s) + 1..Base(s)
    BY <1>2, <1>5, <2>2
  <2>6. ASSUME NEW a \in e.optop + 1..Base(s)
        PROVE  Visible(e, a) = IF a \in DOMAIN w THEN w[a] ELSE Word(a)
    <3>1. a \in Int /\ a > value /\ a <= Base(s) /\ a >= -1
      BY <1>2, <1>5, <2>1, <2>2
    <3>2. a \in Addr
      BY <1>2, <3>1
    <3>3. Visible(e, a) = Visible(c, a)
      <4>1. value >= c.scBottom - SCACHE_SIZE
        BY <1>2, <1>5
      <4>2. QED BY <2>3, <3>1, <3>2, <4>1
    <3>4. a \notin DOMAIN w => Word(a) = Visible(cpu, a)
      BY <1>2, <1>5, <3>1 DEF Word, InUse
    <3>5. QED BY <3>2, <3>3, <3>4
  <2>7. /\ Inv' /\ op' = done /\ topOf[s] = o /\ Stack!Becomes(e.optop, w)
    BY <1>3, <2>3, <2>4, <2>5, <2>6, StaysDone
  <2>8. Stack!Becomes(cpu.optop - n, w)
    BY <1>5, <2>1, <2>7 DEF Stack!Becomes
  <2>9. QED BY <2>7, <2>8
<1>10. QED BY <1>8, <1>9

LEMMA TrapNext == ASSUME Stack!Push(TrapWords) PROVE Stack!Next
  BY DEF Stack!Next

LEMMA OperandsAtLeast2 == Operands \in Nat /\ Operands >= 2
  BY StackCacheAssumption

-----------------------------------------------------------------------------
(***************************************************************************)
(* One lemma for each instruction.                                         *)
(***************************************************************************)
LEMMA PushSteps ==
    ASSUME Broken = {}, Inv, cpu.dre, NEW n \in 1..2, push(n)
    PROVE  Inv' /\ Stack!Next
<1> DEFINE o == cpu.optop
           W == o - n + 1..o
<1>1. PICK f \in Frames :
         SizeAndStackReturn(WriteAll(cpu, W, f), n, Pushes(cpu, n, f))
  BY DEF push
<1>2. PICK c : c = WriteAll(cpu, W, f)
  OBVIOUS
<1>3. PICK done : done = Pushes(cpu, n, f)
  OBVIOUS
<1>4. PICK w : w = Words(W, f)
  OBVIOUS
<1>5. SizeAndStackReturn(c, n, done)
  BY <1>1, <1>2, <1>3
<1>6. /\ DOMAIN w = W /\ \A a \in W : w[a] = f[a]
      /\ done.kind = "push" /\ done.words = w
  BY <1>3, <1>4 DEF Words, Pushes
<1>7. /\ cpu \in Cpu /\ cpu.eid = NO_EXCEPTION /\ o \in Int
      /\ o >= Low(thread) /\ o <= Base(thread)
      /\ Low(thread) \in Nat /\ Base(thread) \in Nat
      /\ \A a \in Int : a >= -1 /\ a <= Base(thread) => a \in Addr
  BY InvFacts
<1>8. W \in SUBSET Addr
  <2>1. \A a \in W : a \in Int /\ a >= -1 /\ a <= Base(thread)
    BY <1>7
  <2>2. QED BY <2>1, <1>7
<1>9. /\ c \in Cpu /\ SameRest(cpu, c)
      /\ c.optop = cpu.optop /\ c.scBottom = cpu.scBottom
      /\ \A a \in Addr : Visible(c, a) = IF a \in W THEN f[a] ELSE Visible(cpu, a)
      /\ \A a \in Addr \ W : c.mem[a] = cpu.mem[a]
  <2>1. f \in [Addr -> Values]
    BY FrameTyped
  <2> HIDE DEF W
  <2>2. QED BY <2>1, <1>2, <1>7, <1>8, WriteAllEffect
<1>10. /\ n \in -2..2 /\ cpu.optop - n <= Base(thread)
       /\ \A a \in DOMAIN w : a \in Int /\ a > cpu.optop - n /\ a <= Base(thread)
       /\ \A a \in cpu.optop - n + 1..cpu.optop : a \in DOMAIN w
       /\ \A a \in DOMAIN w : a <= cpu.optop
  BY <1>6, <1>7
<1>11. /\ Inv'
       /\ \/ /\ op' = done /\ topOf[thread] = o
             /\ Stack!Becomes(o - n, w)
          \/ Stack!Push(TrapWords)
  <2>1. \A a \in Addr : Visible(c, a) = IF a \in DOMAIN w THEN w[a] ELSE Visible(cpu, a)
    BY <1>6, <1>9
  <2>2. \A a \in Addr : a \notin DOMAIN w => c.mem[a] = cpu.mem[a]
    BY <1>6, <1>9
  <2>3. done.kind # "switch"
    BY <1>6
  <2>4. QED BY <2>1, <2>2, <2>3, <1>5, <1>9, <1>10, SizeEffect
<1>12. ASSUME op' = done, topOf[thread] = o, Stack!Becomes(o - n, w)
       PROVE  Stack!Push(n)
  <2>1. op'.kind = "push" /\ op'.words = w
    BY <1>6, <1>12
  <2>2. w \in [W -> Contents]
    BY <1>4, <1>8, FrameTyped DEF Words, Contents
  <2>3. /\ Stack!Becomes(topOf[thread] - n, op'.words)
        /\ op'.words \in [topOf[thread] - n + 1..topOf[thread] -> Contents]
    BY <1>12, <2>1, <2>2 DEF Stack!Becomes
  <2>4. QED BY <2>1, <2>3 DEF Stack!Push, Stack!Writes, topOf
<1>13. n \in 1..Operands
  BY OperandsAtLeast2
<1>14. QED BY <1>11, <1>12, <1>13, TrapNext DEF Stack!Next

LEMMA PopSteps ==
    ASSUME Broken = {}, Inv, cpu.dre, NEW n \in 1..2, pop(n)
    PROVE  Inv' /\ Stack!Next
<1> DEFINE o == cpu.optop
<1>1. PICK done : done = Pops(n)
  OBVIOUS
<1>2. PICK w : w = <<>>
  OBVIOUS
<1>3. PICK m : m = -n
  OBVIOUS
<1>4. o + n <= Base(thread) /\ SizeAndStackReturn(cpu, m, done)
  BY <1>1, <1>3 DEF pop
<1>5. DOMAIN w = {}
  BY <1>2
<1>6. done = [kind |-> "pop", n |-> n]
  BY <1>1 DEF Pops
<1>7. /\ cpu \in Cpu /\ o \in Int
      /\ Low(thread) \in Nat /\ Base(thread) \in Nat
  BY InvFacts
<1>8. /\ m \in -2..2 /\ o - m = o + n /\ ~(m > 0) /\ o - m + 1..o = {}
  BY <1>3, <1>7
<1>9. SameRest(cpu, cpu)
  BY DEF SameRest
<1>10. /\ Inv'
       /\ \/ /\ op' = done /\ topOf[thread] = o
             /\ Stack!Becomes(o - m, w)
          \/ Stack!Push(TrapWords)
  <2>1. /\ \A a \in Addr : Visible(cpu, a) = IF a \in DOMAIN w THEN w[a] ELSE Visible(cpu, a)
        /\ \A a \in Addr : a \notin DOMAIN w => cpu.mem[a] = cpu.mem[a]
        /\ \A a \in DOMAIN w : a \in Int /\ a > cpu.optop - m /\ a <= Base(thread)
        /\ \A a \in cpu.optop - m + 1..cpu.optop : a \in DOMAIN w
        /\ m > 0 => \A a \in DOMAIN w : a <= cpu.optop
        /\ cpu.optop - m <= Base(thread)
    BY <1>4, <1>5, <1>8
  <2>2. done.kind # "switch"
    BY <1>6
  <2>3. QED BY <2>1, <2>2, <1>4, <1>7, <1>8, <1>9, SizeEffect
<1>11. ASSUME op' = done, topOf[thread] = o, Stack!Becomes(o - m, w)
       PROVE  Stack!Pop(n)
  <2>1. Stack!Becomes(topOf[thread] + n, <<>>)
    BY <1>2, <1>8, <1>11 DEF Stack!Becomes
  <2>2. QED BY <1>6, <1>11, <2>1 DEF Stack!Pop, topOf
<1>12. n \in 1..Operands
  BY OperandsAtLeast2
<1>13. QED BY <1>10, <1>11, <1>12, TrapNext DEF Stack!Next

LEMMA OneWord ==
    ASSUME Inv, cpu.dre, NEW a \in Addr, NEW v \in Values,
           NEW c, c = StackWrite(cpu, a, v), NEW w, w = [b \in {a} |-> v]
    PROVE  /\ c \in Cpu /\ SameRest(cpu, c)
           /\ c.optop = cpu.optop /\ c.scBottom = cpu.scBottom
           /\ DOMAIN w = {a} /\ w[a] = v /\ w \in [{a} -> Contents]
           /\ \A x \in Addr : Visible(c, x) = IF x \in DOMAIN w THEN w[x] ELSE Visible(cpu, x)
           /\ \A x \in Addr : x \notin DOMAIN w => c.mem[x] = cpu.mem[x]
<1>1. cpu \in Cpu /\ cpu.eid = NO_EXCEPTION
  BY InvFacts
<1>2. DOMAIN w = {a} /\ w[a] = v /\ w \in [{a} -> Contents]
  BY DEF Contents
<1>3. /\ c \in Cpu /\ SameRest(cpu, c)
      /\ c.optop = cpu.optop /\ c.scBottom = cpu.scBottom
      /\ Visible(c, a) = v
      /\ \A x \in Addr \ {a} : Visible(c, x) = Visible(cpu, x) /\ c.mem[x] = cpu.mem[x]
  BY <1>1, StackWriteEffect
<1>4. \A x \in Addr : Visible(c, x) = IF x \in DOMAIN w THEN w[x] ELSE Visible(cpu, x)
  BY <1>2, <1>3
<1>5. \A x \in Addr : x \notin DOMAIN w => c.mem[x] = cpu.mem[x]
  BY <1>2, <1>3
<1>6. QED BY <1>2, <1>3, <1>4, <1>5

(* A word in use is one of the words of the two stacks.                    *)
LEMMA InUseWord ==
    ASSUME Inv, cpu.dre, NEW a \in InUse
    PROVE  /\ a \in Int /\ a \in Addr /\ a > cpu.optop /\ a <= Base(thread)
           /\ a \in Stack!Words /\ a \in Stack!Live(thread)
           /\ wordOf[a] = Visible(cpu, a) /\ Visible(cpu, a) \in Values
<1>1. /\ thread \in Stacks /\ cpu \in Cpu /\ cpu.optop \in Int
      /\ cpu.optop >= Low(thread) /\ cpu.optop <= Base(thread)
      /\ Low(thread) \in Nat /\ Base(thread) \in Nat
      /\ \A x \in Int : x >= -1 /\ x <= Base(thread) => x \in Addr
  BY InvFacts
<1>2. a \in Int /\ a > cpu.optop /\ a <= Base(thread) /\ a >= -1
      /\ a \in Low(thread) + 1..Base(thread)
  BY <1>1 DEF InUse
<1>3. a \in Addr /\ a \in AllWords
  BY <1>1, <1>2, WordPlaces
<1>4. wordOf[a] = Visible(cpu, a)
  BY <1>3 DEF wordOf, Word
<1>5. a \in Stack!Live(thread)
  BY <1>1, <1>2, StackGeometry DEF Stack!Live
<1>6. QED BY <1>1, <1>2, <1>3, <1>4, <1>5, StackGeometry, VisibleTyped

LEMMA IincSteps ==
    ASSUME Broken = {}, Inv, cpu.dre, NEW a \in InUse, iinc(a)
    PROVE  Inv' /\ Stack!Next
<1> DEFINE o == cpu.optop
<1>1. StackRead(cpu, a) = cpu
  BY DEF StackRead
<1>2. PICK v \in Data(a) :
         SizeAndStackReturn(StackWrite(cpu, a, v), 0, Wrote("modify", a, v))
  BY <1>1 DEF iinc
<1>3. PICK c : c = StackWrite(cpu, a, v)
  OBVIOUS
<1>4. PICK done : done = Wrote("modify", a, v)
  OBVIOUS
<1>5. PICK w : w = [b \in {a} |-> v]
  OBVIOUS
<1>6. SizeAndStackReturn(c, 0, done)
  BY <1>2, <1>3, <1>4
<1>7. done.kind = "modify" /\ done.words = w /\ done.kind # "switch"
  BY <1>4, <1>5 DEF Wrote
<1>8. v \in Values
  BY StackCacheAssumption DEF Data
<1>9. /\ a \in Int /\ a \in Addr /\ a > o /\ a <= Base(thread)
      /\ a \in Stack!Words /\ a \in Stack!Live(thread)
  BY InUseWord
<1>10. /\ c \in Cpu /\ SameRest(cpu, c)
       /\ c.optop = cpu.optop /\ c.scBottom = cpu.scBottom
       /\ DOMAIN w = {a} /\ w \in [{a} -> Contents]
       /\ \A x \in Addr : Visible(c, x) = IF x \in DOMAIN w THEN w[x] ELSE Visible(cpu, x)
       /\ \A x \in Addr : x \notin DOMAIN w => c.mem[x] = cpu.mem[x]
  BY <1>3, <1>5, <1>8, <1>9, OneWord
<1>11. o \in Int /\ Base(thread) \in Nat /\ o <= Base(thread)
  BY InvFacts
<1>12. /\ Inv'
       /\ \/ /\ op' = done /\ topOf[thread] = o
             /\ Stack!Becomes(o - 0, w)
          \/ Stack!Push(TrapWords)
  <2>1. /\ \A x \in DOMAIN w : x \in Int /\ x > cpu.optop - 0 /\ x <= Base(thread)
        /\ \A x \in cpu.optop - 0 + 1..cpu.optop : x \in DOMAIN w
        /\ cpu.optop - 0 <= Base(thread) /\ 0 \in -2..2
    BY <1>9, <1>10, <1>11
  <2>2. 0 > 0 => \A x \in DOMAIN w : x <= cpu.optop
    OBVIOUS
  <2>3. QED BY <2>1, <2>2, <1>6, <1>7, <1>10, SizeEffect
<1>13. ASSUME op' = done, topOf[thread] = o, Stack!Becomes(o - 0, w)
       PROVE  Stack!Modify(a)
  <2>1. Stack!Becomes(topOf[thread], op'.words) /\ op'.kind = "modify"
        /\ op'.words \in [{a} -> Contents]
    <3>1. o - 0 = o
      BY <1>11
    <3>2. QED BY <1>7, <1>10, <1>13, <3>1 DEF Stack!Becomes
  <2>2. QED BY <2>1, <1>9 DEF Stack!Modify, Stack!Writes, topOf
<1>14. QED BY <1>9, <1>12, <1>13, TrapNext DEF Stack!Next

LEMMA IloadSteps ==
    ASSUME Broken = {}, Inv, cpu.dre, NEW a \in InUse, iload(a)
    PROVE  Inv' /\ Stack!Next
<1> DEFINE o == cpu.optop
<1>1. PICK v : v = Visible(cpu, a)
  OBVIOUS
<1>2. PICK c : c = StackWrite(cpu, o, v)
  OBVIOUS
<1>3. PICK done : done = [kind |-> "load", addr |-> a]
  OBVIOUS
<1>4. PICK w : w = [b \in {o} |-> v]
  OBVIOUS
<1>5. SizeAndStackReturn(c, 1, done)
  BY <1>1, <1>2, <1>3 DEF iload, StackRead
<1>6. done.kind # "switch"
  BY <1>3
<1>7. /\ a \in Stack!Words /\ a \in Stack!Live(thread)
      /\ wordOf[a] = v /\ v \in Values
  BY <1>1, InUseWord
<1>8. /\ thread \in Stacks /\ o \in Int /\ o >= Low(thread) /\ o <= Base(thread)
      /\ Low(thread) \in Nat /\ Base(thread) \in Nat /\ o \in Addr
  <2>1. /\ thread \in Stacks /\ o \in Int /\ o >= Low(thread) /\ o <= Base(thread)
        /\ Low(thread) \in Nat /\ Base(thread) \in Nat
        /\ \A x \in Int : x >= -1 /\ x <= Base(thread) => x \in Addr
    BY InvFacts
  <2>2. QED BY <2>1
<1>9. /\ c \in Cpu /\ SameRest(cpu, c)
      /\ c.optop = cpu.optop /\ c.scBottom = cpu.scBottom
      /\ DOMAIN w = {o}
      /\ \A x \in Addr : Visible(c, x) = IF x \in DOMAIN w THEN w[x] ELSE Visible(cpu, x)
      /\ \A x \in Addr : x \notin DOMAIN w => c.mem[x] = cpu.mem[x]
  BY <1>2, <1>4, <1>7, <1>8, OneWord
<1>10. /\ Inv'
       /\ \/ /\ op' = done /\ topOf[thread] = o
             /\ Stack!Becomes(o - 1, w)
          \/ Stack!Push(TrapWords)
  <2>1. /\ \A x \in DOMAIN w : x \in Int /\ x > cpu.optop - 1 /\ x <= Base(thread)
        /\ \A x \in cpu.optop - 1 + 1..cpu.optop : x \in DOMAIN w
        /\ cpu.optop - 1 <= Base(thread) /\ 1 \in -2..2
    BY <1>8, <1>9
  <2>2. \A x \in DOMAIN w : x <= cpu.optop
    BY <1>8, <1>9
  <2>3. QED BY <2>1, <2>2, <1>5, <1>6, <1>9, SizeEffect
<1>11. ASSUME op' = done, topOf[thread] = o, Stack!Becomes(o - 1, w)
       PROVE  Stack!Load(a)
  <2>1. Stack!Becomes(topOf[thread] - 1, [b \in {topOf[thread]} |-> wordOf[a]])
    BY <1>4, <1>7, <1>11 DEF Stack!Becomes
  <2>2. QED BY <2>1, <1>3, <1>7, <1>11 DEF Stack!Load, topOf, wordOf, AllWords
<1>12. QED BY <1>7, <1>10, <1>11, TrapNext DEF Stack!Next

LEMMA IstoreSteps ==
    ASSUME Broken = {}, Inv, cpu.dre, NEW a \in InUse, istore(a)
    PROVE  Inv' /\ Stack!Next
<1> DEFINE o == cpu.optop
<1>1. PICK v : v = Visible(cpu, o + 1)
  OBVIOUS
<1>2. PICK c : c = StackWrite(cpu, a, v)
  OBVIOUS
<1>3. PICK done : done = [kind |-> "store", addr |-> a]
  OBVIOUS
<1>4. PICK w : w = [b \in {a} |-> v]
  OBVIOUS
<1>5. SizeAndStackReturn(c, -1, done) /\ a # o + 1
  BY <1>1, <1>2, <1>3 DEF istore
<1>6. done.kind # "switch"
  BY <1>3
<1>7. /\ a \in Int /\ a \in Addr /\ a > o /\ a <= Base(thread)
      /\ a \in Stack!Words /\ a \in Stack!Live(thread)
  BY InUseWord
<1>8. /\ thread \in Stacks /\ o \in Int /\ o >= Low(thread) /\ o <= Base(thread)
      /\ Low(thread) \in Nat /\ Base(thread) \in Nat
  BY InvFacts
<1>9. wordOf[o + 1] = v /\ v \in Values
  <2>1. o + 1 \in InUse
    BY <1>7, <1>8 DEF InUse
  <2>2. QED BY <1>1, <2>1, InUseWord
<1>10. /\ c \in Cpu /\ SameRest(cpu, c)
       /\ c.optop = cpu.optop /\ c.scBottom = cpu.scBottom
       /\ DOMAIN w = {a}
       /\ \A x \in Addr : Visible(c, x) = IF x \in DOMAIN w THEN w[x] ELSE Visible(cpu, x)
       /\ \A x \in Addr : x \notin DOMAIN w => c.mem[x] = cpu.mem[x]
  BY <1>2, <1>4, <1>7, <1>9, OneWord
<1>11. PICK m : m = -1
  OBVIOUS
<1>12. /\ Inv'
       /\ \/ /\ op' = done /\ topOf[thread] = o
             /\ Stack!Becomes(o - m, w)
          \/ Stack!Push(TrapWords)
  <2>1. /\ \A x \in DOMAIN w : x \in Int /\ x > cpu.optop - m /\ x <= Base(thread)
        /\ \A x \in cpu.optop - m + 1..cpu.optop : x \in DOMAIN w
        /\ cpu.optop - m <= Base(thread) /\ m \in -2..2
    BY <1>5, <1>7, <1>8, <1>10, <1>11
  <2>2. m > 0 => \A x \in DOMAIN w : x <= cpu.optop
    BY <1>11
  <2>3. SizeAndStackReturn(c, m, done)
    BY <1>5, <1>11
  <2>4. QED BY <2>1, <2>2, <2>3, <1>6, <1>10, SizeEffect
<1>13. ASSUME op' = done, topOf[thread] = o, Stack!Becomes(o - m, w)
       PROVE  Stack!Store(a)
  <2>1. Stack!Becomes(topOf[thread] + 1, [b \in {a} |-> wordOf[topOf[thread] + 1]])
    <3>1. o - m = o + 1
      BY <1>8, <1>11
    <3>2. QED BY <1>4, <1>9, <1>13, <3>1 DEF Stack!Becomes
  <2>2. a \in Stack!Live(thread) \ {topOf[thread] + 1}
    BY <1>5, <1>7, <1>13
  <2>3. QED BY <2>1, <2>2, <1>3, <1>13 DEF Stack!Store, topOf, wordOf, AllWords
<1>14. QED BY <1>7, <1>12, <1>13, TrapNext DEF Stack!Next

LEMMA GuardOfStays ==
    ASSUME NEW c, NEW done, Stays(c, done), c.eid = NO_EXCEPTION
    PROVE  c.optop >= Low(thread)
  BY DEF Stays, Ends

LEMMA DupSteps ==
    ASSUME Broken = {}, Inv, cpu.dre, dup_x1
    PROVE  Inv' /\ Stack!Next
<1> DEFINE s == thread
           o == cpu.optop
<1> DEFINE q == FALSE
           v == o - 1
           c == vUpdateOptop(cpu, v, q)
           f == [a \in Addr |-> CASE a = c.optop + 1 -> Visible(c, c.optop + 2)
                                  [] a = c.optop + 2 -> Visible(c, c.optop + 3)
                                  [] a = c.optop + 3 -> Visible(c, c.optop + 2)
                                  [] OTHER -> 0]
           W == c.optop + 1..c.optop + 3
           d == WriteAll(c, W, f)
           value == d.optop - 0
           e == vUpdateOptop(d, value, q)
           done == [kind |-> "dup_x1"]
<1>1. o + 2 <= Base(s) /\ Stays(e, done) /\ done.kind # "switch"
  BY DEF dup_x1, SizeAndStackReturn
<1>2. c = vUpdateOptop(cpu, v, q) /\ v = o - 1 /\ q \in BOOLEAN /\ ~q
  OBVIOUS
<1>3. f = [a \in Addr |-> CASE a = c.optop + 1 -> Visible(c, c.optop + 2)
                             [] a = c.optop + 2 -> Visible(c, c.optop + 3)
                             [] a = c.optop + 3 -> Visible(c, c.optop + 2)
                             [] OTHER -> 0]
  OBVIOUS
<1>4. done = [kind |-> "dup_x1"]
  OBVIOUS
<1>5. W = c.optop + 1..c.optop + 3 /\ d = WriteAll(c, W, f)
  OBVIOUS
<1>6. value = d.optop - 0 /\ e = vUpdateOptop(d, value, q)
  OBVIOUS
<1> HIDE DEF q, v, c, f, W, d, value, e, done
<1>7. /\ s \in Stacks /\ Ready(cpu, s) /\ Loose(cpu, s) /\ cpu \in Cpu /\ Marked(cpu)
      /\ cpu.eid = NO_EXCEPTION /\ o \in Int /\ cpu.scBottom \in Int
      /\ o >= Low(s) /\ o <= Base(s)
      /\ cpu.scBottom - o >= 2 /\ cpu.scBottom - o + 2 <= SCACHE_SIZE
      /\ Low(s) \in Nat /\ Base(s) \in Nat /\ SCACHE_SIZE \in Nat
      /\ \A a \in Int : a >= -1 /\ a <= Base(s) => a \in Addr
  BY InvFacts
<1>8. CASE Refused(cpu, v)
  <2>1. Undone(cpu, c, s) /\ Unmoved(c) /\ c.saved.optop = o /\ c.optop = o
    BY <1>2, <1>7, <1>8, RefusedEffect
  <2>2. d = c
    BY <1>5, <2>1 DEF WriteAll, Undone
  <2>3. value = c.optop + 0 /\ c.optop + 0 <= Base(s) /\ 0 \in 0..1
    BY <1>6, <1>7, <2>1, <2>2
  <2>4. Undone(cpu, e, s) /\ e.saved = c.saved
    <3>1. e = vUpdateOptop(c, value, q)
      BY <1>6, <2>2
    <3>2. QED BY <1>7, <2>1, <2>3, <3>1, UndoneMove
  <2>5. Inv' /\ Stack!Push(TrapWords)
    BY <1>1, <2>1, <2>4, StaysTrap
  <2>6. QED BY <2>5, TrapNext
<1>9. CASE ~Refused(cpu, v)
  <2>1. c.optop = o - 1 /\ c.eid = NO_EXCEPTION
    <3>1. c.optop = v /\ c.eid = cpu.eid
      BY <1>2, <1>7, <1>9, MoveWhole
    <3>2. QED BY <3>1, <1>2, <1>7
  <2>2. MovedWell(cpu, v, c)
    <3>1. c = Moved(cpu, v, q) /\ cpu.dre
      BY <1>2, <1>9 DEF vUpdateOptop
    <3>2. v \in Int /\ v >= -1 /\ v + cpu.spill <= MaxAddr
      <4>1. cpu.spill \in Nat /\ cpu.spill + 2 <= SCACHE_SIZE
        BY <1>7, LooseTyped
      <4>2. Base(s) + SCACHE_SIZE <= MaxAddr /\ MaxAddr \in Int
        BY <1>7, Geometry
      <4>3. QED BY <4>1, <4>2, <1>2, <1>7
    <3>3. cpu.scBottom - cpu.optop \in 0..SCACHE_SIZE
      BY <1>7 DEF Loose
    <3>4. QED BY <1>2, <1>7, <3>1, <3>2, <3>3, MovedEffect
  <2>3. c \in Cpu /\ SameRest(cpu, c)
    BY <2>2 DEF MovedWell
  <2>4. W \in SUBSET Addr /\ W = o..o + 2
    <3>1. W = o..o + 2
      BY <1>5, <1>7, <2>1
    <3>2. \A a \in W : a \in Int /\ a >= -1 /\ a <= Base(s)
      BY <1>1, <1>7, <3>1
    <3>3. QED BY <1>7, <3>1, <3>2
  <2>5. /\ o + 1 \in Addr /\ o + 2 \in Addr /\ o \in Addr
        /\ f = [a \in Addr |-> CASE a = o -> Visible(c, o + 1)
                                 [] a = o + 1 -> Visible(c, o + 2)
                                 [] a = o + 2 -> Visible(c, o + 1)
                                 [] OTHER -> 0]
    <3>1. o + 1 \in Addr /\ o + 2 \in Addr /\ o \in Addr
      BY <1>7, <2>4
    <3>2. c.optop + 1 = o /\ c.optop + 2 = o + 1 /\ c.optop + 3 = o + 2
      BY <1>7, <2>1
    <3>3. QED BY <1>3, <3>1, <3>2
  <2>6. f \in [Addr -> Values]
    BY <2>3, <2>5, VisibleTyped, StackCacheAssumption
  <2>7. /\ d \in Cpu /\ SameRest(c, d) /\ d.optop = c.optop /\ d.scBottom = c.scBottom
        /\ \A a \in Addr : Visible(d, a) = IF a \in W THEN f[a] ELSE Visible(c, a)
        /\ \A a \in Addr \ W : d.mem[a] = c.mem[a]
    <3>1. d = WriteAll(c, W, f) /\ W \in SUBSET Addr /\ c \in Cpu /\ c.eid = NO_EXCEPTION
      BY <1>5, <2>1, <2>3, <2>4
    <3>2. QED BY <3>1, <2>6, WriteAllEffect
  <2>8. ~Refused(d, value) /\ value = o - 1
    <3>1. value = o - 1
      BY <1>6, <1>7, <2>1, <2>7
    <3>2. d.limited = cpu.limited /\ d.oplim = cpu.oplim
      BY <2>3, <2>7 DEF SameRest
    <3>3. QED BY <1>2, <1>9, <3>1, <3>2 DEF Refused
  <2>9. e.optop = value /\ e.eid = NO_EXCEPTION
    <3>1. e.optop = value /\ e.eid = d.eid
      BY <1>6, <2>7, <2>8, MoveWhole
    <3>2. QED BY <3>1, <2>1, <2>7 DEF SameRest
  <2>10. value \in Low(s)..Base(s)
    <3>1. value >= Low(s)
      BY <1>1, <2>9, GuardOfStays
    <3>2. QED BY <3>1, <2>8, <1>7
  <2>11. /\ Ready(c, s) /\ SameElsewhere(cpu, c, s)
         /\ \A a \in Addr : a > value => Visible(c, a) = Visible(cpu, a)
    <3>1. c = vUpdateOptop(cpu, value, q) /\ cpu.dre
      BY <1>2, <2>8
    <3>2. ~Refused(cpu, value)
      BY <1>2, <1>9, <2>8
    <3>3. /\ Ready(c, s) /\ SameElsewhere(cpu, c, s)
          /\ \A a \in Addr : a > value /\ (a > cpu.optop \/ value >= cpu.scBottom - SCACHE_SIZE)
                               => Visible(c, a) = Visible(cpu, a)
      BY <1>2, <1>7, <2>10, <3>1, <3>2, MoveEffect
    <3>4. value >= cpu.scBottom - SCACHE_SIZE
      BY <1>7, <2>8
    <3>5. QED BY <3>3, <3>4
  <2>12. Ready(d, s) /\ d.dre /\ Loose(d, s)
    <3>1. Ready(d, s)
      BY <2>7, <2>11, SameReady
    <3>2. QED BY <3>1 DEF Ready
  <2>13. /\ Ready(e, s) /\ SameElsewhere(d, e, s)
         /\ \A a \in Addr : a > value => Visible(e, a) = Visible(d, a)
    <3>1. e = vUpdateOptop(d, value, q)
      BY <1>6
    <3>2. /\ Ready(e, s) /\ SameElsewhere(d, e, s)
          /\ \A a \in Addr : a > value /\ (a > d.optop \/ value >= d.scBottom - SCACHE_SIZE)
                               => Visible(e, a) = Visible(d, a)
      BY <1>2, <1>7, <2>8, <2>10, <2>12, <3>1, MoveEffect
    <3>3. d.optop = value
      BY <2>1, <2>7, <2>8
    <3>4. QED BY <3>2, <3>3
  <2>14. SameElsewhere(cpu, e, s)
    <3>1. SameElsewhere(c, d, s)
      <4>1. SUFFICES ASSUME NEW a \in Addr, a <= Low(s) - Gap \/ a > Base(s) + Gap
                     PROVE  a \notin W
        BY <2>7 DEF SameElsewhere
      <4>2. Gap \in Nat /\ Gap > 2
        BY InvFacts
      <4>3. QED BY <4>1, <4>2, <1>1, <1>7, <2>4, <2>8, <2>10, AddrIsInt
    <3>2. QED BY <3>1, <2>11, <2>13, SameElsewhereTwice
  <2>15. PICK w : w = [b \in o..o + 2 |-> IF b = o + 1 THEN wordOf[o + 2] ELSE wordOf[o + 1]]
    OBVIOUS
  <2>16. /\ wordOf[o + 1] = Visible(cpu, o + 1) /\ wordOf[o + 2] = Visible(cpu, o + 2)
    <3>1. o + 1 \in InUse /\ o + 2 \in InUse
      BY <1>1, <1>7 DEF InUse
    <3>2. QED BY <3>1, InUseWord
  <2>17. DOMAIN w = W /\ \A a \in W : w[a] = f[a]
    <3>1. Visible(c, o + 1) = wordOf[o + 1] /\ Visible(c, o + 2) = wordOf[o + 2]
      BY <1>7, <2>5, <2>8, <2>11, <2>16
    <3>2. /\ f[o] = wordOf[o + 1] /\ f[o + 1] = wordOf[o + 2] /\ f[o + 2] = wordOf[o + 1]
          /\ o + 1 # o /\ o + 2 # o /\ o + 2 # o + 1
      <4>1. o + 1 # o /\ o + 2 # o /\ o + 2 # o + 1
        BY <1>7
      <4>2. QED BY <2>5, <3>1, <4>1
    <3>3. \A a \in W : f[a] = IF a = o + 1 THEN wordOf[o + 2] ELSE wordOf[o + 1]
      <4>1. \A a \in W : a = o \/ a = o + 1 \/ a = o + 2
        BY <1>7, <2>4
      <4>2. QED BY <3>2, <4>1
    <3>4. QED BY <2>4, <2>15, <3>3
  <2>18. ASSUME NEW a \in e.optop + 1..Base(s)
         PROVE  Visible(e, a) = IF a \in DOMAIN w THEN w[a] ELSE Word(a)
    <3>1. a \in Int /\ a > value /\ a <= Base(s) /\ a >= -1 /\ a >= o
      BY <1>7, <2>8, <2>9, <2>10
    <3>2. a \in Addr
      BY <1>7, <3>1
    <3>3. Visible(e, a) = IF a \in W THEN f[a] ELSE Visible(cpu, a)
      BY <2>7, <2>11, <2>13, <3>1, <3>2
    <3>4. a \notin W => Word(a) = Visible(cpu, a)
      BY <1>7, <2>4, <3>1 DEF Word, InUse
    <3>5. QED BY <2>17, <3>3, <3>4
  <2>19. \A a \in DOMAIN w : a \in Low(s) + 1..Base(s)
    BY <1>1, <1>7, <2>4, <2>8, <2>10, <2>17
  <2>20. Inv' /\ op' = done /\ topOf[s] = o /\ Stack!Becomes(e.optop, w)
    BY <1>1, <2>13, <2>14, <2>18, <2>19, StaysDone
  <2>21. Stack!DupX1
    <3>1. Stack!Becomes(topOf[s] - 1, [b \in topOf[s]..topOf[s] + 2 |->
                IF b = topOf[s] + 1 THEN wordOf[topOf[s] + 2] ELSE wordOf[topOf[s] + 1]])
      BY <2>8, <2>9, <2>15, <2>20 DEF Stack!Becomes
    <3>2. QED BY <3>1, <1>4, <2>20 DEF Stack!DupX1, topOf, wordOf, AllWords
  <2>22. QED BY <2>20, <2>21 DEF Stack!Next
<1>10. QED BY <1>8, <1>9

(* A return leaves the k words of its result below a.                      *)
LEMMA ReturnEffect ==
    ASSUME Broken = {}, Inv, cpu.dre, NEW k \in 0..2, NEW a \in Int,
           a - k > cpu.optop, a >= cpu.optop + k, a <= Base(thread),
           NEW e, Ready(e, thread), e.optop = a - k, SameElsewhere(cpu, e, thread),
           \A x \in Addr : x > a - k => Visible(e, x) =
              IF x <= a THEN Visible(cpu, cpu.optop + k - (a - x)) ELSE Visible(cpu, x),
           Stays(e, Returns(k, a))
    PROVE  Inv' /\ Stack!Next
<1> DEFINE s == thread
           o == cpu.optop
           t == a - k
<1>1. /\ s \in Stacks /\ o \in Int /\ o >= Low(s) /\ o <= Base(s)
      /\ Low(s) \in Nat /\ Base(s) \in Nat
      /\ \A x \in Int : x >= -1 /\ x <= Base(s) => x \in Addr
  BY InvFacts
<1>2. t \in Int /\ t > o /\ t + k = a /\ k \in Int /\ t <= Base(s) /\ k >= 0
  BY <1>1
<1>3. PICK w : w = [b \in t + 1..t + k |-> wordOf[b - t + o]]
  OBVIOUS
<1>4. PICK done : done = Returns(k, a)
  OBVIOUS
<1>5. Stays(e, done) /\ done = [kind |-> "return", k |-> k, top |-> t]
  BY <1>4 DEF Returns
<1> HIDE DEF t
<1>6. ASSUME NEW x \in t + 1..t + k
      PROVE  w[x] = Visible(cpu, o + k - (a - x))
  <2>1. x \in Int /\ x - t + o = o + k - (a - x) /\ x - t + o > o /\ x - t + o <= Base(s)
    BY <1>1, <1>2
  <2>2. x - t + o \in InUse
    BY <2>1, <1>1, <1>2 DEF InUse
  <2>3. w[x] = wordOf[x - t + o]
    BY <1>3
  <2>4. PICK y : y = x - t + o
    OBVIOUS
  <2>5. wordOf[y] = Visible(cpu, y)
    BY <2>2, <2>4, InUseWord
  <2>6. QED BY <2>1, <2>3, <2>4, <2>5
<1>7. DOMAIN w = t + 1..t + k /\ \A x \in DOMAIN w : x \in Low(s) + 1..Base(s)
  <2>1. DOMAIN w = t + 1..t + k
    BY <1>3
  <2>2. ASSUME NEW x \in t + 1..t + k PROVE x \in Low(s) + 1..Base(s)
    <3>1. x \in Int /\ x > t /\ x <= t + k
      BY <1>2
    <3>2. x > Low(s) /\ x <= Base(s)
      BY <3>1, <1>1, <1>2
    <3>3. QED BY <3>1, <3>2, <1>1
  <2>3. QED BY <2>1, <2>2
<1>8. ASSUME NEW x \in e.optop + 1..Base(s)
      PROVE  Visible(e, x) = IF x \in DOMAIN w THEN w[x] ELSE Word(x)
  <2>1. e.optop = t
    BY DEF t
  <2>2. x \in Int /\ x > t /\ x <= Base(s) /\ x >= -1
    BY <1>1, <1>2, <2>1
  <2>3. x \in Addr
    BY <1>1, <2>2
  <2>4. Visible(e, x) = IF x <= a THEN Visible(cpu, o + k - (a - x)) ELSE Visible(cpu, x)
    BY <2>2, <2>3 DEF t
  <2>5. x \in DOMAIN w <=> x <= a
    BY <1>2, <1>7, <2>2
  <2>6. Word(x) = Visible(cpu, x)
    BY <1>1, <1>2, <2>2 DEF Word, InUse
  <2>7. QED BY <1>6, <1>7, <2>4, <2>5, <2>6
<1>9. Inv' /\ op' = done /\ topOf[s] = o /\ Stack!Becomes(e.optop, w)
  BY <1>5, <1>7, <1>8, StaysDone
<1>10. Stack!Return(k, t)
  <2>1. Stack!Becomes(t, [b \in t + 1..t + k |-> wordOf[b - t + topOf[s]]])
    <3>1. e.optop = t
      BY DEF t
    <3>2. QED BY <1>3, <1>9, <3>1 DEF Stack!Becomes
  <2>2. t > topOf[s]
    BY <1>2, <1>9
  <2>3. QED BY <2>1, <2>2, <1>5, <1>9 DEF Stack!Return, topOf, wordOf, AllWords
<1>11. t \in Stack!Words
  <2>1. t \in Low(s) + 1..Base(s)
    BY <1>1, <1>2
  <2>2. QED BY <1>1, <2>1, WordPlaces, StackGeometry
<1>12. QED BY <1>9, <1>10, <1>11 DEF Stack!Next

LEMMA ResultTyped ==
    ASSUME Broken = {}, Inv, cpu.dre, NEW k \in 0..2, NEW a \in VarsOf(k),
           NEW res, res = [b \in Addr |-> IF b \in a - k + 1..a
                           THEN Visible(cpu, cpu.optop + k - (a - b)) ELSE 0]
    PROVE  /\ a \in Int /\ a - k > cpu.optop /\ a >= cpu.optop + k /\ a <= Base(thread)
           /\ a - k \in Low(thread)..Base(thread)
           /\ a - k + 1..a \in SUBSET Addr /\ res \in [Addr -> Values]
           /\ \A b \in Addr : b \in a - k + 1..a => res[b] = Visible(cpu, cpu.optop + k - (a - b))
           /\ ~Refused(cpu, a - k)
           /\ \A b \in a - k + 1..a : b > Low(thread) - Gap /\ b <= Base(thread) + Gap
<1> DEFINE s == thread
           o == cpu.optop
           W == a - k + 1..a
<1>1. /\ s \in Stacks /\ cpu \in Cpu /\ o \in Int /\ o >= Low(s) /\ o <= Base(s)
      /\ Low(s) \in Nat /\ Base(s) \in Nat /\ Gap \in Nat
      /\ cpu.oplim \in Int
      /\ cpu.limited => o >= cpu.oplim
      /\ \A x \in Int : x >= -1 /\ x <= Base(s) => x \in Addr
  BY InvFacts
<1>2. FrameWords \in Nat /\ FrameWords >= 1
  BY StackCacheAssumption
<1>3. /\ a \in Int /\ k \in Int /\ a - k > o /\ a >= o + k /\ a <= Base(s)
      /\ a - k \in Low(s)..Base(s) /\ k >= 0
  BY <1>1, <1>2 DEF VarsOf
<1>4. \A b \in W : b \in Int /\ b >= -1 /\ b <= Base(s) /\ b > Low(s)
  BY <1>1, <1>3
<1>5. W \in SUBSET Addr
  BY <1>1, <1>4
<1>6. ASSUME NEW b \in W PROVE Visible(cpu, o + k - (a - b)) \in Values
  <2>1. b \in Int /\ o + k - (a - b) \in Int /\ o + k - (a - b) >= -1
        /\ o + k - (a - b) <= Base(s)
    BY <1>1, <1>3
  <2>2. PICK y : y = o + k - (a - b)
    OBVIOUS
  <2>3. y \in Addr
    BY <1>1, <2>1, <2>2
  <2>4. QED BY <1>1, <2>2, <2>3, VisibleTyped
<1>7. res \in [Addr -> Values]
  <2> HIDE DEF W
  <2>1. res = [b \in Addr |-> IF b \in W THEN Visible(cpu, o + k - (a - b)) ELSE 0]
    BY DEF W
  <2>2. 0 \in Values
    BY StackCacheAssumption
  <2>3. QED BY <1>6, <2>1, <2>2
<1>8. ~Refused(cpu, a - k)
  BY <1>1, <1>3 DEF Refused
<1>9. \A b \in W : b > Low(s) - Gap /\ b <= Base(s) + Gap
  BY <1>1, <1>4
<1>10. QED BY <1>3, <1>5, <1>7, <1>8, <1>9

LEMMA XreturnSteps ==
    ASSUME Broken = {}, Inv, cpu.dre, NEW k \in 0..2, NEW a, NEW f, xreturn(k, a, f)
    PROVE  Inv' /\ Stack!Next
<1> DEFINE s == thread
           W == a - k + 1..a
           res == [b \in Addr |-> IF b \in a - k + 1..a
                   THEN Visible(cpu, cpu.optop + k - (a - b)) ELSE 0]
           c == WriteAll(cpu, W, res)
           q == TRUE
           value == a - k
           e == vUpdateOptop(c, value, q)
<1>1. FrameRead(f) = cpu
  BY DEF FrameRead, StackRead
<1>2. a \in VarsOf(k) /\ Stays(e, Returns(k, a))
  BY <1>1 DEF xreturn
<1>3. /\ a \in Int /\ value > cpu.optop /\ a >= cpu.optop + k /\ a <= Base(s)
      /\ value \in Low(s)..Base(s)
      /\ W \in SUBSET Addr /\ res \in [Addr -> Values]
      /\ \A b \in Addr : b \in W => res[b] = Visible(cpu, cpu.optop + k - (a - b))
      /\ ~Refused(cpu, value)
      /\ \A b \in W : b > Low(s) - Gap /\ b <= Base(s) + Gap
  <2> PICK r : r = res
    OBVIOUS
  <2>1. r = [b \in Addr |-> IF b \in a - k + 1..a
                   THEN Visible(cpu, cpu.optop + k - (a - b)) ELSE 0]
    OBVIOUS
  <2> HIDE DEF res
  <2>2. QED BY <1>2, <2>1, ResultTyped
<1>4. c = WriteAll(cpu, W, res) /\ e = vUpdateOptop(c, value, q) /\ q \in BOOLEAN
  OBVIOUS
<1>5. a - k = value /\ W = value + 1..a
  OBVIOUS
<1> HIDE DEF W, res, c, q, value, e
<1>6. /\ s \in Stacks /\ cpu \in Cpu /\ cpu.eid = NO_EXCEPTION /\ Ready(cpu, s)
      /\ cpu.optop \in Int
  BY InvFacts
<1>7. /\ c \in Cpu /\ SameRest(cpu, c) /\ c.optop = cpu.optop /\ c.scBottom = cpu.scBottom
      /\ \A x \in Addr : Visible(c, x) = IF x \in W THEN res[x] ELSE Visible(cpu, x)
      /\ \A x \in Addr \ W : c.mem[x] = cpu.mem[x]
  <2>1. /\ c = WriteAll(cpu, W, res) /\ W \in SUBSET Addr /\ res \in [Addr -> Values]
        /\ cpu \in Cpu /\ cpu.eid = NO_EXCEPTION
    BY <1>3, <1>4, <1>6
  <2>2. QED BY <2>1, WriteAllEffect
<1>8. Ready(c, s) /\ Loose(c, s) /\ c.dre
  <2>1. Ready(c, s)
    BY <1>6, <1>7, SameReady
  <2>2. QED BY <2>1 DEF Ready
<1>9. ~Refused(c, value)
  BY <1>3, <1>7 DEF Refused, SameRest
<1>10. value \in Int /\ value >= c.optop
  BY <1>3, <1>5, <1>6, <1>7
<1>11. /\ Ready(e, s) /\ e.optop = value /\ SameElsewhere(c, e, s)
       /\ \A x \in Addr : x > value /\ (x > c.optop \/ value >= c.scBottom - SCACHE_SIZE)
                            => Visible(e, x) = Visible(c, x)
  BY <1>3, <1>4, <1>6, <1>8, <1>9, <1>10, MoveEffect
<1>12. ASSUME NEW x \in Addr, x > value
       PROVE  Visible(e, x) = IF x <= a THEN Visible(cpu, cpu.optop + k - (a - x))
                                        ELSE Visible(cpu, x)
  <2>1. x \in Int /\ x > c.optop
    BY <1>3, <1>6, <1>7, <1>10, <1>12, AddrIsInt
  <2>2. x \in W <=> x <= a
    BY <1>3, <1>5, <1>10, <1>12, <2>1
  <2>3. Visible(e, x) = Visible(c, x)
    BY <1>11, <1>12, <2>1
  <2>4. QED BY <1>3, <1>7, <2>2, <2>3
<1>13. SameElsewhere(cpu, e, s)
  <2>1. SameElsewhere(cpu, c, s)
    <3>1. SUFFICES ASSUME NEW x \in Addr, x <= Low(s) - Gap \/ x > Base(s) + Gap
                   PROVE  x \notin W
      BY <1>7 DEF SameElsewhere
    <3>2. Low(s) \in Nat /\ Base(s) \in Nat /\ Gap \in Nat
      BY <1>6, Geometry
    <3>3. QED BY <1>3, <3>1, <3>2, AddrIsInt
  <2>2. QED BY <2>1, <1>11, SameElsewhereTwice
<1>14. QED
  <2>1. /\ a - k > cpu.optop /\ e.optop = a - k
        /\ \A x \in Addr : x > a - k => Visible(e, x) =
              IF x <= a THEN Visible(cpu, cpu.optop + k - (a - x)) ELSE Visible(cpu, x)
    BY <1>3, <1>5, <1>11, <1>12
  <2>2. QED BY <2>1, <1>2, <1>3, <1>11, <1>13, ReturnEffect

LEMMA ReturnKSteps ==
    ASSUME Broken = {}, Inv, cpu.dre, NEW k \in 0..2, NEW a, returnK(k, a)
    PROVE  Inv' /\ Stack!Next
<1> DEFINE s == thread
           W == a - k + 1..a
           res == [b \in Addr |-> IF b \in a - k + 1..a
                   THEN Visible(cpu, cpu.optop + k - (a - b)) ELSE 0]
           q == TRUE
           value == a - k
           c == vUpdateOptop(cpu, value, q)
           e == WriteAll(c, W, res)
<1>1. a \in VarsOf(k) /\ Stays(e, Returns(k, a))
  BY DEF returnK
<1>2. /\ a \in Int /\ value > cpu.optop /\ a >= cpu.optop + k /\ a <= Base(s)
      /\ value \in Low(s)..Base(s)
      /\ W \in SUBSET Addr /\ res \in [Addr -> Values]
      /\ \A b \in Addr : b \in W => res[b] = Visible(cpu, cpu.optop + k - (a - b))
      /\ ~Refused(cpu, value)
      /\ \A b \in W : b > Low(s) - Gap /\ b <= Base(s) + Gap
  <2> PICK r : r = res
    OBVIOUS
  <2>1. r = [b \in Addr |-> IF b \in a - k + 1..a
                   THEN Visible(cpu, cpu.optop + k - (a - b)) ELSE 0]
    OBVIOUS
  <2> HIDE DEF res
  <2>2. QED BY <1>1, <2>1, ResultTyped
<1>3. c = vUpdateOptop(cpu, value, q) /\ e = WriteAll(c, W, res) /\ q \in BOOLEAN
  OBVIOUS
<1>4. a - k = value /\ W = value + 1..a
  OBVIOUS
<1> HIDE DEF W, res, c, q, value, e
<1>5. /\ s \in Stacks /\ Ready(cpu, s) /\ Loose(cpu, s) /\ cpu.optop \in Int
  BY InvFacts
<1>6. value \in Int /\ value >= cpu.optop
  BY <1>2, <1>4, <1>5
<1>7. /\ Ready(c, s) /\ c.optop = value /\ SameElsewhere(cpu, c, s)
      /\ \A x \in Addr : x > value /\ (x > cpu.optop \/ value >= cpu.scBottom - SCACHE_SIZE)
                            => Visible(c, x) = Visible(cpu, x)
  BY <1>2, <1>3, <1>5, <1>6, MoveEffect
<1>8. /\ e \in Cpu /\ SameRest(c, e) /\ e.optop = c.optop /\ e.scBottom = c.scBottom
      /\ \A x \in Addr : Visible(e, x) = IF x \in W THEN res[x] ELSE Visible(c, x)
      /\ \A x \in Addr \ W : e.mem[x] = c.mem[x]
  <2>1. /\ e = WriteAll(c, W, res) /\ W \in SUBSET Addr /\ res \in [Addr -> Values]
        /\ c \in Cpu /\ c.eid = NO_EXCEPTION
    BY <1>2, <1>3, <1>7 DEF Ready, Loose
  <2>2. QED BY <2>1, WriteAllEffect
<1>9. Ready(e, s)
  BY <1>7, <1>8, SameReady
<1>10. ASSUME NEW x \in Addr, x > value
       PROVE  Visible(e, x) = IF x <= a THEN Visible(cpu, cpu.optop + k - (a - x))
                                        ELSE Visible(cpu, x)
  <2>1. x \in Int /\ x > cpu.optop
    BY <1>2, <1>5, <1>6, <1>10, AddrIsInt
  <2>2. x \in W <=> x <= a
    BY <1>2, <1>4, <1>6, <1>10, <2>1
  <2>3. Visible(c, x) = Visible(cpu, x)
    BY <1>7, <1>10, <2>1
  <2>4. QED BY <1>2, <1>8, <2>2, <2>3
<1>11. SameElsewhere(cpu, e, s)
  <2>1. SameElsewhere(c, e, s)
    <3>1. SUFFICES ASSUME NEW x \in Addr, x <= Low(s) - Gap \/ x > Base(s) + Gap
                   PROVE  x \notin W
      BY <1>8 DEF SameElsewhere
    <3>2. Low(s) \in Nat /\ Base(s) \in Nat /\ Gap \in Nat
      BY <1>5, Geometry
    <3>3. QED BY <1>2, <3>1, <3>2, AddrIsInt
  <2>2. QED BY <2>1, <1>7, SameElsewhereTwice
<1>12. QED
  <2>1. /\ a - k > cpu.optop /\ e.optop = a - k
        /\ \A x \in Addr : x > a - k => Visible(e, x) =
              IF x <= a THEN Visible(cpu, cpu.optop + k - (a - x)) ELSE Visible(cpu, x)
    BY <1>2, <1>4, <1>7, <1>8, <1>10
  <2>2. QED BY <2>1, <1>1, <1>2, <1>9, <1>11, ReturnEffect

LEMMA RetFromTrapSteps ==
    ASSUME Broken = {}, Inv, cpu.dre, NEW a, NEW m \in Marks, priv_ret_from_trap(a, m)
    PROVE  Inv' /\ Stack!Next
<1> DEFINE s == thread
           c == [cpu EXCEPT !.fill = m[1], !.spill = m[2]]
           q == FALSE
           e == vUpdateOptop(c, a, q)
           k == 0
<1>1. a \in cpu.optop + TrapWords..Base(s) /\ Stays(e, Returns(k, a))
  BY DEF priv_ret_from_trap
<1>2. e = vUpdateOptop(c, a, q) /\ q \in BOOLEAN /\ ~q /\ k = 0 /\ k \in 0..2
  OBVIOUS
<1>3. /\ s \in Stacks /\ Ready(cpu, s) /\ Loose(cpu, s) /\ cpu \in Cpu /\ cpu.optop \in Int
      /\ cpu.optop >= Low(s) /\ cpu.optop <= Base(s)
      /\ Low(s) \in Nat /\ Base(s) \in Nat /\ cpu.oplim \in Int
      /\ cpu.limited => cpu.optop >= cpu.oplim
      /\ TrapWords \in Nat /\ TrapWords >= 2
  BY InvFacts, StackCacheAssumption
<1>4. a \in Int /\ a \in Low(s)..Base(s) /\ a > cpu.optop
  BY <1>1, <1>3
<1>5. /\ c \in Cpu /\ c.optop = cpu.optop /\ c.scBottom = cpu.scBottom
      /\ c.mem = cpu.mem /\ c.sCacheMem = cpu.sCacheMem /\ c.dre
      /\ c.eid = cpu.eid /\ c.oplim = cpu.oplim /\ c.limited = cpu.limited
      /\ c.fill = m[1] /\ c.spill = m[2]
  <2>1. m[1] \in Nat /\ m[2] \in Nat
    BY StackCacheAssumption
  <2>2. QED BY <2>1, <1>3 DEF Cpu
<1> HIDE DEF c, q, e, k
<1>6. Marked(c)
  <2>1. m = <<m[1], m[2]>>
    BY StackCacheAssumption
  <2>2. QED BY <2>1, <1>5 DEF Marked
<1>7. Loose(c, s)
  BY <1>3, <1>5, <1>6 DEF Loose
<1>8. ~Refused(c, a)
  BY <1>3, <1>4, <1>5 DEF Refused
<1>9. /\ Ready(e, s) /\ e.optop = a /\ SameElsewhere(c, e, s)
      /\ \A x \in Addr : x > a /\ (x > c.optop \/ a >= c.scBottom - SCACHE_SIZE)
                            => Visible(e, x) = Visible(c, x)
  BY <1>2, <1>3, <1>4, <1>5, <1>7, <1>8, MoveEffect
<1>10. \A x : Visible(c, x) = Visible(cpu, x)
  BY <1>5 DEF Visible, Hits
<1>11. SameElsewhere(cpu, e, s)
  BY <1>5, <1>9 DEF SameElsewhere
<1>12. /\ a - k > cpu.optop /\ a >= cpu.optop + k /\ e.optop = a - k
       /\ \A x \in Addr : x > a - k => Visible(e, x) =
             IF x <= a THEN Visible(cpu, cpu.optop + k - (a - x)) ELSE Visible(cpu, x)
  <2>1. a - k = a /\ cpu.optop + k = cpu.optop
    BY <1>2, <1>3, <1>4
  <2>2. \A x \in Addr : x > a => ~(x <= a) /\ x > c.optop
    BY <1>3, <1>4, <1>5, AddrIsInt
  <2>3. QED BY <2>1, <2>2, <1>3, <1>4, <1>9, <1>10
<1>13. QED
  <2>1. a <= Base(s)
    BY <1>3, <1>4
  <2>2. QED BY <2>1, <1>1, <1>2, <1>4, <1>9, <1>11, <1>12, ReturnEffect

(* An operand is popped and the rest stays.                                *)
LEMMA PopDone ==
    ASSUME Broken = {}, Inv, cpu.optop + 1 <= Base(thread),
           NEW e, Ready(e, thread), e.optop = cpu.optop + 1, SameElsewhere(cpu, e, thread),
           \A a \in Addr : a > cpu.optop + 1 => Visible(e, a) = Visible(cpu, a),
           Stays(e, Pops(1))
    PROVE  Inv' /\ Stack!Next
<1>1. PICK done : done = Pops(1)
  OBVIOUS
<1>2. PICK w : w = <<>>
  OBVIOUS
<1>3. DOMAIN w = {} /\ done = [kind |-> "pop", n |-> 1]
  BY <1>1, <1>2 DEF Pops
<1>4. /\ thread \in Stacks /\ cpu.optop \in Int
      /\ Low(thread) \in Nat /\ Base(thread) \in Nat /\ cpu.optop >= Low(thread)
      /\ \A x \in Int : x >= -1 /\ x <= Base(thread) => x \in Addr
  BY Geometry DEF Inv, Loose
<1>5. ASSUME NEW a \in e.optop + 1..Base(thread)
      PROVE  Visible(e, a) = IF a \in DOMAIN w THEN w[a] ELSE Word(a)
  <2>1. a \in Int /\ a > cpu.optop + 1 /\ a <= Base(thread) /\ a >= -1
    BY <1>4
  <2>2. a \in Addr
    BY <1>4, <2>1
  <2>3. Word(a) = Visible(cpu, a)
    BY <1>4, <2>1 DEF Word, InUse
  <2>4. QED BY <1>3, <2>1, <2>2, <2>3
<1>6. Inv' /\ op' = done /\ topOf[thread] = cpu.optop /\ Stack!Becomes(e.optop, w)
  <2>1. Stays(e, done) /\ \A a \in DOMAIN w : a \in Low(thread) + 1..Base(thread)
    BY <1>1, <1>3
  <2>2. QED BY <2>1, <1>5, StaysDone
<1>7. Stack!Pop(1)
  <2>1. Stack!Becomes(topOf[thread] + 1, <<>>)
    BY <1>2, <1>6 DEF Stack!Becomes
  <2>2. QED BY <2>1, <1>3, <1>6 DEF Stack!Pop, topOf
<1>8. 1 \in 1..Operands
  BY OperandsAtLeast2
<1>9. QED BY <1>6, <1>7, <1>8 DEF Stack!Next

LEMMA WritePsrSteps ==
    ASSUME Broken = {}, Inv, NEW m \in Marks, priv_write_psr(m)
    PROVE  Inv' /\ Stack!Next
<1> DEFINE s == thread
           c == [cpu EXCEPT !.fill = m[1], !.spill = m[2], !.dre = TRUE]
           q == FALSE
           value == c.optop - (-1)
           e == vUpdateOptop(c, value, q)
<1>1. cpu.optop + 1 <= Base(s) /\ Stays(e, Pops(1))
  BY DEF priv_write_psr, SizeAndStackReturn
<1>2. e = vUpdateOptop(c, value, q) /\ q \in BOOLEAN /\ ~q /\ value = c.optop - (-1)
  OBVIOUS
<1>3. /\ s \in Stacks /\ Loose(cpu, s) /\ cpu \in Cpu /\ cpu.optop \in Int
      /\ cpu.optop >= Low(s) /\ Low(s) \in Nat /\ Base(s) \in Nat /\ cpu.oplim \in Int
      /\ cpu.limited => cpu.optop >= cpu.oplim
  BY CpuTyped, Geometry DEF Inv, Loose
<1>4. /\ c \in Cpu /\ c.optop = cpu.optop /\ c.scBottom = cpu.scBottom
      /\ c.mem = cpu.mem /\ c.sCacheMem = cpu.sCacheMem /\ c.dre
      /\ c.eid = cpu.eid /\ c.oplim = cpu.oplim /\ c.limited = cpu.limited
      /\ c.fill = m[1] /\ c.spill = m[2]
  <2>1. m[1] \in Nat /\ m[2] \in Nat
    BY StackCacheAssumption
  <2> DEFINE yes == TRUE
  <2>2. yes \in BOOLEAN /\ yes /\ c = [cpu EXCEPT !.fill = m[1], !.spill = m[2], !.dre = yes]
    OBVIOUS
  <2> HIDE DEF c, yes
  <2>3. QED BY <2>1, <2>2, <1>3 DEF Cpu
<1> HIDE DEF c, q, value, e
<1>5. Loose(c, s)
  <2>1. m = <<m[1], m[2]>>
    BY StackCacheAssumption
  <2>2. Marked(c)
    BY <2>1, <1>4 DEF Marked
  <2>3. QED BY <1>3, <1>4, <2>2 DEF Loose
<1>6. /\ value = cpu.optop + 1 /\ value \in Low(s)..Base(s) /\ ~Refused(c, value)
      /\ value \in Int
  <2>1. value = cpu.optop + 1 /\ value \in Int
    BY <1>2, <1>3, <1>4
  <2>2. QED BY <2>1, <1>1, <1>3, <1>4 DEF Refused
<1>7. /\ Ready(e, s) /\ e.optop = value /\ SameElsewhere(c, e, s)
      /\ \A x \in Addr : x > value /\ (x > c.optop \/ value >= c.scBottom - SCACHE_SIZE)
                            => Visible(e, x) = Visible(c, x)
  BY <1>2, <1>3, <1>4, <1>5, <1>6, MoveEffect
<1>8. \A x : Visible(c, x) = Visible(cpu, x)
  BY <1>4 DEF Visible, Hits
<1>9. SameElsewhere(cpu, e, s)
  BY <1>4, <1>7 DEF SameElsewhere
<1>10. \A x \in Addr : x > cpu.optop + 1 => Visible(e, x) = Visible(cpu, x)
  <2>1. \A x \in Addr : x > cpu.optop + 1 => x > value /\ x > c.optop
    BY <1>3, <1>4, <1>6, AddrIsInt
  <2>2. QED BY <2>1, <1>7, <1>8
<1>11. QED BY <1>1, <1>6, <1>7, <1>9, <1>10, PopDone

LEMMA WriteOplimSteps ==
    ASSUME Broken = {}, Inv, cpu.dre, NEW v \in Limits, priv_write_oplim(v)
    PROVE  Inv' /\ Stack!Next
<1> DEFINE s == thread
           c == vUpdateOplim(cpu, v)
           q == FALSE
           value == c.optop - (-1)
           e == vUpdateOptop(c, value, q)
<1>1. cpu.optop + 1 <= Base(s) /\ Stays(e, Pops(1))
  BY DEF priv_write_oplim, SizeAndStackReturn
<1>2. c = vUpdateOplim(cpu, v)
  OBVIOUS
<1>3. e = vUpdateOptop(c, value, q) /\ q \in BOOLEAN /\ ~q /\ value = c.optop - (-1)
  OBVIOUS
<1> HIDE DEF c, q, value, e
<1>4. /\ s \in Stacks /\ Ready(cpu, s) /\ cpu.optop \in Int
      /\ cpu.optop >= Low(s) /\ Low(s) \in Nat /\ Base(s) \in Nat
  BY InvFacts
<1>5. v \in Nat
  BY StackCacheAssumption
<1>6. /\ c.optop = cpu.optop /\ c.scBottom = cpu.scBottom /\ c.mem = cpu.mem
      /\ \A a : Visible(c, a) = Visible(cpu, a)
      /\ v > cpu.optop => Undone(cpu, c, s) /\ Unmoved(c) /\ c.saved.optop = cpu.optop
      /\ v <= cpu.optop => Ready(c, s)
  BY <1>2, <1>4, <1>5, OplimEffect
<1>7. value = c.optop + 1 /\ c.optop + 1 <= Base(s) /\ value \in Low(s)..Base(s)
      /\ value \in Int
  BY <1>1, <1>3, <1>4, <1>6
<1>8. CASE v > cpu.optop
  <2>1. Undone(cpu, e, s) /\ e.saved = c.saved
    <3>1. Undone(cpu, c, s) /\ Unmoved(c) /\ 1 \in 0..1
      BY <1>6, <1>8
    <3>2. QED BY <3>1, <1>3, <1>4, <1>7, UndoneMove
  <2>2. PICK done : done = Pops(1)
    OBVIOUS
  <2>3. done.kind # "switch" /\ Stays(e, done) /\ e.saved.optop = cpu.optop
    BY <1>1, <1>6, <1>8, <2>1, <2>2 DEF Pops
  <2>4. QED BY <2>1, <2>3, StaysTrap, TrapNext
<1>9. CASE v <= cpu.optop
  <2>1. /\ Ready(c, s) /\ Loose(c, s) /\ c.dre /\ c.oplim \in Int
        /\ c.limited => c.optop >= c.oplim
    BY <1>6, <1>9, CpuTyped DEF Ready, Loose
  <2>2. ~Refused(c, value)
    <3>1. c.limited => ~(c.oplim > value)
      <4>1. c.optop \in Int /\ c.oplim \in Int /\ value = c.optop + 1
        BY <1>4, <1>6, <1>7, <2>1
      <4>2. c.limited => c.optop >= c.oplim
        BY <2>1
      <4>3. QED BY ONLY <4>1, <4>2
    <3>2. QED BY <3>1 DEF Refused
  <2>3. /\ Ready(e, s) /\ e.optop = value /\ SameElsewhere(c, e, s)
        /\ \A x \in Addr : x > value /\ (x > c.optop \/ value >= c.scBottom - SCACHE_SIZE)
                              => Visible(e, x) = Visible(c, x)
    <3>1. /\ Loose(c, s) /\ c.dre /\ s \in Stacks /\ value \in Low(s)..Base(s)
          /\ ~Refused(c, value) /\ e = vUpdateOptop(c, value, q) /\ q \in BOOLEAN /\ ~q
      BY <1>3, <1>4, <1>7, <2>1, <2>2
    <3> HIDE DEF s
    <3>2. QED BY <3>1, MoveEffect
  <2>4. SameElsewhere(cpu, e, s)
    BY <1>6, <2>3 DEF SameElsewhere
  <2>5. \A x \in Addr : x > cpu.optop + 1 => Visible(e, x) = Visible(cpu, x)
    <3>1. \A x \in Addr : x > cpu.optop + 1 => x > value /\ x > c.optop
      BY <1>4, <1>6, <1>7, AddrIsInt
    <3>2. QED BY <3>1, <1>6, <2>3
  <2>6. e.optop = cpu.optop + 1
    BY <1>6, <1>7, <2>3
  <2>7. QED BY <1>1, <2>3, <2>4, <2>5, <2>6, PopDone
<1>10. QED
  <2>1. v \in Int
    BY <1>5
  <2>2. QED BY <2>1, <1>4, <1>8, <1>9

(* A change of stacks, seen from outside.                                  *)
LEMMA SwitchedWords ==
    ASSUME Inv, thread' = 1 - thread, NEW n \in 1..2, parked' = cpu.optop + n,
           parked' <= Base(thread), cpu'.optop \in Low(1 - thread)..Base(1 - thread),
           cpu'.optop <= parked,
           NEW w, \A a \in DOMAIN w : a \in cpu'.optop + 1..Base(1 - thread),
           \A a \in cpu'.optop + 1..Base(1 - thread) :
              Visible(cpu', a) = IF a \in DOMAIN w THEN w[a] ELSE cpu.mem[a],
           \A a \in cpu'.optop + 1..parked : a \in DOMAIN w,
           \A a \in cpu.optop + 1..Base(thread) : cpu'.mem[a] = Visible(cpu, a)
    PROVE  /\ topOf' = [x \in Stacks |-> IF x = thread THEN topOf[x] + n ELSE cpu'.optop]
           /\ topOf'[thread] = parked' /\ topOf[1 - thread] = parked
           /\ wordOf' = Stack!WordsAfter(thread, topOf'[thread], w)
<1> DEFINE s == thread
           t == parked'
           o == cpu'.optop
<1>1. /\ s \in Stacks /\ 1 - s \in Stacks /\ s # 1 - s /\ 1 - (1 - s) = s
      /\ t \in Low(s)..Base(s) /\ cpu.optop \in Low(s)..Base(s)
      /\ parked \in Low(1 - s)..Base(1 - s) /\ o \in Low(1 - s)..Base(1 - s)
      /\ Low(s) \in Nat /\ Base(s) \in Nat /\ Low(1 - s) \in Nat /\ Base(1 - s) \in Nat
      /\ cpu.optop \in Int /\ t = cpu.optop + n
  BY Geometry DEF Inv, Loose
<1>2. topOf' = [x \in Stacks |-> IF x = 1 - thread THEN cpu'.optop ELSE parked']
  BY DEF topOf
<1>3. topOf' = [x \in Stacks |-> IF x = thread THEN topOf[x] + n ELSE cpu'.optop]
  <2>1. topOf[thread] = cpu.optop
    BY <1>1 DEF topOf
  <2>2. \A x \in Stacks : x = thread \/ x = 1 - thread
    BY <1>1 DEF Stacks
  <2>3. QED BY <1>1, <1>2, <2>1, <2>2
<1>4. topOf'[thread] = parked' /\ topOf[1 - thread] = parked
  BY <1>1, <1>2 DEF topOf
<1>5. ASSUME NEW a \in AllWords
      PROVE  Word(a)' = IF a \in Low(s) + 1..t THEN Dead
                        ELSE IF a \in DOMAIN w THEN w[a] ELSE Word(a)
  <2>1. /\ \/ a \in Low(s) + 1..Base(s) \/ a \in Low(1 - s) + 1..Base(1 - s)
        /\ ~(a \in Low(s) + 1..Base(s) /\ a \in Low(1 - s) + 1..Base(1 - s))
        /\ a \in Int
    BY <1>1, WordPlaces
  <2>2. Word(a)' = IF a \in o + 1..Base(1 - s) THEN Visible(cpu', a)
                   ELSE IF a \in t + 1..Base(s) THEN cpu'.mem[a] ELSE Dead
    <3>1. Word(a)' = IF a \in o + 1..Base(thread') THEN Visible(cpu', a)
                   ELSE IF a \in t + 1..Base(1 - thread') THEN cpu'.mem[a] ELSE Dead
      BY DEF Word, InUse, Base
    <3>2. thread' = 1 - s /\ 1 - thread' = s
      BY <1>1
    <3>3. QED BY <3>1, <3>2
  <2>3. Word(a) = IF a \in cpu.optop + 1..Base(s) THEN Visible(cpu, a)
                  ELSE IF a \in parked + 1..Base(1 - s) THEN cpu.mem[a] ELSE Dead
    BY DEF Word, InUse
  <2>4. CASE a \in Low(s) + 1..t
    BY <2>1, <2>2, <2>4, <1>1
  <2>5. CASE a \in t + 1..Base(s)
    <3>1. /\ a \notin Low(1 - s) + 1..Base(1 - s) /\ a \notin o + 1..Base(1 - s)
          /\ a \in cpu.optop + 1..Base(s) /\ a \notin Low(s) + 1..t
      BY <2>1, <2>5, <1>1
    <3>2. a \notin DOMAIN w
      BY <3>1
    <3>3. QED BY <2>2, <2>3, <2>5, <3>1, <3>2
  <2>6. CASE a \in Low(1 - s) + 1..o
    <3>1. /\ a \notin o + 1..Base(1 - s) /\ a \notin Low(s) + 1..Base(s)
          /\ a \notin parked + 1..Base(1 - s)
      BY <2>1, <2>6, <1>1
    <3>2. a \notin Low(s) + 1..t /\ a \notin t + 1..Base(s) /\ a \notin cpu.optop + 1..Base(s)
      BY <3>1, <2>6, <1>1
    <3>3. a \notin DOMAIN w
      BY <3>1
    <3>4. QED BY <2>2, <2>3, <3>1, <3>2, <3>3
  <2>7. CASE a \in o + 1..Base(1 - s)
    <3>1. a \notin Low(s) + 1..Base(s) /\ a \in Low(1 - s) + 1..Base(1 - s)
      BY <2>1, <2>7, <1>1
    <3>2. a \notin Low(s) + 1..t /\ a \notin cpu.optop + 1..Base(s)
      BY <3>1, <2>7, <1>1
    <3>3. a \notin parked + 1..Base(1 - s) => a \in DOMAIN w
      BY <2>7, <1>1
    <3>4. QED BY <2>2, <2>3, <2>7, <3>2, <3>3
  <2>8. QED BY <2>1, <2>4, <2>5, <2>6, <2>7, <1>1
<1>6. wordOf' = Stack!WordsAfter(thread, t, w)
  <2>1. wordOf' = [a \in AllWords |-> Word(a)']
    BY DEF wordOf, AllWords, Low, Base
  <2>2. Stack!WordsAfter(thread, t, w) =
           [a \in AllWords |-> IF a \in Low(s) + 1..t THEN Dead
                               ELSE IF a \in DOMAIN w THEN w[a] ELSE wordOf[a]]
    BY <1>1, StackGeometry DEF Stack!WordsAfter, wordOf, AllWords
  <2>3. \A a \in AllWords : wordOf[a] = Word(a)
    BY DEF wordOf
  <2> HIDE DEF t, s
  <2>4. QED BY <2>1, <2>2, <2>3, <1>5
<1>7. QED BY <1>3, <1>4, <1>6

(* A change of stacks that is carried out.                                 *)
LEMMA SwitchDone ==
    ASSUME Broken = {}, Inv, NEW n \in 1..2,
           NEW c, Ready(c, 1 - thread), c.optop = parked,
           \A a \in parked + 1..Base(1 - thread) : Visible(c, a) = cpu.mem[a],
           \A a \in cpu.optop + 1..Base(thread) : c.mem[a] = Visible(cpu, a),
           Switches(c, n)
    PROVE  Inv' /\ Stack!Switch(n)
<1>1. /\ cpu.optop + n <= Base(thread) /\ thread' = 1 - thread /\ parked' = cpu.optop + n
      /\ Ends(c, 1 - thread, [kind |-> "switch", n |-> n])
  BY DEF Switches
<1>2. c.eid = NO_EXCEPTION
  BY DEF Ready, Loose
<1>3. cpu' = c /\ op' = [kind |-> "switch", n |-> n]
  BY <1>1, <1>2 DEF Ends
<1>4. /\ thread \in Stacks /\ 1 - thread \in Stacks /\ 1 - (1 - thread) = thread
      /\ cpu.optop \in Low(thread)..Base(thread)
      /\ parked \in Low(1 - thread)..Base(1 - thread)
      /\ Low(thread) \in Nat /\ Base(thread) \in Nat
      /\ Low(1 - thread) \in Nat /\ Base(1 - thread) \in Nat
  BY Geometry DEF Inv, Loose
<1>5. Inv'
  <2>1. /\ thread' \in Stacks /\ Ready(cpu', thread')
        /\ parked' \in Low(1 - thread')..Base(1 - thread')
    BY <1>1, <1>3, <1>4
  <2>2. QED BY <2>1, ReadyInvNext
<1>6. PICK w : w = <<>>
  OBVIOUS
<1>7. /\ topOf' = [x \in Stacks |-> IF x = thread THEN topOf[x] + n ELSE cpu'.optop]
      /\ topOf'[thread] = parked' /\ topOf[1 - thread] = parked
      /\ wordOf' = Stack!WordsAfter(thread, topOf'[thread], w)
  <2>1. DOMAIN w = {} /\ cpu'.optop = parked /\ cpu'.optop + 1..parked = {}
    BY <1>3, <1>4, <1>6
  <2>2. /\ \A a \in DOMAIN w : a \in cpu'.optop + 1..Base(1 - thread)
        /\ \A a \in cpu'.optop + 1..Base(1 - thread) :
              Visible(cpu', a) = IF a \in DOMAIN w THEN w[a] ELSE cpu.mem[a]
        /\ \A a \in cpu'.optop + 1..parked : a \in DOMAIN w
        /\ \A a \in cpu.optop + 1..Base(thread) : cpu'.mem[a] = Visible(cpu, a)
    BY <1>3, <2>1
  <2>3. /\ parked' <= Base(thread) /\ cpu'.optop <= parked
        /\ cpu'.optop \in Low(1 - thread)..Base(1 - thread)
    BY <1>1, <1>4, <2>1
  <2>4. QED BY <2>2, <2>3, <1>1, SwitchedWords
<1>8. topOf' = [topOf EXCEPT ![thread] = @ + n]
  <2>1. \A x \in Stacks : x = thread \/ x = 1 - thread
    BY <1>4 DEF Stacks
  <2>2. cpu'.optop = topOf[1 - thread]
    BY <1>3, <1>7
  <2>3. topOf = [x \in Stacks |-> topOf[x]]
    BY DEF topOf
  <2> HIDE DEF topOf
  <2>4. QED BY <2>1, <2>2, <2>3, <1>4, <1>7
<1>9. Stack!Switch(n)
  BY <1>1, <1>3, <1>6, <1>7, <1>8 DEF Stack!Switch, topOf, wordOf, AllWords
<1>10. QED BY <1>5, <1>9

(* A change of stacks that stands although its instruction traps: k is the *)
(* processor when OPTOP is on the new stack.                               *)
LEMMA SwitchTrapped ==
    ASSUME Broken = {}, Inv, NEW n \in 1..2,
           NEW k, NEW c, Undone(k, c, 1 - thread), c.saved.optop = parked,
           \A a \in parked + 1..Base(1 - thread) : Visible(k, a) = cpu.mem[a],
           \A a \in cpu.optop + 1..Base(thread) : k.mem[a] = Visible(cpu, a),
           Switches(c, n)
    PROVE  Inv' /\ Stack!SwitchAndTrap(n)
<1> DEFINE t == parked - TrapWords
<1>1. PICK done : done = [kind |-> "switch", n |-> n]
  OBVIOUS
<1>2. /\ cpu.optop + n <= Base(thread) /\ thread' = 1 - thread /\ parked' = cpu.optop + n
      /\ Ends(c, 1 - thread, done)
  BY <1>1 DEF Switches
<1>3. PICK f \in [Addr -> Values] :
         /\ op' = Trapped(done, [kind |-> "push", words |-> Words(t + 1..parked, f)])
         /\ \A a \in Addr : a > t =>
               Visible(cpu', a) = IF a <= parked THEN f[a] ELSE Visible(k, a)
         /\ Ready(cpu', 1 - thread) /\ cpu'.optop = t
         /\ SameElsewhere(k, cpu', 1 - thread)
  <2>1. 1 - thread \in Stacks
    BY Geometry DEF Inv
  <2>2. QED BY <1>2, <2>1, EndsTrap
<1>4. /\ thread \in Stacks /\ 1 - thread \in Stacks /\ 1 - (1 - thread) = thread
      /\ cpu.optop \in Low(thread)..Base(thread)
      /\ parked \in Low(1 - thread)..Base(1 - thread)
      /\ Low(thread) \in Nat /\ Base(thread) \in Nat
      /\ Low(1 - thread) \in Nat /\ Base(1 - thread) \in Nat
      /\ \A x \in Int : x >= -1 /\ x <= Base(1 - thread) => x \in Addr
      /\ TrapWords \in Nat /\ TrapWords >= 2
  BY Geometry, StackCacheAssumption DEF Inv, Loose
<1>w. PICK w : w = Words(t + 1..parked, f)
  OBVIOUS
<1>5. t \in Low(1 - thread)..Base(1 - thread) /\ t <= parked /\ t \in Int
  <2>1. cpu'.optop \in Low(1 - thread)..Base(1 - thread)
    BY <1>3 DEF Ready, Loose
  <2>2. QED BY <2>1, <1>3, <1>4
<1>6. Inv'
  <2>1. /\ thread' \in Stacks /\ Ready(cpu', thread')
        /\ parked' \in Low(1 - thread')..Base(1 - thread')
    BY <1>2, <1>3, <1>4
  <2>2. QED BY <2>1, ReadyInvNext
<1>7. op'.kind = "switch and trap" /\ op'.n = n /\ op'.words = w
  BY <1>1, <1>w, <1>3 DEF Trapped
<1>8. DOMAIN w = t + 1..parked /\ \A a \in t + 1..parked : w[a] = f[a]
  BY <1>w DEF Words
<1>9. w \in [t + 1..parked -> Contents]
  <2>1. \A a \in t + 1..parked : a \in Int /\ a >= -1 /\ a <= Base(1 - thread)
    BY <1>4, <1>5
  <2>2. \A a \in t + 1..parked : a \in Addr
    BY <2>1, <1>4
  <2>3. QED BY <1>w, <2>2 DEF Words, Contents
<1>10. ASSUME NEW a \in t + 1..Base(1 - thread)
       PROVE  Visible(cpu', a) = IF a \in DOMAIN w THEN w[a] ELSE cpu.mem[a]
  <2>1. a \in Int /\ a > t /\ a <= Base(1 - thread) /\ a >= -1
    BY <1>4, <1>5
  <2>2. a \in Addr
    BY <1>4, <2>1
  <2>3. a \in t + 1..parked <=> a <= parked
    BY <1>4, <1>5, <2>1
  <2>4. ~(a <= parked) => Visible(k, a) = cpu.mem[a]
    BY <1>4, <2>1
  <2>5. QED BY <1>3, <1>8, <2>1, <2>2, <2>3, <2>4
<1>11. ASSUME NEW a \in cpu.optop + 1..Base(thread) PROVE cpu'.mem[a] = Visible(cpu, a)
  <2>1. a \in Low(thread) + 1..Base(thread)
    BY <1>4
  <2>2. /\ a \in Addr
        /\ a <= Low(1 - thread) - Gap \/ a > Base(1 - thread) + Gap
    BY <1>4, <2>1, WordPlaces
  <2>3. QED BY <1>3, <2>2 DEF SameElsewhere
<1>12. /\ topOf' = [x \in Stacks |-> IF x = thread THEN topOf[x] + n ELSE t]
       /\ topOf[1 - thread] = parked
       /\ wordOf' = Stack!WordsAfter(thread, topOf'[thread], w)
  <2>1. /\ \A a \in DOMAIN w : a \in cpu'.optop + 1..Base(1 - thread)
        /\ \A a \in cpu'.optop + 1..parked : a \in DOMAIN w
        /\ parked' <= Base(thread) /\ cpu'.optop <= parked
        /\ cpu'.optop \in Low(1 - thread)..Base(1 - thread)
    BY <1>2, <1>3, <1>4, <1>5, <1>8
  <2>2. \A a \in cpu'.optop + 1..Base(1 - thread) :
              Visible(cpu', a) = IF a \in DOMAIN w THEN w[a] ELSE cpu.mem[a]
    BY <1>3, <1>10
  <2> HIDE DEF t
  <2>3. QED BY <2>1, <2>2, <1>2, <1>3, <1>11, SwitchedWords
<1>13. op'.words \in [topOf[1 - thread] - TrapWords + 1..topOf[1 - thread] -> Contents]
  BY <1>7, <1>9, <1>12
<1>14. /\ topOf' = [x \in Stacks |-> IF x = thread THEN topOf[x] + n
                                     ELSE topOf[1 - thread] - TrapWords]
       /\ wordOf' = Stack!WordsAfter(thread, topOf'[thread], op'.words)
  BY <1>7, <1>12
<1>15. Stack!SwitchAndTrap(n)
  BY <1>2, <1>7, <1>13, <1>14, StackGeometry
     DEF Stack!SwitchAndTrap, Stack!Writes, Stack!Stacks, Stacks, topOf, wordOf, AllWords
<1>16. QED BY <1>6, <1>15

LEMMA WriteOptopSteps ==
    ASSUME Broken = {}, Inv, cpu.dre, write_optop
    PROVE  Inv' /\ Stack!Next
<1> DEFINE s == thread
           q == FALSE
           c == vUpdateOptop(cpu, parked, q)
<1>1. IF Refused(cpu, parked) THEN Stays(c, Pops(1)) ELSE Switches(c, 1)
  BY DEF write_optop
<1>2. c = vUpdateOptop(cpu, parked, q) /\ q \in BOOLEAN /\ ~q
  OBVIOUS
<1> HIDE DEF c, q
<1>3. /\ s \in Stacks /\ Ready(cpu, s)
      /\ parked \in Low(1 - thread)..Base(1 - thread)
  BY InvFacts
<1>4. CASE Refused(cpu, parked)
  <2>1. Undone(cpu, c, s) /\ c.saved.optop = cpu.optop
    BY <1>2, <1>3, <1>4, RefusedEffect
  <2>2. PICK done : done = Pops(1)
    OBVIOUS
  <2>3. done.kind # "switch" /\ Stays(c, done)
    BY <1>1, <1>4, <2>2 DEF Pops
  <2>4. QED BY <2>1, <2>3, StaysTrap, TrapNext
<1>5. CASE ~Refused(cpu, parked)
  <2>1. /\ Ready(c, 1 - s) /\ c.optop = parked
        /\ \A a \in parked + 1..Base(1 - s) : Visible(c, a) = cpu.mem[a]
        /\ \A a \in cpu.optop + 1..Base(s) : c.mem[a] = Visible(cpu, a)
    BY <1>2, <1>3, <1>5, SwitchEffect
  <2>2. Switches(c, 1) /\ 1 \in 1..2
    BY <1>1, <1>5
  <2>3. QED BY <2>1, <2>2, SwitchDone DEF Stack!Next
<1>6. QED BY <1>4, <1>5

LEMMA UpdateOptopSteps ==
    ASSUME Broken = {}, Inv, cpu.dre, NEW v \in Limits, priv_update_optop(v)
    PROVE  Inv' /\ Stack!Next
<1> DEFINE s == thread
           b == [cpu EXCEPT !.oplim = v, !.limited = FALSE]
           q == FALSE
           c == vUpdateOptop(b, parked, q)
           d == vUpdateOplim(c, v)
<1>1. Switches(d, 2)
  BY DEF priv_update_optop
<1>2. d = vUpdateOplim(c, v)
  OBVIOUS
<1>3. c = vUpdateOptop(b, parked, q) /\ q \in BOOLEAN /\ ~q
  OBVIOUS
<1> HIDE DEF d, c, q
<1>4. /\ s \in Stacks /\ 1 - s \in Stacks /\ Ready(cpu, s) /\ Loose(cpu, s) /\ cpu \in Cpu
      /\ parked \in Low(1 - thread)..Base(1 - thread)
      /\ v \in Nat
  BY InvFacts, Geometry, StackCacheAssumption
<1>5. /\ b \in Cpu /\ b.optop = cpu.optop /\ b.scBottom = cpu.scBottom
      /\ b.mem = cpu.mem /\ b.sCacheMem = cpu.sCacheMem /\ b.dre = cpu.dre
      /\ b.eid = cpu.eid /\ ~b.limited /\ b.fill = cpu.fill /\ b.spill = cpu.spill
  <2> DEFINE no == FALSE
  <2>1. no \in BOOLEAN /\ ~no /\ b = [cpu EXCEPT !.oplim = v, !.limited = no] /\ v \in Int
    BY <1>4
  <2> HIDE DEF b, no
  <2>2. QED BY <2>1, <1>4 DEF Cpu
<1> HIDE DEF b
<1>6. Ready(b, s) /\ ~Refused(b, parked)
  BY <1>4, <1>5 DEF Ready, Loose, Marked, Refused
<1>7. \A a : Visible(b, a) = Visible(cpu, a)
  BY <1>5 DEF Visible, Hits
<1>8. /\ Ready(c, 1 - s) /\ c.optop = parked
      /\ \A a \in parked + 1..Base(1 - s) : Visible(c, a) = cpu.mem[a]
      /\ \A a \in cpu.optop + 1..Base(s) : c.mem[a] = Visible(cpu, a)
  <2>1. /\ Ready(c, 1 - s) /\ c.optop = parked
        /\ \A a \in parked + 1..Base(1 - s) : Visible(c, a) = b.mem[a]
        /\ \A a \in b.optop + 1..Base(s) : c.mem[a] = Visible(b, a)
    BY <1>3, <1>4, <1>6, SwitchEffect
  <2>2. QED BY <2>1, <1>5, <1>7
<1>9. /\ d.optop = c.optop /\ d.mem = c.mem
      /\ \A a : Visible(d, a) = Visible(c, a)
      /\ v > c.optop => Undone(c, d, 1 - s) /\ d.saved.optop = c.optop
      /\ v <= c.optop => Ready(d, 1 - s)
  BY <1>2, <1>4, <1>8, OplimEffect
<1>10. 2 \in 1..2
  OBVIOUS
<1>11. CASE v > c.optop
  <2>1. Undone(c, d, 1 - s) /\ d.saved.optop = parked
    BY <1>8, <1>9, <1>11
  <2>2. QED BY <2>1, <1>1, <1>8, <1>10, SwitchTrapped DEF Stack!Next
<1>12. CASE v <= c.optop
  <2>1. /\ Ready(d, 1 - s) /\ d.optop = parked
        /\ \A a \in parked + 1..Base(1 - s) : Visible(d, a) = cpu.mem[a]
        /\ \A a \in cpu.optop + 1..Base(s) : d.mem[a] = Visible(cpu, a)
    BY <1>8, <1>9, <1>12
  <2>2. QED BY <2>1, <1>1, <1>10, SwitchDone DEF Stack!Next
<1>13. QED
  <2>1. c.optop \in Int /\ v \in Int
    BY <1>4, <1>8, Geometry
  <2>2. QED BY <2>1, <1>11, <1>12

(* A trap.                                                                 *)
LEMMA TrapSteps ==
    ASSUME Broken = {}, Inv, cpu.dre, trap
    PROVE  Inv' /\ Stack!Next
<1> DEFINE s == thread
           o == cpu.optop
           t == o - TrapWords
<1>1. PICK f \in Frames :
         /\ cpu' = invoke_trap(cpu, f) /\ cpu'.optop >= Low(s)
         /\ op' = Pushes(cpu, TrapWords, f)
         /\ thread' = s /\ parked' = parked
  BY DEF trap
<1>2. /\ s \in Stacks /\ Ready(cpu, s) /\ o \in Int /\ o >= Low(s) /\ o <= Base(s)
      /\ parked \in Low(1 - s)..Base(1 - s)
      /\ Low(s) \in Nat /\ Base(s) \in Nat /\ TrapWords \in Nat /\ TrapWords >= 2
      /\ \A a \in Int : a >= -1 /\ a <= Base(s) => a \in Addr
  BY InvFacts, StackCacheAssumption
<1>3. /\ Ready(cpu', s) /\ cpu'.optop = t
      /\ \A a \in Addr : a > t =>
            Visible(cpu', a) = IF a <= o THEN f[a] ELSE Visible(cpu, a)
      /\ SameElsewhere(cpu, cpu', s)
  BY <1>1, <1>2, TrapEffect
<1>4. Inv'
  BY <1>1, <1>2, <1>3, ReadyInvNext
<1>5. PICK w : w = Words(t + 1..o, f)
  OBVIOUS
<1>6. op'.kind = "push" /\ op'.words = w
  BY <1>1, <1>5 DEF Pushes
<1>7. DOMAIN w = t + 1..o /\ \A a \in t + 1..o : w[a] = f[a]
  BY <1>5 DEF Words
<1>8. t \in Low(s)..Base(s) /\ t \in Int /\ t <= o
  BY <1>1, <1>2, <1>3
<1>9. w \in [t + 1..o -> Contents]
  <2>1. \A a \in t + 1..o : a \in Int /\ a >= -1 /\ a <= Base(s)
    BY <1>2, <1>8
  <2>2. \A a \in t + 1..o : a \in Addr
    BY <2>1, <1>2
  <2>3. f \in [Addr -> Values]
    BY FrameTyped
  <2>4. QED BY <1>5, <2>2, <2>3 DEF Words, Contents
<1>10. \A a \in cpu'.optop + 1..Base(s) :
          Visible(cpu', a) = IF a \in DOMAIN w THEN w[a] ELSE Word(a)
  <2>1. SUFFICES ASSUME NEW a \in t + 1..Base(s)
                 PROVE  Visible(cpu', a) = IF a \in DOMAIN w THEN w[a] ELSE Word(a)
    BY <1>3
  <2>2. a \in Int /\ a > t /\ a <= Base(s) /\ a >= -1
    BY <1>2, <1>8
  <2>3. a \in Addr
    BY <1>2, <2>2
  <2>4. ~(a <= o) => Word(a) = Visible(cpu, a)
    BY <1>2, <2>2 DEF Word, InUse
  <2>5. a \in DOMAIN w <=> a <= o
    BY <1>2, <1>7, <1>8, <2>2
  <2>6. QED BY <1>3, <1>7, <2>2, <2>3, <2>4, <2>5
<1>11. \A a \in Low(1 - s) + 1..Base(1 - s) :
          a \notin DOMAIN w /\ cpu'.mem[a] = cpu.mem[a]
  <2>1. SUFFICES ASSUME NEW a \in Low(1 - s) + 1..Base(1 - s)
                 PROVE  a \notin DOMAIN w /\ cpu'.mem[a] = cpu.mem[a]
    OBVIOUS
  <2>2. /\ a \in Addr /\ a \in Int /\ a \notin Low(s) + 1..Base(s)
        /\ a <= Low(s) - Gap \/ a > Base(s) + Gap
    BY <1>2, WordPlaces
  <2>3. QED BY <1>2, <1>3, <1>7, <1>8, <2>2 DEF SameElsewhere
<1>12. Stack!Becomes(cpu'.optop, w)
  BY <1>1, <1>4, <1>10, <1>11, BecomesEffect
<1>13. topOf[s] = o
  BY <1>2 DEF topOf
<1>14. /\ Stack!Becomes(topOf[s] - TrapWords, op'.words)
       /\ op'.words \in [topOf[s] - TrapWords + 1..topOf[s] -> Contents]
  <2>1. topOf[s] - TrapWords = cpu'.optop
    BY <1>3, <1>13
  <2>2. op'.words \in [t + 1..topOf[s] -> Contents]
    BY <1>6, <1>9, <1>13
  <2>3. op'.words \in [topOf[s] - TrapWords + 1..topOf[s] -> Contents]
    BY <2>2, <1>13
  <2>4. QED BY <2>1, <2>3, <1>6, <1>12 DEF Stack!Becomes
<1>15. Stack!Push(TrapWords)
  BY <1>6, <1>14 DEF Stack!Push, Stack!Writes, topOf
<1>16. QED BY <1>4, <1>15, TrapNext

(* The debugger writes a word of memory.                                   *)
LEMMA PokeEffect ==
    ASSUME Inv, cpu.dre, NEW a \in Addr, NEW v \in Values, sim_write(a, v)
    PROVE  /\ Inv'
           /\ cpu' \in Cpu /\ cpu'.optop = cpu.optop
           /\ cpu'.scBottom = cpu.scBottom /\ cpu'.sCacheMem = cpu.sCacheMem
           /\ cpu'.mem = [cpu.mem EXCEPT ![a] = v]
           /\ cpu.mem \in [Addr -> Values]
<1>1. /\ cpu' = [cpu EXCEPT !.mem[a] = v]
      /\ thread' = thread /\ parked' = parked
  BY DEF sim_write
<1>2. /\ thread \in Stacks /\ Ready(cpu, thread) /\ cpu \in Cpu
      /\ parked \in Low(1 - thread)..Base(1 - thread)
  BY InvFacts
<1>3. /\ cpu' \in Cpu /\ SameRest(cpu, cpu') /\ cpu'.optop = cpu.optop
      /\ cpu'.scBottom = cpu.scBottom /\ cpu'.sCacheMem = cpu.sCacheMem
      /\ cpu'.mem = [cpu.mem EXCEPT ![a] = v]
      /\ cpu.mem \in [Addr -> Values]
  <2>1. cpu.mem \in [Addr -> Values] /\ [cpu.mem EXCEPT ![a] = v] \in [Addr -> Values]
    BY <1>2, CpuTyped
  <2>2. PICK g \in [Addr -> Values] : g = [cpu.mem EXCEPT ![a] = v]
    BY <2>1
  <2>3. cpu' = [cpu EXCEPT !.mem = g]
    BY <1>1, <2>2
  <2>4. QED BY <2>1, <2>2, <2>3, <1>2 DEF Cpu, SameRest
<1>4. Inv'
  <2>1. Ready(cpu', thread)
    BY <1>2, <1>3, SameReady
  <2>2. QED BY <2>1, <1>1, <1>2, ReadyInvNext
<1>5. QED BY <1>3, <1>4

LEMMA PokeSteps ==
    ASSUME ~PokeCached, Inv, cpu.dre, NEW a \in Addr, NEW v \in Values,
           sim_write(a, v)
    PROVE  Stack!Next
<1> DEFINE s == thread
           o == cpu.optop
<1>1. /\ a \in o + 1..Base(s) \/ a \in parked + 1..Base(1 - s)
      /\ ~Hits(cpu, a)
      /\ op' = Wrote("poke", a, v)
      /\ thread' = s /\ parked' = parked
  BY DEF sim_write, InUse
<1>2. /\ s \in Stacks /\ 1 - s \in Stacks /\ Ready(cpu, s)
      /\ o \in Low(s)..Base(s) /\ o \in Int
      /\ parked \in Low(1 - s)..Base(1 - s)
      /\ Low(s) \in Nat /\ Base(s) \in Nat /\ Low(1 - s) \in Nat /\ Base(1 - s) \in Nat
      /\ \A x \in Int : x >= -1 /\ x <= Base(s) => x \in Addr
  BY InvFacts, Geometry DEF Ready, Loose
<1>3. /\ Inv' /\ cpu'.optop = o
      /\ cpu'.scBottom = cpu.scBottom /\ cpu'.sCacheMem = cpu.sCacheMem
      /\ cpu'.mem = [cpu.mem EXCEPT ![a] = v]
      /\ cpu.mem \in [Addr -> Values]
  BY PokeEffect
<1>4. PICK w : w = [b \in {a} |-> v]
  OBVIOUS
<1>5. /\ DOMAIN w = {a} /\ w[a] = v /\ w \in [{a} -> Contents]
      /\ op'.kind = "poke" /\ op'.words = w
  BY <1>1, <1>4 DEF Wrote, Contents
<1>6. \A x \in Addr : Visible(cpu', x) = IF x = a THEN v ELSE Visible(cpu, x)
  BY <1>1, <1>3 DEF Visible, Hits
<1>7. ASSUME NEW x \in cpu'.optop + 1..Base(s)
      PROVE  Visible(cpu', x) = IF x \in DOMAIN w THEN w[x] ELSE Word(x)
  <2>1. x \in Int /\ x \in o + 1..Base(s) /\ x >= -1 /\ x <= Base(s)
    BY <1>2, <1>3
  <2>2. x \in Addr /\ Word(x) = Visible(cpu, x)
    BY <1>2, <2>1 DEF Word, InUse
  <2>3. QED BY <1>5, <1>6, <2>2
<1>8. ASSUME NEW x \in Low(1 - s) + 1..Base(1 - s)
      PROVE  IF x \in DOMAIN w THEN x > parked /\ cpu'.mem[x] = w[x]
                               ELSE cpu'.mem[x] = cpu.mem[x]
  <2>1. x \in Addr /\ x \in Int /\ x \notin Low(s) + 1..Base(s)
    BY <1>2, WordPlaces
  <2>2. x = a => x > parked
    BY <1>1, <1>2, <2>1
  <2>3. QED BY <1>3, <1>5, <2>1, <2>2
<1>9. Stack!Becomes(cpu'.optop, w)
  BY <1>1, <1>3, <1>7, <1>8, BecomesEffect
<1>10. topOf[s] = o /\ topOf[1 - s] = parked
  BY <1>2, Geometry DEF topOf
<1>11. a \in Stack!Live(0) \cup Stack!Live(1) /\ a \in Stack!Words
  <2>1. a \in Stack!Live(s) \/ a \in Stack!Live(1 - s)
    BY <1>1, <1>2, <1>10, StackGeometry DEF Stack!Live, topOf
  <2>2. (s = 0 /\ 1 - s = 1) \/ (s = 1 /\ 1 - s = 0)
    BY <1>2 DEF Stacks
  <2>3. a \in Low(s) + 1..Base(s) \/ a \in Low(1 - s) + 1..Base(1 - s)
    BY <1>1, <1>2
  <2>4. QED BY <2>1, <2>2, <2>3, <1>2, WordPlaces, StackGeometry
<1>12. Stack!Poke(a)
  <2>1. Stack!Becomes(topOf[s], op'.words)
    BY <1>3, <1>5, <1>9, <1>10 DEF Stack!Becomes
  <2>2. QED BY <2>1, <1>5, <1>11 DEF Stack!Poke, Stack!Writes, topOf
<1>13. QED BY <1>11, <1>12 DEF Stack!Next

-----------------------------------------------------------------------------
(***************************************************************************)
(* The room a method call makes for its locals, by induction on their      *)
(* number.                                                                 *)
(***************************************************************************)
LEMMA LeastNat ==
    ASSUME NEW T, T \subseteq Nat, T # {}
    PROVE  \E x \in T : \A y \in T : x <= y
<1> DEFINE R == StrictSubsetOrdering(Nat)
           F == FiniteSubsetsOf(Nat)
           B == {0..x : x \in T}
<1>1. IsWellFoundedOn(R, F)
  BY FS_StrictSubsetOrderingWellFounded
<1>2. B \subseteq F
  <2>1. SUFFICES ASSUME NEW x \in T PROVE 0..x \in F
    OBVIOUS
  <2>2. x \in Nat /\ 0..x \subseteq Nat
    OBVIOUS
  <2>3. IsFiniteSet(0..x)
    BY <2>2, FS_Interval
  <2>4. QED BY <2>2, <2>3 DEF FiniteSubsetsOf
<1>3. B # {}
  OBVIOUS
<1>4. PICK b \in B : \A d \in B : <<d, b>> \notin R
  <2> HIDE DEF R, F, B
  <2>1. QED BY <1>1, <1>2, <1>3, WFMin
<1>5. PICK x \in T : b = 0..x
  OBVIOUS
<1>6. ASSUME NEW y \in T PROVE x <= y
  <2>1. x \in Nat /\ y \in Nat
    OBVIOUS
  <2>2. <<0..y, 0..x>> \notin R
    BY <1>4, <1>5
  <2>3. ASSUME y < x PROVE 0..y \subseteq 0..x /\ 0..y # 0..x
    <3>1. x \in 0..x /\ x \notin 0..y
      BY <2>1, <2>3
    <3>2. QED BY <2>1, <2>3, <3>1
  <2>4. 0..x \in SUBSET Nat /\ 0..y \in SUBSET Nat
    BY <2>1
  <2>5. QED BY <2>1, <2>2, <2>3, <2>4 DEF StrictSubsetOrdering
<1>7. QED BY <1>6

LEMMA Induction ==
    ASSUME NEW S, 0 \in S, \A n \in Nat : n \in S => n + 1 \in S
    PROVE  Nat \subseteq S
<1> SUFFICES ASSUME Nat \ S # {} PROVE FALSE
  OBVIOUS
<1>1. PICK x \in Nat \ S : \A y \in Nat \ S : x <= y
  BY LeastNat
<1>2. x # 0 /\ x - 1 \in Nat /\ x - 1 \notin Nat \ S
  BY <1>1
<1>3. QED BY <1>2

(* The recursive function of Room exists.                                  *)
LEMMA RoomExists ==
    ASSUME NEW c, NEW n \in Nat
    PROVE  \E g : /\ g = [i \in 0..n |-> IF i = 0 THEN c
                            ELSE vUpdateOptop(g[i - 1], g[i - 1].optop - 1, FALSE)]
                  /\ Room(c, n) = g[n]
<1> DEFINE q == FALSE
           next(x) == vUpdateOptop(x, x.optop - 1, q)
           S == {k \in Nat : \E g : g = [i \in 0..k |-> IF i = 0 THEN c ELSE next(g[i - 1])]}
<1> HIDE DEF next
<1>1. 0 \in S
  <2> DEFINE g == [i \in 0..0 |-> c]
  <2>1. g = [i \in 0..0 |-> IF i = 0 THEN c ELSE next(g[i - 1])]
    OBVIOUS
  <2> HIDE DEF g
  <2>2. QED BY <2>1
<1>2. ASSUME NEW k \in Nat, k \in S PROVE k + 1 \in S
  <2>1. PICK g : g = [i \in 0..k |-> IF i = 0 THEN c ELSE next(g[i - 1])]
    BY <1>2
  <2> DEFINE h == [i \in 0..k + 1 |-> IF i = k + 1 THEN next(g[k]) ELSE g[i]]
  <2>2. ASSUME NEW i \in 0..k + 1
        PROVE  h[i] = IF i = 0 THEN c ELSE next(h[i - 1])
    <3>1. CASE i = 0
      <4>1. i # k + 1 /\ i \in 0..k
        BY <3>1
      <4>2. QED BY <2>1, <3>1, <4>1
    <3>2. CASE i # 0 /\ i # k + 1
      <4>1. i \in 0..k /\ i - 1 \in 0..k + 1 /\ i - 1 # k + 1
        BY <3>2
      <4>2. h[i] = g[i] /\ h[i - 1] = g[i - 1]
        BY <3>2, <4>1
      <4>3. g[i] = next(g[i - 1])
        BY <2>1, <3>2, <4>1
      <4>4. QED BY <3>2, <4>2, <4>3
    <3>3. CASE i = k + 1
      <4>1. i # 0 /\ i - 1 = k /\ k \in 0..k + 1 /\ k # k + 1
        BY <3>3
      <4>2. h[i] = next(g[k]) /\ h[i - 1] = g[k]
        BY <3>3, <4>1
      <4>3. QED BY <4>1, <4>2
    <3>4. QED BY <3>1, <3>2, <3>3
  <2>3. h = [i \in 0..k + 1 |-> h[i]]
    OBVIOUS
  <2> HIDE DEF h
  <2>4. h = [i \in 0..k + 1 |-> IF i = 0 THEN c ELSE next(h[i - 1])]
    BY <2>2, <2>3
  <2>5. QED BY <2>4
<1>3. n \in S
  <2> HIDE DEF S
  <2>1. Nat \subseteq S
    BY <1>1, <1>2, Induction
  <2>2. QED BY <2>1
<1>4. PICK h : h = [i \in 0..n |-> IF i = 0 THEN c ELSE next(h[i - 1])]
  BY <1>3
<1>5. h = [i \in 0..n |-> IF i = 0 THEN c
                          ELSE vUpdateOptop(h[i - 1], h[i - 1].optop - 1, FALSE)]
  BY <1>4 DEF next
<1> DEFINE d[i \in 0..n] == IF i = 0 THEN c
                            ELSE vUpdateOptop(d[i - 1], d[i - 1].optop - 1, FALSE)
<1>6. d = [i \in 0..n |-> IF i = 0 THEN c
                          ELSE vUpdateOptop(d[i - 1], d[i - 1].optop - 1, FALSE)]
  BY <1>5
<1>7. Room(c, n) = d[n]
  BY DEF Room
<1> HIDE DEF d
<1>8. QED BY <1>6, <1>7

LEMMA RoomEffect ==
    ASSUME Broken = {}, NEW s \in Stacks, NEW c, Ready(c, s),
           NEW n \in Nat, c.optop - n >= Low(s), ~Refused(c, c.optop - n),
           NEW e, e = Room(c, n)
    PROVE  /\ Ready(e, s) /\ SameRest(c, e) /\ e.optop = c.optop - n
           /\ \A a \in Addr : a > c.optop => Visible(e, a) = Visible(c, a)
           /\ SameElsewhere(c, e, s)
<1> DEFINE o == c.optop
           Good(k, x) == /\ Ready(x, s) /\ SameRest(c, x) /\ x.optop = o - k
                         /\ \A a \in Addr : a > o => Visible(x, a) = Visible(c, a)
                         /\ SameElsewhere(c, x, s)
<1>1. PICK g : /\ g = [i \in 0..n |-> IF i = 0 THEN c
                            ELSE vUpdateOptop(g[i - 1], g[i - 1].optop - 1, FALSE)]
               /\ e = g[n]
  BY RoomExists
<1>2. /\ o \in Int /\ o <= Base(s) /\ o >= Low(s) /\ Low(s) \in Nat /\ Base(s) \in Nat
      /\ c.oplim \in Int
      /\ c.limited => o - n >= c.oplim
  <2>1. Loose(c, s) /\ c.optop \in Low(s)..Base(s)
    BY DEF Ready, Loose
  <2>2. c.optop \in Int /\ c.oplim \in Int /\ Low(s) \in Nat /\ Base(s) \in Nat
    BY <2>1, LooseTyped, Geometry
  <2>3. QED BY <2>1, <2>2 DEF Refused
<1> DEFINE S == {k \in Nat : k <= n => Good(k, g[k])}
<1> HIDE DEF Good
<1>3. 0 \in S
  <2>1. g[0] = c
    BY <1>1
  <2>2. Good(0, c)
    <3>1. c.optop = o - 0
      BY <1>2
    <3>2. SameRest(c, c) /\ SameElsewhere(c, c, s)
      BY DEF SameRest, SameElsewhere
    <3>3. QED BY <3>1, <3>2 DEF Good
  <2>3. QED BY <2>1, <2>2
<1>4. ASSUME NEW k \in Nat, k \in S PROVE k + 1 \in S
  <2>1. SUFFICES ASSUME k + 1 <= n PROVE Good(k + 1, g[k + 1])
    OBVIOUS
  <2>2. Good(k, g[k]) /\ k + 1 \in 0..n /\ k + 1 # 0 /\ (k + 1) - 1 = k
    BY <1>4, <2>1
  <2> DEFINE q == FALSE
             x == g[k]
             value == x.optop - 1
             y == vUpdateOptop(x, value, q)
  <2>3. g[k + 1] = y
    BY <1>1, <2>2
  <2>4. y = vUpdateOptop(x, value, q) /\ q \in BOOLEAN /\ ~q
    OBVIOUS
  <2>5. /\ Ready(x, s) /\ SameRest(c, x) /\ x.optop = o - k
        /\ \A a \in Addr : a > o => Visible(x, a) = Visible(c, a)
        /\ SameElsewhere(c, x, s)
    BY <2>2 DEF Good
  <2>6. value = o - (k + 1) /\ value \in Low(s)..Base(s)
    BY <1>2, <2>1, <2>5
  <2> HIDE DEF q, x, value, y
  <2>7. ~Refused(x, value)
    <3>1. x.limited = c.limited /\ x.oplim = c.oplim
      BY <2>5 DEF SameRest
    <3>2. c.limited => ~(c.oplim > value)
      BY <1>2, <2>1, <2>6
    <3>3. QED BY <3>1, <3>2 DEF Refused
  <2>8. /\ Ready(y, s) /\ SameRest(x, y) /\ y.optop = value
        /\ \A a \in Addr : a > value /\ (a > x.optop \/ value >= x.scBottom - SCACHE_SIZE)
                             => Visible(y, a) = Visible(x, a)
        /\ SameElsewhere(x, y, s)
    <3>1. Loose(x, s) /\ x.dre
      BY <2>5 DEF Ready
    <3>2. QED BY <2>4, <2>6, <2>7, <3>1, MoveEffect
  <2>9. \A a \in Addr : a > o => Visible(y, a) = Visible(c, a)
    <3>1. \A a \in Addr : a > o => a > value /\ a > x.optop
      BY <1>2, <2>5, <2>6, AddrIsInt
    <3>2. QED BY <2>5, <2>8, <3>1
  <2>10. SameRest(c, y) /\ SameElsewhere(c, y, s)
    BY <2>5, <2>8 DEF SameRest, SameElsewhere
  <2>11. QED BY <2>3, <2>6, <2>8, <2>9, <2>10 DEF Good
<1>5. n \in S
  <2> HIDE DEF S
  <2>1. Nat \subseteq S
    BY <1>3, <1>4, Induction
  <2>2. QED BY <2>1
<1>6. Good(n, e)
  <2>1. n <= n
    OBVIOUS
  <2>2. Good(n, g[n])
    BY ONLY <1>5, <2>1
  <2>3. QED BY <1>1, <2>2
<1>7. QED BY <1>6 DEF Good

(* A method call.                                                          *)
LEMMA CallSteps ==
    ASSUME Broken = {}, Inv, cpu.dre, NEW l \in Locals, setupMethodCall(l)
    PROVE  Inv' /\ Stack!Next
<1> DEFINE s == thread
           o == cpu.optop
           q == FALSE
           new == o - l - FrameWords
           c == vUpdateOptop(cpu, new, q)
           b == vUpdateOptop(c, o, q)
           d == Room(b, l)
           W == new + 1..d.optop
<1>1. PICK f \in Frames :
         LET e == IF c.eid # NO_EXCEPTION THEN c
                  ELSE vUpdateOptop(WriteAll(d, W, f), new, q)
         IN  Stays(e, [kind |-> "push",
                       words |-> [a \in new + 1..o |->
                                     IF a <= d.optop THEN f[a] ELSE Visible(e, a)]])
  BY DEF setupMethodCall
<1> DEFINE g == WriteAll(d, W, f)
           m == vUpdateOptop(g, new, q)
           e == IF c.eid # NO_EXCEPTION THEN c ELSE m
           w == [a \in new + 1..o |-> IF a <= d.optop THEN f[a] ELSE Visible(e, a)]
           done == [kind |-> "push", words |-> w]
<1>2. Stays(e, done) /\ new >= Low(s)
  BY <1>1 DEF setupMethodCall
<1>3. /\ q \in BOOLEAN /\ ~q /\ new = o - l - FrameWords
      /\ c = vUpdateOptop(cpu, new, q) /\ b = vUpdateOptop(c, o, q)
      /\ d = Room(b, l) /\ W = new + 1..d.optop
  OBVIOUS
<1>4. /\ g = WriteAll(d, W, f) /\ m = vUpdateOptop(g, new, q)
      /\ e = IF c.eid # NO_EXCEPTION THEN c ELSE m
      /\ done.kind = "push" /\ done.words = w /\ done.kind # "switch"
  OBVIOUS
<1>5. w = [a \in new + 1..o |-> IF a <= d.optop THEN f[a] ELSE Visible(e, a)]
  OBVIOUS
<1> HIDE DEF q, new, c, b, d, W, g, m, e, w, done
<1>6. /\ s \in Stacks /\ Ready(cpu, s) /\ Loose(cpu, s) /\ cpu \in Cpu /\ cpu.dre
      /\ cpu.eid = NO_EXCEPTION /\ o \in Int /\ o >= Low(s) /\ o <= Base(s)
      /\ cpu.limited => o >= cpu.oplim
  BY InvFacts
<1>7. /\ Low(s) \in Nat /\ Base(s) \in Nat /\ cpu.oplim \in Int
      /\ l \in Nat /\ FrameWords \in Nat /\ FrameWords >= 1
      /\ \A a \in Int : a >= -1 /\ a <= Base(s) => a \in Addr
  BY InvFacts, StackCacheAssumption
<1>8. /\ new \in Int /\ new \in Low(s)..Base(s) /\ new < o
      /\ o - l \in Int /\ o - l >= Low(s) /\ o - l = new + FrameWords /\ new < o - l
      /\ o - l <= o
  BY <1>2, <1>3, <1>6, <1>7
<1>9. CASE Refused(cpu, new)
  <2>1. Undone(cpu, c, s) /\ c.saved.optop = o
    BY <1>3, <1>6, <1>9, RefusedEffect
  <2>2. e = c
    BY <1>4, <2>1 DEF Undone
  <2>3. QED BY <1>2, <1>4, <2>1, <2>2, StaysTrap, TrapNext
<1>10. CASE ~Refused(cpu, new)
  <2>1. cpu.limited => cpu.oplim <= new
    BY <1>7, <1>8, <1>10 DEF Refused
  <2>2. /\ Ready(c, s) /\ SameRest(cpu, c) /\ c.optop = new
        /\ \A a \in Addr : a > new /\ (a > cpu.optop \/ new >= cpu.scBottom - SCACHE_SIZE)
                             => Visible(c, a) = Visible(cpu, a)
        /\ SameElsewhere(cpu, c, s)
    BY <1>3, <1>6, <1>8, <1>10, MoveEffect
  <2>3. /\ Loose(c, s) /\ c.dre /\ c.limited = cpu.limited /\ c.oplim = cpu.oplim
        /\ c.eid = NO_EXCEPTION
    BY <2>2 DEF Ready, Loose, SameRest
  <2>4. ~Refused(c, o) /\ o \in Low(s)..Base(s)
    BY <1>6, <1>7, <2>3 DEF Refused
  <2>5. /\ Ready(b, s) /\ SameRest(c, b) /\ b.optop = o
        /\ \A a \in Addr : a > o /\ (a > c.optop \/ o >= c.scBottom - SCACHE_SIZE)
                             => Visible(b, a) = Visible(c, a)
        /\ SameElsewhere(c, b, s)
    BY <1>3, <1>6, <2>3, <2>4, MoveEffect
  <2>6. b.limited = cpu.limited /\ b.oplim = cpu.oplim
    BY <2>3, <2>5 DEF SameRest
  <2>7. b.optop - l = o - l /\ b.optop - l >= Low(s) /\ ~Refused(b, b.optop - l)
    <3>1. b.optop - l = o - l
      BY <2>5
    <3>2. cpu.limited => ~(cpu.oplim > o - l)
      BY <1>6, <1>7, <1>8, <2>1
    <3>3. QED BY <3>1, <3>2, <1>8, <2>6 DEF Refused
  <2>8. /\ Ready(d, s) /\ SameRest(b, d) /\ d.optop = o - l
        /\ \A a \in Addr : a > o => Visible(d, a) = Visible(b, a)
        /\ SameElsewhere(b, d, s)
    <3>1. /\ Ready(d, s) /\ SameRest(b, d) /\ d.optop = b.optop - l
          /\ \A a \in Addr : a > b.optop => Visible(d, a) = Visible(b, a)
          /\ SameElsewhere(b, d, s)
      BY <1>3, <1>6, <1>7, <2>5, <2>7, RoomEffect
    <3>2. QED BY <3>1, <2>5
  <2>9. /\ d \in Cpu /\ d.eid = NO_EXCEPTION /\ d.limited = cpu.limited
        /\ d.oplim = cpu.oplim
    BY <2>6, <2>8 DEF Ready, Loose, SameRest
  <2>10. W = new + 1..o - l /\ W \in SUBSET Addr
    <3>1. W = new + 1..o - l
      BY <1>3, <2>8
    <3>2. \A a \in W : a \in Int /\ a >= -1 /\ a <= Base(s)
      BY <1>6, <1>7, <1>8, <3>1
    <3>3. QED BY <1>7, <3>1, <3>2
  <2>11. /\ g \in Cpu /\ SameRest(d, g) /\ g.optop = d.optop /\ g.scBottom = d.scBottom
         /\ \A a \in Addr : Visible(g, a) = IF a \in W THEN f[a] ELSE Visible(d, a)
         /\ \A a \in Addr \ W : g.mem[a] = d.mem[a]
    <3>1. f \in [Addr -> Values]
      BY FrameTyped
    <3>2. /\ g = WriteAll(d, W, f) /\ W \in SUBSET Addr /\ d \in Cpu
          /\ d.eid = NO_EXCEPTION
      BY <1>4, <2>9, <2>10
    <3>3. QED BY <3>1, <3>2, WriteAllEffect
  <2>12. Ready(g, s) /\ Loose(g, s) /\ g.dre
    <3>1. Ready(g, s)
      BY <2>8, <2>11, SameReady
    <3>2. QED BY <3>1 DEF Ready
  <2>13. ~Refused(g, new)
    <3>1. g.limited = cpu.limited /\ g.oplim = cpu.oplim
      BY <2>9, <2>11 DEF SameRest
    <3>2. QED BY <3>1, <1>10 DEF Refused
  <2>14. /\ Ready(m, s) /\ m.optop = new /\ SameElsewhere(g, m, s)
         /\ \A a \in Addr : a > new /\ (a > g.optop \/ new >= g.scBottom - SCACHE_SIZE)
                              => Visible(m, a) = Visible(g, a)
    BY <1>3, <1>4, <1>6, <1>8, <2>12, <2>13, MoveEffect
  <2>15. new >= g.scBottom - SCACHE_SIZE
    <3>1. g.scBottom - g.optop \in g.fill..g.spill /\ g \in Cpu /\ Marked(g)
      BY <2>12 DEF Ready, Loose
    <3>2. /\ g.spill + FrameWords <= SCACHE_SIZE /\ g.spill \in Nat /\ g.fill \in Nat
          /\ g.scBottom \in Int /\ SCACHE_SIZE \in Nat
      BY <3>1, MarkBounds, CpuTyped, SizePositive
    <3>3. g.optop = new + FrameWords
      BY <1>8, <2>8, <2>11
    <3>4. QED BY <3>1, <3>2, <3>3, <1>7, <1>8
  <2>16. e = m
    BY <1>4, <2>3
  <2>17. SameElsewhere(cpu, e, s)
    <3>1. SameElsewhere(d, g, s)
      <4>1. SUFFICES ASSUME NEW a \in Addr, a <= Low(s) - Gap \/ a > Base(s) + Gap
                     PROVE  a \notin W
        BY <2>11 DEF SameElsewhere
      <4>2. Gap \in Nat
        BY InvFacts
      <4>3. QED BY <4>1, <4>2, <1>6, <1>7, <1>8, <2>10, AddrIsInt
    <3>2. QED BY <3>1, <2>2, <2>5, <2>8, <2>14, <2>16 DEF SameElsewhere
  <2>18. /\ DOMAIN w = new + 1..o
         /\ \A a \in new + 1..o : w[a] = IF a <= o - l THEN f[a] ELSE Visible(e, a)
    BY <1>5, <2>8
  <2>19. ASSUME NEW a \in e.optop + 1..Base(s)
         PROVE  Visible(e, a) = IF a \in DOMAIN w THEN w[a] ELSE Word(a)
    <3>1. a \in Int /\ a > new /\ a <= Base(s) /\ a >= -1
      BY <1>7, <1>8, <2>14, <2>16
    <3>2. a \in Addr
      BY <1>7, <3>1
    <3>3. Visible(e, a) = Visible(g, a)
      BY <2>14, <2>15, <2>16, <3>1, <3>2
    <3>4. CASE a <= o - l
      <4>1. a \in W /\ a \in new + 1..o
        BY <1>8, <1>6, <2>10, <3>1, <3>4
      <4>2. QED BY <2>11, <2>18, <3>2, <3>3, <3>4, <4>1
    <3>5. CASE ~(a <= o - l) /\ a <= o
      <4>1. a \in new + 1..o
        BY <1>6, <1>8, <3>1, <3>5
      <4>2. QED BY <2>18, <3>5, <4>1
    <3>6. CASE a > o
      <4>1. a \notin W /\ a \notin new + 1..o /\ a > c.optop
        BY <1>6, <1>8, <2>2, <2>10, <3>1, <3>6
      <4>2. Word(a) = Visible(cpu, a)
        BY <1>6, <3>1, <3>6 DEF Word, InUse
      <4>3. Visible(c, a) = Visible(cpu, a)
        BY <2>2, <3>1, <3>2, <3>6
      <4>4. Visible(b, a) = Visible(c, a)
        BY <2>5, <3>2, <3>6, <4>1
      <4>5. QED BY <2>8, <2>11, <2>18, <3>2, <3>3, <3>6, <4>1, <4>2, <4>3, <4>4
    <3>7. QED BY <1>6, <1>8, <3>1, <3>4, <3>5, <3>6
  <2>20. \A a \in DOMAIN w : a \in Low(s) + 1..Base(s)
    BY <1>6, <1>7, <1>8, <2>18
  <2>21. Inv' /\ op' = done /\ topOf[s] = o /\ Stack!Becomes(e.optop, w)
    <3>1. Ready(e, s) /\ Stays(e, done) /\ Broken = {} /\ Inv
      BY <1>2, <2>14, <2>16
    <3>2. PICK x : x = w
      OBVIOUS
    <3>3. PICK y : y = done
      OBVIOUS
    <3>4. /\ Stays(e, y) /\ Ready(e, s) /\ SameElsewhere(cpu, e, s)
          /\ \A a \in DOMAIN x : a \in Low(s) + 1..Base(s)
          /\ \A a \in e.optop + 1..Base(s) :
                Visible(e, a) = IF a \in DOMAIN x THEN x[a] ELSE Word(a)
      BY <3>1, <3>2, <3>3, <2>17, <2>19, <2>20
    <3>5. /\ Inv' /\ op' = y
          /\ topOf[thread] = cpu.optop /\ Stack!Becomes(e.optop, x)
      BY <3>4, StaysDone
    <3>6. QED BY <3>2, <3>3, <3>5 DEF Stack!Becomes
  <2>22. w \in [new + 1..o -> Contents]
    <3>1. \A a \in new + 1..o : a \in Int /\ a >= -1 /\ a <= Base(s)
      BY <1>6, <1>7, <1>8
    <3>2. \A a \in new + 1..o : a \in Addr
      BY <1>7, <3>1
    <3>3. f \in [Addr -> Values] /\ e \in Cpu
      BY <2>14, <2>16, FrameTyped DEF Ready, Loose
    <3>4. \A a \in new + 1..o : f[a] \in Values /\ Visible(e, a) \in Values
      BY <3>2, <3>3, VisibleTyped
    <3>5. QED BY <1>5, <3>4 DEF Contents
  <2>23. Stack!Push(l + FrameWords)
    <3>1. topOf[s] - (l + FrameWords) = e.optop /\ e.optop = new /\ topOf[s] = o
      BY <1>3, <1>6, <1>7, <2>14, <2>16, <2>21
    <3>2. op'.words \in [topOf[s] - (l + FrameWords) + 1..topOf[s] -> Contents]
      BY <1>4, <2>21, <2>22, <3>1
    <3>3. Stack!Becomes(topOf[s] - (l + FrameWords), op'.words)
      <4>1. op'.words = w
        BY <1>4, <2>21
      <4>2. QED BY <4>1, <2>21, <3>1 DEF Stack!Becomes
    <3>4. op'.kind = "push"
      BY <1>4, <2>21
    <3>5. QED BY <3>2, <3>3, <3>4 DEF Stack!Push, Stack!Writes, topOf
  <2>24. QED BY <2>21, <2>23 DEF Stack!Next
<1>11. QED BY <1>9, <1>10

-----------------------------------------------------------------------------
(***************************************************************************)
(* The initial state, and every step.                                      *)
(***************************************************************************)
LEMMA InitInv ==
    ASSUME Init
    PROVE  Inv /\ Stack!Init
<1>1. PICK m \in Marks :
       cpu = [optop |-> Base(0) - 1, scBottom |-> Base(0), fill |-> m[1], spill |-> m[2],
              dre |-> FALSE, oplim |-> 0, limited |-> FALSE,
              eid |-> NO_EXCEPTION, saved |-> NoState,
              sCacheMem |-> [i \in StackIndex |-> SCACHE_INIT_VALUE],
              mem |-> [a \in Addr |-> 0]]
  BY DEF Init
<1>2. thread = 0 /\ parked = Base(1) /\ op = [kind |-> "none"]
  BY DEF Init
<1>3. /\ 0 \in Stacks /\ 1 - 0 = 1 /\ Low(0) = 0 /\ Base(0) = Depth
      /\ Depth \in Nat /\ Depth > 0 /\ Gap \in Nat
      /\ Base(1) \in Nat /\ Low(1) \in Nat /\ Low(1) <= Base(1) /\ Low(1) >= Depth
      /\ \A a \in Int : a >= -1 /\ a <= Base(0) => a \in Addr
  BY StackCacheAssumption, AddrBounds DEF Stacks, Low, Base
<1>4. /\ m = <<m[1], m[2]>> /\ m[1] \in Nat /\ m[2] \in Nat
      /\ 2 <= m[1] /\ m[1] <= m[2] /\ m[2] < Gap /\ m[2] + 2 <= SCACHE_SIZE
      /\ SCACHE_SIZE \in Nat
  BY StackCacheAssumption
<1>5. /\ cpu.optop = Depth - 1 /\ cpu.scBottom = Depth /\ cpu.fill = m[1] /\ cpu.spill = m[2]
      /\ ~cpu.dre /\ ~cpu.limited /\ cpu.eid = NO_EXCEPTION
      /\ cpu.sCacheMem = [i \in StackIndex |-> SCACHE_INIT_VALUE]
      /\ cpu.mem = [a \in Addr |-> 0]
  BY <1>1, <1>3
<1>6. cpu \in Cpu
  <2> DEFINE no == FALSE
  <2>1. /\ no \in BOOLEAN /\ NO_EXCEPTION \in Int /\ NoState \in [optop : Int, scBottom : Int]
        /\ [i \in StackIndex |-> SCACHE_INIT_VALUE] \in [StackIndex -> Values]
        /\ [a \in Addr |-> 0] \in [Addr -> Values]
        /\ Base(0) \in Int /\ Base(0) - 1 \in Int
    BY <1>3, StackCacheAssumption DEF NO_EXCEPTION, NoState
  <2>2. PICK h \in [StackIndex -> Values] : h = [i \in StackIndex |-> SCACHE_INIT_VALUE]
    BY <2>1
  <2>3. PICK g \in [Addr -> Values] : g = [a \in Addr |-> 0]
    BY <2>1
  <2>4. cpu = [optop |-> Base(0) - 1, scBottom |-> Base(0), fill |-> m[1], spill |-> m[2],
               dre |-> no, oplim |-> 0, limited |-> no,
               eid |-> NO_EXCEPTION, saved |-> NoState, sCacheMem |-> h, mem |-> g]
    BY <1>1, <2>2, <2>3
  <2> HIDE DEF no
  <2>5. QED BY <2>1, <2>4, <1>4 DEF Cpu
<1>7. Inv
  <2>1. Marked(cpu)
    BY <1>4, <1>5 DEF Marked
  <2>2. /\ cpu.optop \in Low(0)..Base(0)
        /\ cpu.scBottom - cpu.optop \in 0..SCACHE_SIZE /\ cpu.scBottom - cpu.optop < Gap
        /\ cpu.scBottom - cpu.optop <= cpu.spill
    BY <1>3, <1>4, <1>5
  <2>3. Loose(cpu, 0)
    BY <1>5, <1>6, <2>1, <2>2 DEF Loose
  <2>4. parked \in Low(1 - thread)..Base(1 - thread)
    BY <1>2, <1>3
  <2>5. QED BY <1>2, <1>3, <1>5, <2>2, <2>3, <2>4 DEF Inv
<1>8. topOf = [x \in Stacks |-> IF x = 0 THEN Base(x) - 1 ELSE Base(x)]
  <2>1. \A x \in Stacks : x = 0 \/ x = 1
    BY DEF Stacks
  <2>2. QED BY <1>2, <1>3, <1>5, <2>1 DEF topOf
<1>9. ASSUME NEW a \in AllWords
      PROVE  /\ Word(a) \in Contents \cup {Dead}
             /\ Word(a) = Dead <=> a # Base(0)
  <2>1. /\ \/ a \in Low(0) + 1..Base(0) \/ a \in Low(1) + 1..Base(1)
        /\ ~(a \in Low(0) + 1..Base(0) /\ a \in Low(1) + 1..Base(1))
        /\ a \in Int /\ a \in Addr
    BY <1>3, WordPlaces
  <2>2. Word(a) = IF a \in Depth - 1 + 1..Base(0) THEN Visible(cpu, a)
                  ELSE IF a \in Base(1) + 1..Base(1) THEN cpu.mem[a] ELSE Dead
    BY <1>2, <1>3, <1>5 DEF Word, InUse
  <2>3. CASE a = Base(0)
    <3>1. Word(a) = Visible(cpu, a)
      BY <1>3, <2>2, <2>3
    <3>2. Visible(cpu, a) \in Values /\ Dead \notin Values
      BY <1>6, <2>1, VisibleTyped, StackCacheAssumption
    <3>3. QED BY <2>3, <3>1, <3>2 DEF Contents
  <2>4. CASE a # Base(0)
    <3>1. a \notin Depth - 1 + 1..Base(0) /\ a \notin Base(1) + 1..Base(1)
      BY <1>3, <2>1, <2>4
    <3>2. QED BY <2>2, <2>4, <3>1
  <2>5. QED BY <2>3, <2>4
<1>10. /\ wordOf \in [AllWords -> Contents \cup {Dead}]
       /\ \A a \in AllWords : wordOf[a] = Dead <=> a # Base(0)
  BY <1>9 DEF wordOf
<1>11. Stack!Init
  <2>1. topOf = [x \in Stack!Stacks |-> IF x = 0 THEN Stack!Base(x) - 1 ELSE Stack!Base(x)]
    BY <1>8, StackGeometry
  <2>2. /\ wordOf \in [Stack!Words -> Contents \cup {Dead}]
        /\ \A a \in Stack!Words : wordOf[a] = Dead <=> a # Stack!Base(0)
    BY <1>3, <1>10, StackGeometry
  <2>3. QED BY <1>2, <2>1, <2>2 DEF Stack!Init, topOf, wordOf, AllWords
<1>12. QED BY <1>7, <1>11

LEMMA StepEffect ==
    ASSUME Broken = {}, Inv, Next
    PROVE  Inv' /\ (~PokeCached => Stack!Next)
<1>1. CASE \E m \in Marks : priv_write_psr(m)
  BY <1>1, WritePsrSteps
<1>2. CASE cpu.dre /\ \E n \in 1..2 : push(n) \/ pop(n)
  BY <1>2, PushSteps, PopSteps
<1>3. CASE cpu.dre /\ \E a \in InUse : iinc(a) \/ iload(a) \/ istore(a)
  BY <1>3, IincSteps, IloadSteps, IstoreSteps
<1>4. CASE cpu.dre /\ dup_x1
  BY <1>4, DupSteps
<1>5. CASE cpu.dre /\ \E l \in Locals : setupMethodCall(l)
  BY <1>5, CallSteps
<1>6. CASE cpu.dre /\ \E k \in 0..2, a \in InUse : returnK(k, a)
  BY <1>6, ReturnKSteps
<1>7. CASE cpu.dre /\ \E k \in 0..2, a \in InUse : \E f \in InUse : xreturn(k, a, f)
  BY <1>7, XreturnSteps
<1>8. CASE cpu.dre /\ \E a \in InUse, m \in Marks : priv_ret_from_trap(a, m)
  BY <1>8, RetFromTrapSteps
<1>9. CASE cpu.dre /\ \E v \in Limits : priv_write_oplim(v) \/ priv_update_optop(v)
  BY <1>9, WriteOplimSteps, UpdateOptopSteps
<1>10. CASE cpu.dre /\ write_optop
  BY <1>10, WriteOptopSteps
<1>11. CASE cpu.dre /\ trap
  BY <1>11, TrapSteps
<1>12. CASE cpu.dre /\ \E a \in Addr, v \in Values : sim_write(a, v)
  BY <1>12, PokeEffect, PokeSteps
<1>13. QED
  BY <1>1, <1>2, <1>3, <1>4, <1>5, <1>6, <1>7, <1>8, <1>9, <1>10, <1>11, <1>12 DEF Next

LEMMA StutterEffect ==
    ASSUME Inv, UNCHANGED <<vars, op>>
    PROVE  Inv' /\ UNCHANGED <<thread, topOf, wordOf, op>>
<1>1. cpu' = cpu /\ thread' = thread /\ parked' = parked /\ op' = op
  BY DEF vars
<1>2. Inv'
  BY <1>1 DEF Inv, Loose, Ready, Marked, Low, Base
<1>3. topOf' = topOf
  BY <1>1 DEF topOf
<1>4. wordOf' = wordOf
  BY <1>1 DEF wordOf, Word, InUse, Visible, Hits, Slot, AllWords, Low, Base
<1>5. QED BY <1>1, <1>2, <1>3, <1>4

(* Inv holds of every state that a program without a data read breakpoint  *)
(* reaches.                                                                *)
THEOREM InvHolds == ASSUME Broken = {} PROVE Spec => []Inv
<1>1. Init => Inv
  BY InitInv
<1>2. Inv /\ [Next]_<<vars, op>> => Inv'
  BY StepEffect, StutterEffect
<1>3. QED BY <1>1, <1>2, PTL DEF Spec

(* Types: OPTOP is in the stack in use, the bottom of the stack cache is   *)
(* at most its size below OPTOP, no instruction leaves an exception that   *)
(* nobody takes, and the marks are a pair the program has chosen           *)
(* (vUpdateSCache, vDespatchPendingException).                             *)
THEOREM TypeCorrect == ASSUME Broken = {} PROVE Spec => []TypeOK
<1>1. Inv => TypeOK
  <2>1. SUFFICES ASSUME Inv PROVE TypeOK
    OBVIOUS
  <2>2. Loose(cpu, thread)
    BY <2>1 DEF Inv
  <2>3. cpu.sCacheMem \in [StackIndex -> Contents] /\ cpu.mem \in [Addr -> Contents]
    BY <2>2, CpuTyped DEF Loose, Contents
  <2>4. QED BY <2>1, <2>2, <2>3 DEF Inv, Loose, Marked, TypeOK
<1>2. QED BY <1>1, InvHolds, PTL

(* docs/html/scache.html:37: the words at the offsets -1..Operands from    *)
(* OPTOP are in the stack cache whenever the dribbler is on, after every   *)
(* instruction, trap and change of stacks.                                 *)
THEOREM OffsetsCorrect == ASSUME Broken = {} PROVE Spec => []OffsetsHit
<1>1. Inv => OffsetsHit
  <2>1. SUFFICES ASSUME Inv, cpu.dre, NEW k \in -1..Operands
                 PROVE  Hits(cpu, cpu.optop + k)
    BY DEF OffsetsHit
  <2>2. /\ cpu \in Cpu /\ Marked(cpu) /\ thread \in Stacks /\ Loose(cpu, thread)
        /\ cpu.optop \in Int /\ cpu.scBottom \in Int
        /\ cpu.scBottom - cpu.optop + 2 <= SCACHE_SIZE
        /\ cpu.scBottom - cpu.optop \in cpu.fill..cpu.spill
    BY <2>1, InvFacts DEF Ready
  <2>3. Operands <= cpu.fill /\ Operands \in Nat
    BY <2>2, StackCacheAssumption DEF Marked
  <2>4. cpu.fill \in Nat /\ cpu.spill \in Nat /\ SCACHE_SIZE \in Nat
    BY <2>2, LooseTyped
  <2>5. cpu.optop + k <= cpu.scBottom /\ cpu.optop + k > cpu.scBottom - SCACHE_SIZE
    BY <2>2, <2>3, <2>4
  <2>6. QED BY <2>5 DEF Hits
<1>2. QED BY <1>1, InvHolds, PTL

(* An enabled limit is never passed: not by the moves of a method call     *)
(* before it is refused, not by a trap frame, which disables it, and not   *)
(* by a new limit (vUpdateGR of OPTOP and OPLIM, invoke_trap).             *)
THEOREM LimitCorrect == ASSUME Broken = {} PROVE Spec => []LimitHolds
<1>1. Inv => LimitHolds
  BY DEF Inv, Loose, LimitHolds
<1>2. QED BY <1>1, InvHolds, PTL

(* Without a data read breakpoint the dribbler leaves nothing unassigned   *)
(* in a live word.                                                         *)
THEOREM NothingLostCorrect == ASSUME Broken = {} PROVE Spec => []NothingLost
<1>1. Inv => NothingLost
  <2>1. SUFFICES ASSUME Inv, NEW a \in InUse PROVE Word(a) # Garbage
    BY DEF NothingLost
  <2>2. /\ thread \in Stacks /\ cpu \in Cpu /\ cpu.optop \in Low(thread)..Base(thread)
        /\ Low(thread) \in Nat /\ Base(thread) \in Nat
        /\ \A x \in Int : x >= -1 /\ x <= Base(thread) => x \in Addr
    BY <2>1, Geometry DEF Inv, Loose
  <2>3. a \in Int /\ a >= -1 /\ a <= Base(thread)
    BY <2>2 DEF InUse
  <2>4. Visible(cpu, a) \in Values
    BY <2>2, <2>3, VisibleTyped
  <2>5. QED BY <2>4, StackCacheAssumption DEF Word
<1>2. QED BY <1>1, InvHolds, PTL

(* The stack cache is transparent: every instruction, trap and change of   *)
(* stacks does to the live words of the two stacks what OperandStacks says *)
(* (scache.c, vUpdateGR, jvm_ops.c, setupMethodCall, invoke_trap).         *)
THEOREM StackRefined == ASSUME Broken = {}, ~PokeCached PROVE Spec => ImplementsStack
<1>1. Init => Stack!Init
  BY InitInv
<1>2. Inv /\ [Next]_<<vars, op>> => [Stack!Next]_<<thread, topOf, wordOf, op>>
  BY StepEffect, StutterEffect
<1>3. Spec => Stack!Init /\ [][Stack!Next]_<<thread, topOf, wordOf, op>>
  BY <1>1, <1>2, InvHolds, PTL DEF Spec
<1>4. QED BY <1>3, PTL DEF ImplementsStack, Stack!Spec, topOf, wordOf, AllWords
=============================================================================
