----------------------------- MODULE CachesProofs -----------------------------
(***************************************************************************)
(* Proof that code that has been flushed is fetched as it was stored       *)
(* (FlushedCodeIsFetched of module Caches), for any two caches and memory, *)
(* as long as there is a data cache: without one the flush stops in front  *)
(* of the instruction cache.                                               *)
(*                                                                         *)
(* The steps on the data cache are those of module DataCache, so that its  *)
(* invariant and its refinement carry over; a word of memory changes only  *)
(* to what the program sees before or after the step (MemoryFollows).  The *)
(* instruction cache changes in two ways: a line is dropped (Shrinks), or  *)
(* filled from memory.                                                     *)
(***************************************************************************)
EXTENDS Caches, DataCacheProofs

(***************************************************************************)
(* Addresses.                                                              *)
(***************************************************************************)
LEMMA DivDiv ==
    ASSUME NEW x \in Nat, NEW j \in Nat \ {0}, NEW k \in Nat \ {0}
    PROVE  (x \div j) \div k = x \div (j * k)
<1> DEFINE q == x \div j
           r == x % j
           p == q \div k
           s == q % k
           w == j * s + r
<1>1. q \in Nat /\ r \in 0..j - 1 /\ x = j * q + r
  BY DivMod
<1>2. p \in Nat /\ s \in 0..k - 1 /\ q = k * p + s
  BY <1>1, DivMod
<1>3. j * k \in Nat \ {0}
  OBVIOUS
<1> HIDE DEF q, r, p, s
<1>4. j * q = j * (k * p) + j * s
  BY <1>1, <1>2
<1>5. j * (k * p) = p * (j * k)
  BY <1>2
<1>6. w \in Nat /\ j * s \in Nat
  BY <1>1, <1>2
<1>7. w < j * k
  <2>1. j * s <= j * (k - 1)
    BY <1>2
  <2>2. j * (k - 1) = j * k - j
    OBVIOUS
  <2>3. QED BY <1>1, <1>3, <1>6, <2>1, <2>2
<1>8. w \in 0..j * k - 1
  BY <1>3, <1>6, <1>7
<1>9. x = p * (j * k) + w
  <2>1. j * q \in Nat /\ p * (j * k) \in Nat
    BY <1>1, <1>2
  <2>2. QED BY <1>1, <1>4, <1>5, <1>6, <2>1
<1> HIDE DEF w
<1>10. (p * (j * k) + w) \div (j * k) = p
  BY <1>2, <1>3, <1>8, DivUnique
<1>11. QED BY <1>9, <1>10 DEF p, q

(* A line of the instruction cache is part of one of the data cache.       *)
LEMMA SameDLine ==
    ASSUME NEW a \in Addr, NEW b \in Addr, a \div ILineWords = b \div ILineWords
    PROVE  a \div LineWords = b \div LineWords
<1> DEFINE k == LineWords \div ILineWords
<1>1. /\ LineWords \in Nat \ {0} /\ ILineWords \in Nat \ {0}
      /\ LineWords % ILineWords = 0 /\ a \in Nat /\ b \in Nat
  BY DataCacheAssumption, CachesAssumption DEF Addr
<1>2. k \in Nat /\ LineWords = ILineWords * k + (LineWords % ILineWords)
  BY <1>1, DivMod
<1> HIDE DEF k
<1>3. LineWords = ILineWords * k
  BY <1>1, <1>2
<1>4. k # 0
  BY <1>1, <1>3
<1>5. k \in Nat \ {0} /\ ILineWords \in Nat \ {0}
  BY <1>1, <1>2, <1>4
<1>6. (a \div ILineWords) \div k = a \div (ILineWords * k)
  BY <1>1, <1>5, DivDiv
<1>7. (b \div ILineWords) \div k = b \div (ILineWords * k)
  BY <1>1, <1>5, DivDiv
<1>8. QED BY <1>3, <1>6, <1>7

LEMMA SameBacking ==
    ASSUME NEW a \in Addr, NEW b \in Addr, a \div ILineWords = b \div ILineWords
    PROVE  a \in Backed <=> b \in Backed
  BY SameDLine, DataCacheAssumption

(* The base of the line of a, and a word in it.                            *)
LEMMA IFieldsOf ==
    ASSUME NEW a \in Addr
    PROVE  /\ IIndex(a) \in IIndexes /\ ITag(a) \in ITags /\ IWord(a) \in IWords
           /\ makeIAddr(ITag(a), IIndex(a)) = (a \div ILineWords) * ILineWords
           /\ makeIAddr(ITag(a), IIndex(a)) + IWord(a) = a
<1> DEFINE q == a \div ILineWords
           m == MaxAddr \div ILineWords
<1>1. /\ a \in Nat /\ a <= MaxAddr /\ MaxAddr \in Nat
      /\ ILineWords \in Nat \ {0} /\ ISets \in Nat \ {0}
  BY DataCacheAssumption, CachesAssumption DEF Addr
<1>2. q \in Nat /\ IWord(a) \in IWords /\ a = ILineWords * q + IWord(a)
  BY <1>1, DivMod DEF IWord, IWords
<1>3. m \in Nat /\ q <= m
  BY <1>1, DivMod, DivMonotone
<1>4. ITag(a) = q \div ISets /\ IIndex(a) = q % ISets /\ ITags = 0..m \div ISets
  BY DEF ITag, IIndex, ITags
<1> HIDE DEF q, m
<1>5. /\ ITag(a) \in Nat /\ IIndex(a) \in 0..ISets - 1
      /\ q = ISets * ITag(a) + IIndex(a)
  BY <1>1, <1>2, <1>4, DivMod
<1>6. q \div ISets <= m \div ISets /\ m \div ISets \in Nat
  BY <1>1, <1>2, <1>3, DivMonotone, DivMod
<1>7. ITag(a) \in ITags
  BY <1>4, <1>5, <1>6
<1>8. makeIAddr(ITag(a), IIndex(a)) = q * ILineWords
  <2>1. ITag(a) * ISets + IIndex(a) = q
    BY <1>1, <1>5
  <2>2. QED BY <2>1 DEF makeIAddr
<1>9. q * ILineWords + IWord(a) = a
  BY <1>1, <1>2 DEF IWords
<1>10. QED BY <1>2, <1>5, <1>7, <1>8, <1>9 DEF IIndexes, q

(* All words of a line exist if its first one does.                        *)
LEMMA ILineExists ==
    ASSUME NEW a \in Addr, makeIAddr(ITag(a), IIndex(a)) \in Backed, NEW w \in IWords
    PROVE  makeIAddr(ITag(a), IIndex(a)) + w \in Backed
<1> DEFINE q == a \div ILineWords
           n == MaxAddr \div ILineWords
           b == q * ILineWords
<1>1. /\ a \in Nat /\ a <= MaxAddr /\ MaxAddr \in Nat
      /\ ILineWords \in Nat \ {0} /\ w \in 0..ILineWords - 1 /\ w \in Nat
      /\ LineWords \in Nat \ {0}
  BY DataCacheAssumption, CachesAssumption DEF Addr, IWords
<1>2. q \in Nat /\ b \in Nat
  <2>1. q \in Nat
    BY <1>1, DivMod
  <2> HIDE DEF q
  <2>2. QED BY <1>1, <2>1
<1>3. makeIAddr(ITag(a), IIndex(a)) = b
  BY IFieldsOf
<1>4. (b + w) \div ILineWords = q
  BY <1>1, <1>2, DivUnique
<1>5. b \div ILineWords = q
  <2>1. 0 \in 0..ILineWords - 1
    BY <1>1
  <2>2. (q * ILineWords + 0) \div ILineWords = q
    BY <1>1, <1>2, <2>1, DivUnique
  <2>3. b + 0 = b
    BY <1>2
  <2> HIDE DEF q
  <2>4. QED BY <2>2, <2>3
<1>6. b \in Addr
  BY <1>3, DataCacheAssumption
<1>7. b + w \in Addr
  <2> DEFINE p == (MaxAddr + 1) \div ILineWords
             k == LineWords \div ILineWords
             z == (MaxAddr + 1) \div LineWords
  <2>1. k \in Nat /\ LineWords = ILineWords * k
    <3>1. LineWords = ILineWords * k + (LineWords % ILineWords) /\ k \in Nat
      BY <1>1, DivMod
    <3> HIDE DEF k
    <3>2. QED BY <1>1, <3>1, CachesAssumption
  <2>2. z \in Nat /\ MaxAddr + 1 = LineWords * z
    <3>1. MaxAddr + 1 = LineWords * z + ((MaxAddr + 1) % LineWords) /\ z \in Nat
      <4>1. MaxAddr + 1 \in Nat
        BY <1>1
      <4>2. QED BY <1>1, <4>1, DivMod
    <3> HIDE DEF z
    <3>2. QED BY <1>1, <3>1, DataCacheAssumption
  <2> HIDE DEF k, z, q
  <2> DEFINE l == k * z
  <2>3. MaxAddr + 1 = ILineWords * l /\ l \in Nat
    BY <1>1, <2>1, <2>2
  <2> HIDE DEF l
  <2>4. b < ILineWords * l
    BY <1>1, <1>6, <2>3 DEF Addr
  <2>5. q < l
    <3>1. SUFFICES ASSUME l <= q PROVE FALSE
      BY <1>2, <2>3
    <3>2. l * ILineWords <= q * ILineWords
      BY <1>1, <1>2, <2>3, <3>1
    <3>3. QED BY <1>1, <1>2, <2>3, <2>4, <3>2
  <2>6. (q + 1) * ILineWords <= l * ILineWords
    BY <1>1, <1>2, <2>3, <2>5
  <2>7. (q + 1) * ILineWords = b + ILineWords /\ l * ILineWords = ILineWords * l
    BY <1>1, <1>2, <2>3
  <2> HIDE DEF b
  <2>8. QED BY <1>1, <1>2, <2>3, <2>6, <2>7 DEF Addr
<1> HIDE DEF q, b
<1>8. QED BY <1>3, <1>4, <1>5, <1>6, <1>7, SameBacking

(***************************************************************************)
(* The data cache in the steps of module Caches.                           *)
(***************************************************************************)
LEMMA QuietClean ==
    ASSUME CleanInv, UNCHANGED <<mem, D, psr>>, eid' \in Exceptions
    PROVE  CleanInv'
<1>1. IInv'
  BY DEF CleanInv, IInv, CacheOK
<1>2. SoundCache(D, mem)'
  BY SameSound
<1>3. QED BY <1>1, <1>2 DEF CleanInv

LEMMA FetchExceptions ==
    ASSUME IInv, NEW a, iCacheRead(a) \/ (eid' \in {eid, vSetupException(INSTR_ACC_EXCEPTION)})
    PROVE  eid' \in Exceptions
  BY DEF IInv, iCacheRead, vSetupException, Exceptions

(* A step of Caches is one of DataCache, or leaves the data cache alone.   *)
LEMMA CachesStep ==
    CachesNext => \/ Next
                  \/ /\ UNCHANGED <<mem, D, psr>>
                     /\ \/ InstructionCacheSetup
                        \/ \E a \in Addr : get_new_instr(a)
<1> SUFFICES ASSUME CachesNext
             PROVE  \/ Next
                    \/ /\ UNCHANGED <<mem, D, psr>>
                       /\ \/ InstructionCacheSetup
                          \/ \E a \in Addr : get_new_instr(a)
  OBVIOUS
<1>1. CASE DataAccess
  BY <1>1 DEF DataAccess, Next
<1>2. CASE DataCacheInstruction
  BY <1>2 DEF DataCacheInstruction, CacheInstruction, Next
<1>3. CASE FlushInstruction
  <2>1. PICK a \in Addr : \/ cache_flush(a)
                          \/ cache_invalidate(a)
                          \/ \E s \in Ways : cache_index_flush(a, s)
    BY <1>3 DEF FlushInstruction
  <2>2. \/ cacheFlush(a) \/ cacheInvalidate(a)
        \/ \E s \in Ways : cacheIndexFlush(a, s)
    BY <2>1 DEF cache_flush, cache_invalidate, cache_index_flush
  <2>3. eid = NO_EXCEPTION /\ UNCHANGED eid
    BY <1>3 DEF FlushInstruction
  <2>4. CacheInstruction
    BY <2>2, <2>3 DEF CacheInstruction
  <2>5. QED BY <2>4 DEF Next
<1>4. CASE InstructionCacheSetup
  <2>1. UNCHANGED dvars
    BY <1>4 DEF InstructionCacheSetup, priv_write_icache_tag, priv_write_psr_ice
  <2>2. QED BY <1>4, <2>1 DEF dvars
<1>5. CASE GdbWrite
  BY <1>5 DEF GdbWrite, debugger_write, Debugger, Next
<1>6. CASE \E a \in Addr : get_new_instr(a)
  BY <1>6 DEF get_new_instr
<1>7. QED BY <1>1, <1>2, <1>3, <1>4, <1>5, <1>6 DEF CachesNext

LEMMA CachesClean == CleanInv /\ [CachesNext]_vars => CleanInv'
<1> SUFFICES ASSUME CleanInv, [CachesNext]_vars PROVE CleanInv'
  OBVIOUS
<1>1. IInv /\ eid \in Exceptions
  BY DEF CleanInv, IInv
<1>2. CASE Next
  BY <1>2, NextCleanInv
<1>3. CASE InstructionCacheSetup
  <2>1. UNCHANGED dvars
    BY <1>3 DEF InstructionCacheSetup, priv_write_icache_tag, priv_write_psr_ice
  <2>2. QED BY <1>1, <2>1, QuietClean DEF dvars
<1>4. CASE \E a \in Addr : get_new_instr(a)
  <2>1. PICK a \in Addr : get_new_instr(a)
    BY <1>4
  <2>2. eid' \in Exceptions
    BY <1>1, <2>1, FetchExceptions DEF get_new_instr
  <2>3. QED BY <2>1, <2>2, QuietClean DEF get_new_instr
<1>5. CASE UNCHANGED vars
  BY <1>1, <1>5, QuietClean DEF vars, cvars, dvars
<1>6. QED BY <1>2, <1>3, <1>4, <1>5, CachesStep

(***************************************************************************)
(* The instruction cache.  Shrinks: valid lines are as they were.          *)
(***************************************************************************)
ICacheOK == I \in [IIndexes -> IEntry]

Shrinks == \A i \in IIndexes : I'[i].valid => I'[i] = I[i]

LEMMA DropTyped ==
    ASSUME ICacheOK, NEW k \in IIndexes, NEW j \in IEntry, ~j.valid,
           I' = [I EXCEPT ![k] = j]
    PROVE  ICacheOK' /\ Shrinks
  BY DEF ICacheOK, Shrinks

LEMMA DropLineTyped ==
    ASSUME ICacheOK, NEW a \in Addr, DropLine(a)
    PROVE  ICacheOK' /\ Shrinks /\ ~I'[IIndex(a)].valid
<1> DEFINE k == IIndex(a)
           j == [I[k] EXCEPT !.valid = FALSE]
<1>1. k \in IIndexes /\ I[k] \in IEntry
  BY IFieldsOf DEF ICacheOK
<1>2. j \in IEntry /\ ~j.valid
  BY <1>1 DEF IEntry
<1>3. I' = [I EXCEPT ![k] = j]
  BY DEF DropLine
<1> HIDE DEF j, k
<1>4. I'[k] = j
  BY <1>1, <1>3 DEF ICacheOK
<1>5. QED BY <1>1, <1>2, <1>3, <1>4, DropTyped DEF k

LEMMA ZeroTag == 0 \in ITags
<1>1. MaxAddr \in Nat /\ ILineWords \in Nat \ {0} /\ ISets \in Nat \ {0}
  BY DataCacheAssumption, CachesAssumption
<1>2. MaxAddr \div ILineWords \in Nat
  BY <1>1, DivMod
<1>3. (MaxAddr \div ILineWords) \div ISets \in Nat
  BY <1>1, <1>2, DivMod
<1>4. QED BY <1>3 DEF ITags

(* How cacheInvalidate and a tag write clear a line.                       *)
Cleared(k) ==
    \/ I' = [I EXCEPT ![k].valid = FALSE, ![k].tag = 0]
    \/ I' = [I EXCEPT ![k].tag = 0, ![k].valid = FALSE]

LEMMA ClearTyped ==
    ASSUME ICacheOK, NEW k \in IIndexes, Cleared(k)
    PROVE  ICacheOK' /\ Shrinks
<1> DEFINE j == [I[k] EXCEPT !.valid = FALSE, !.tag = 0]
           l == [I[k] EXCEPT !.tag = 0, !.valid = FALSE]
<1>1. I[k] \in IEntry /\ 0 \in ITags
  BY ZeroTag DEF ICacheOK
<1>2. j \in IEntry /\ ~j.valid
  BY <1>1 DEF IEntry
<1>3. l \in IEntry /\ ~l.valid
  BY <1>1 DEF IEntry
<1>4. I' = [I EXCEPT ![k] = j] \/ I' = [I EXCEPT ![k] = l]
  BY DEF ICacheOK, Cleared
<1> HIDE DEF j, l
<1>5. QED BY <1>2, <1>3, <1>4, DropTyped

(* The line an instruction fetch brings in.                                *)
Fetched(a) ==
    [tag |-> ITag(a), valid |-> TRUE,
     line |-> [w \in IWords |-> mem[makeIAddr(ITag(a), IIndex(a)) + w]]]

LEMMA ReadTyped ==
    ASSUME IInv, ICacheOK, NEW a \in Addr, iCacheRead(a)
    PROVE  /\ ICacheOK'
           /\ I' = I \/ I' = [I EXCEPT ![IIndex(a)] = Fetched(a)]
<1>1. CASE I' = I
  BY <1>1 DEF ICacheOK
<1>2. CASE makeIAddr(ITag(a), IIndex(a)) \in Backed /\ I' = [I EXCEPT ![IIndex(a)] = Fetched(a)]
  <2>1. ITag(a) \in ITags /\ IIndex(a) \in IIndexes
    BY IFieldsOf
  <2>2. \A w \in IWords : mem[makeIAddr(ITag(a), IIndex(a)) + w] \in Values
    BY <1>2, ILineExists DEF IInv
  <2>3. Fetched(a) \in IEntry
    BY <2>1, <2>2 DEF Fetched, IEntry
  <2>4. QED BY <1>2, <2>1, <2>3 DEF ICacheOK
<1>3. QED BY <1>1, <1>2 DEF iCacheRead, Fetched

LEMMA FlushTyped ==
    ASSUME ICacheOK, NEW a \in Addr, ICacheFlush(a) \/ UNCHANGED I
    PROVE  ICacheOK' /\ Shrinks
<1>1. CASE DropLine(a)
  BY <1>1, DropLineTyped
<1>2. CASE UNCHANGED I
  BY <1>2 DEF ICacheOK, Shrinks
<1>3. QED BY <1>1, <1>2 DEF ICacheFlush

(***************************************************************************)
(* Types.                                                                  *)
(***************************************************************************)
TInv == CleanInv /\ ICacheOK /\ ice \in BOOLEAN /\ stale \subseteq Code

(* What becomes of the instruction cache: it is filled, or it shrinks.     *)
LEMMA ICacheStep ==
    ASSUME TInv, CachesNext
    PROVE  /\ ICacheOK'
           /\ Shrinks \/ \E a \in Addr : get_new_instr(a) /\ ice /\ iCacheRead(a)
<1>1. ICacheOK /\ IInv
  BY DEF TInv, CleanInv
<1>2. CASE UNCHANGED I
  BY <1>1, <1>2 DEF ICacheOK, Shrinks
<1>3. CASE \E a \in Addr : DropLine(a)
  BY <1>1, <1>3, DropLineTyped
<1>4. ASSUME NEW a \in Addr, cache_flush(a) \/ \E s \in Ways : cache_index_flush(a, s)
      PROVE  UNCHANGED I \/ DropLine(a)
  BY <1>4 DEF cache_flush, cache_index_flush, ICacheFlush
<1>5. ASSUME NEW a \in Addr, NEW v, debugger_write(a, v)
      PROVE  UNCHANGED I \/ DropLine(a)
  BY <1>5 DEF debugger_write, ICacheFlush
<1>6. ASSUME NEW a \in Addr, cache_invalidate(a)
      PROVE  ICacheOK' /\ Shrinks
  <2>1. IIndex(a) \in IIndexes
    BY IFieldsOf
  <2>2. UNCHANGED I \/ Cleared(IIndex(a))
    BY <1>6 DEF cache_invalidate, Cleared
  <2>3. CASE UNCHANGED I
    BY <1>1, <2>3 DEF ICacheOK, Shrinks
  <2>4. QED BY <1>1, <2>1, <2>2, <2>3, ClearTyped
<1>7. CASE DataAccess \/ DataCacheInstruction
  BY <1>2, <1>7 DEF DataAccess, DataCacheInstruction
<1>8. CASE FlushInstruction
  <2>1. PICK a \in Addr : \/ cache_flush(a)
                          \/ cache_invalidate(a)
                          \/ \E s \in Ways : cache_index_flush(a, s)
    BY <1>8 DEF FlushInstruction
  <2>2. CASE cache_invalidate(a)
    BY <1>6, <2>2
  <2>3. CASE cache_flush(a) \/ \E s \in Ways : cache_index_flush(a, s)
    BY <1>2, <1>3, <1>4, <2>3
  <2>4. QED BY <2>1, <2>2, <2>3
<1>9. CASE InstructionCacheSetup
  <2>1. CASE \E i \in IIndexes : priv_write_icache_tag(i)
    BY <1>1, <2>1, ClearTyped DEF priv_write_icache_tag, Cleared
  <2>2. CASE priv_write_psr_ice
    BY <1>2, <2>2 DEF priv_write_psr_ice
  <2>3. QED BY <1>9, <2>1, <2>2 DEF InstructionCacheSetup
<1>10. CASE GdbWrite
  BY <1>2, <1>3, <1>5, <1>10 DEF GdbWrite
<1>11. CASE \E a \in Addr : get_new_instr(a)
  <2>1. PICK a \in Addr : get_new_instr(a)
    BY <1>11
  <2>2. CASE ice /\ iCacheRead(a)
    BY <1>1, <2>1, <2>2, ReadTyped
  <2>3. CASE ~(ice /\ iCacheRead(a))
    <3>1. UNCHANGED I
      BY <2>1, <2>3 DEF get_new_instr
    <3>2. QED BY <1>2, <3>1
  <2>4. QED BY <2>2, <2>3
<1>12. QED BY <1>7, <1>8, <1>9, <1>10, <1>11 DEF CachesNext

(* PSR.ICE and the history.                                                *)
LEMMA HistoryStep ==
    ASSUME TInv, CachesNext
    PROVE  ice' \in BOOLEAN /\ stale' \subseteq Code
<1>1. ice \in BOOLEAN /\ stale \subseteq Code
  BY DEF TInv
<1>2. stale' \subseteq stale \cup Changed
  <2>1. CASE DataAccess \/ DataCacheInstruction
    BY <2>1 DEF DataAccess, DataCacheInstruction, Stored
  <2>2. CASE FlushInstruction
    BY <2>2 DEF FlushInstruction, cache_flush, cache_invalidate, cache_index_flush,
                Stored, FlushedLine
  <2>3. CASE GdbWrite
    BY <2>3 DEF GdbWrite, debugger_write
  <2>4. CASE InstructionCacheSetup \/ \E a \in Addr : get_new_instr(a)
    BY <2>4 DEF InstructionCacheSetup, priv_write_icache_tag, priv_write_psr_ice,
                get_new_instr
  <2>5. QED BY <2>1, <2>2, <2>3, <2>4 DEF CachesNext
<1>3. stale' \subseteq Code
  BY <1>1, <1>2 DEF Changed
<1>4. ice' \in BOOLEAN
  BY <1>1 DEF CachesNext, DataAccess, DataCacheInstruction, FlushInstruction, GdbWrite,
              InstructionCacheSetup, priv_write_icache_tag, priv_write_psr_ice, get_new_instr
<1>5. QED BY <1>3, <1>4

LEMMA InitTInv == CachesInit => TInv
<1> SUFFICES ASSUME CachesInit PROVE TInv
  OBVIOUS
<1>1. CleanInv
  BY InitCleanInv DEF CachesInit
<1>2. ICacheOK
  <2>1. 0 \in ITags /\ 0 \in Values
    BY ZeroTag, DataCacheAssumption
  <2>2. [tag |-> 0, valid |-> FALSE, line |-> [w \in IWords |-> 0]] \in IEntry
    BY <2>1 DEF IEntry
  <2>3. QED BY <2>2 DEF CachesInit, ICacheOK
<1>3. QED BY <1>1, <1>2 DEF CachesInit, TInv

LEMMA NextTInv == TInv /\ [CachesNext]_vars => TInv'
<1> SUFFICES ASSUME TInv, [CachesNext]_vars PROVE TInv'
  OBVIOUS
<1>1. CleanInv'
  BY CachesClean DEF TInv
<1>2. CASE CachesNext
  BY <1>1, <1>2, ICacheStep, HistoryStep DEF TInv
<1>3. CASE UNCHANGED vars
  BY <1>1, <1>3 DEF TInv, ICacheOK, vars, cvars
<1>4. QED BY <1>2, <1>3

(* Lines of both caches hold values memory may hold, at tags that exist.   *)
THEOREM CachesTypeCorrect == CachesSpec => []CachesTypeOK
<1>1. TInv => CachesTypeOK
  BY DEF TInv, CleanInv, IInv, CacheOK, ICacheOK, CachesTypeOK
<1>2. QED BY InitTInv, NextTInv, <1>1, PTL DEF CachesSpec

(***************************************************************************)
(* Words that are not stale.                                               *)
(***************************************************************************)
(* A step leaves memory as it is, or what the program saw or sees then.    *)
LEMMA MemoryFollows ==
    ASSUME CleanInv, CleanInv', Next, NEW a \in Backed
    PROVE  mem'[a] = mem[a] \/ mem'[a] = Seen(D, mem, a) \/ mem'[a] = Seen(D', mem', a)
<1>1. a \in Addr /\ Memory!Addr = Addr
  BY DataCacheAssumption DEF Memory!Addr, Addr
<1>2. ram[a] = Seen(D, mem, a) /\ ram'[a] = Seen(D', mem', a)
  BY <1>1, RamIsSeen
<1>3. KeptNow[a] = mem[a] /\ KeptNow'[a] = mem'[a]
  BY <1>1 DEF KeptNow
<1>4. DOMAIN ram = Addr
  BY DEF ram
<1>5. [Memory!Next]_<<ram, KeptNow, op>>
  BY NextRefines
<1> HIDE DEF ram
<1> DEFINE Known == KeptNow'[a] \in {KeptNow[a], ram[a], ram'[a]}
<1>6. ASSUME UNCHANGED <<ram, KeptNow, op>>
      PROVE  Known
  BY <1>6
<1>7. ASSUME Memory!WriteBack
      PROVE  Known
  BY <1>1, <1>7 DEF Memory!WriteBack, Memory!Keeps, KeptNow
<1>8. ASSUME NEW x \in Addr, Memory!LoadWord(x) \/ Memory!ZeroLine(x)
      PROVE  Known
  BY <1>1, <1>8 DEF Memory!LoadWord, Memory!ZeroLine, Memory!Keeps, KeptNow
<1>9. ASSUME NEW x \in Addr, Memory!DiscardLine(x)
      PROVE  Known
  BY <1>9 DEF Memory!DiscardLine, KeptNow
<1>10. ASSUME NEW x \in Addr, NEW v \in Values, Memory!StoreWord(x, v)
       PROVE  Known
  <2>1. ram' = [ram EXCEPT ![x] = v]
    BY <1>10 DEF Memory!StoreWord
  <2>2. Memory!Keeps(a) \/ (a = x /\ KeptNow'[a] = v)
    BY <1>1, <1>10 DEF Memory!StoreWord, KeptNow
  <2>3. CASE a = x /\ KeptNow'[a] = v
    BY <1>1, <1>4, <2>1, <2>3
  <2>4. CASE Memory!Keeps(a)
    BY <2>4 DEF Memory!Keeps, KeptNow
  <2>5. QED BY <2>2, <2>3, <2>4
<1>11. Known
  <2>1. CASE Memory!Next
    <3> HIDE DEF Known
    <3>1. QED BY <1>1, <1>7, <1>8, <1>9, <1>10, <2>1 DEF Memory!Next
  <2>2. QED BY <1>5, <1>6, <2>1
<1>12. QED BY <1>2, <1>3, <1>11

(* What the program sees of the word, memory has, and so has a line of the *)
(* instruction cache it is fetched from.                                   *)
Fresh(a) ==
    /\ Seen(D, mem, a) = mem[a]
    /\ ice /\ IHit(a) => I[IIndex(a)].line[IWord(a)] = mem[a]

Clean == (Code \cap Backed) \ stale

FInv == TInv /\ \A a \in Clean : Fresh(a)

LEMMA FreshIsFetched ==
    ASSUME \A a \in Clean : Fresh(a)
    PROVE  FlushedCodeIsFetched
<1>1. ASSUME NEW a \in Clean PROVE ram[a] = mem[a]
  BY <1>1, RamIsSeen, DataCacheAssumption DEF Fresh, Clean
<1> HIDE DEF ram
<1>2. QED BY <1>1 DEF FlushedCodeIsFetched, Fresh, Clean

(* A step of the data cache that shows the word as before keeps it fresh   *)
(* if the instruction cache gets nothing new.                              *)
LEMMA SeenStaysFresh ==
    ASSUME FInv, CleanInv', Next, Shrinks, UNCHANGED ice,
           NEW a \in Backed, Fresh(a), Seen(D', mem', a) = Seen(D, mem, a)
    PROVE  Fresh(a)'
<1>1. CleanInv /\ a \in Addr
  BY DataCacheAssumption DEF FInv, TInv
<1>2. mem'[a] = mem[a] /\ Seen(D', mem', a) = mem'[a]
  BY <1>1, MemoryFollows DEF Fresh
<1>3. IIndex(a) \in IIndexes
  BY <1>1, IFieldsOf
<1>4. IHit(a)' => IHit(a) /\ I'[IIndex(a)] = I[IIndex(a)]
  BY <1>3 DEF IHit, Shrinks
<1>5. QED BY <1>2, <1>4 DEF Fresh

LEMMA UnchangedIsSeen ==
    ASSUME NEW a \in Code, a \in Addr, a \notin Changed
    PROVE  Seen(D', mem', a) = Seen(D, mem, a)
  BY RamIsSeen DEF Changed

(* Words of the line a flush of a lets go of.                              *)
LEMMA AwayStaysFresh ==
    ASSUME DSets > 0, FInv, NEW a \in Backed, NEW b \in Backed, b \in ILineAddrs(a),
           ~Hits(D'[DIndex(a)], DTag(a)), ICacheFlush(a), UNCHANGED ice
    PROVE  Fresh(b)'
<1>1. a \in Addr /\ b \in Addr /\ b \div ILineWords = a \div ILineWords
  BY DataCacheAssumption DEF ILineAddrs
<1>2. DTag(b) = DTag(a) /\ DIndex(b) = DIndex(a)
  BY <1>1, SameDLine, SameLine
<1>3. Seen(D', mem', b) = mem'[b]
  BY <1>2 DEF Seen, InEntry, Kept
<1>4. ~(ice' /\ IHit(b)')
  <2>1. CASE ice
    <3>1. ~I'[IIndex(a)].valid
      BY <1>1, <2>1, DropLineTyped DEF ICacheFlush, FInv, TInv
    <3>2. IIndex(b) = IIndex(a)
      BY <1>1 DEF IIndex
    <3>3. QED BY <3>1, <3>2 DEF IHit
  <2>2. CASE ~ice
    BY <2>2
  <2>3. QED BY <2>1, <2>2
<1>5. QED BY <1>3, <1>4 DEF Fresh

(* The flush of a word that exists gets as far as the instruction cache.   *)
LEMMA BackedReaches ==
    ASSUME DSets > 0, CleanInv, NEW a \in Backed
    PROVE  ReachesICache(a)
<1> DEFINE i == DIndex(a)
           s == WayOf(D[i], DTag(a))
<1>1. a \in Addr /\ i \in DIndexes /\ IInv
  BY FieldsTyped, DataCacheAssumption DEF CleanInv
<1>2. ASSUME Present(a) PROVE CanWrite(i, s)
  <2>1. D[i] \in DEntry
    BY <1>1, EntryGood DEF IInv, Good
  <2>2. Holds(D[i].dSet[s], DTag(a))
    BY <1>2, <2>1, WayTyped DEF Present
  <2>3. QED BY <1>1, <2>2, FirstWord DEF CanWrite, Holds
<1>3. QED BY <1>2 DEF ReachesICache, FlushFails

(***************************************************************************)
(* One lemma per kind of step.                                             *)
(***************************************************************************)
LEMMA QuietFresh ==
    ASSUME FInv, UNCHANGED <<mem, D>>, NEW b \in Backed, Fresh(b),
           ice' /\ IHit(b)' => ice /\ IHit(b)
                               /\ I'[IIndex(b)].line[IWord(b)] = I[IIndex(b)].line[IWord(b)]
    PROVE  Fresh(b)'
<1>1. Seen(D', mem', b) = Seen(D, mem, b)
  BY DEF Seen, InEntry, Kept
<1>2. QED BY <1>1 DEF Fresh

LEMMA FetchFresh ==
    ASSUME FInv, NEW a \in Addr, get_new_instr(a), NEW b \in Clean'
    PROVE  Fresh(b)'
<1>1. b \in Clean /\ b \in Backed /\ b \in Addr /\ ICacheOK /\ IInv
  BY DataCacheAssumption DEF get_new_instr, Clean, FInv, TInv, CleanInv
<1>2. Fresh(b) /\ UNCHANGED <<mem, D, ice>>
  BY <1>1 DEF FInv, get_new_instr
<1>3. IIndex(b) \in IIndexes /\ IIndex(a) \in IIndexes /\ IWord(b) \in IWords
  BY <1>1, IFieldsOf
<1>4. CASE UNCHANGED I
  BY <1>1, <1>2, <1>4, QuietFresh DEF IHit
<1>5. CASE I' = [I EXCEPT ![IIndex(a)] = Fetched(a)]
  <2>1. CASE IIndex(b) = IIndex(a) /\ ITag(b) = ITag(a)
    <3>1. I'[IIndex(b)] = Fetched(a)
      BY <1>3, <1>5, <2>1 DEF ICacheOK, FInv, TInv
    <3>2. I'[IIndex(b)].line[IWord(b)] = mem[makeIAddr(ITag(b), IIndex(b)) + IWord(b)]
      BY <1>3, <2>1, <3>1 DEF Fetched
    <3>3. I'[IIndex(b)].line[IWord(b)] = mem[b]
      BY <1>1, <3>2, IFieldsOf
    <3>4. Seen(D', mem', b) = mem'[b]
      BY <1>2 DEF Fresh
    <3>5. QED BY <1>2, <3>3, <3>4 DEF Fresh
  <2>2. CASE IIndex(b) = IIndex(a) /\ ITag(b) # ITag(a)
    <3>1. I'[IIndex(b)].tag = ITag(a)
      BY <1>3, <1>5, <2>2 DEF ICacheOK, FInv, TInv, Fetched
    <3>2. ~IHit(b)'
      BY <2>2, <3>1 DEF IHit
    <3>3. QED BY <1>1, <1>2, <3>2, QuietFresh
  <2>3. CASE IIndex(b) # IIndex(a)
    <3>1. I'[IIndex(b)] = I[IIndex(b)]
      BY <1>3, <1>5, <2>3 DEF ICacheOK, FInv, TInv
    <3>2. QED BY <1>1, <1>2, <3>1, QuietFresh DEF IHit
  <2>4. QED BY <2>1, <2>2, <2>3
<1>6. UNCHANGED I \/ iCacheRead(a)
  BY DEF get_new_instr
<1>7. QED BY <1>1, <1>4, <1>5, <1>6, ReadTyped

LEMMA SetupFresh ==
    ASSUME FInv, InstructionCacheSetup, NEW b \in Clean'
    PROVE  Fresh(b)'
<1>1. b \in Clean /\ b \in Backed /\ b \in Addr /\ UNCHANGED <<mem, D>>
  BY DataCacheAssumption DEF InstructionCacheSetup, priv_write_icache_tag,
                             priv_write_psr_ice, dvars, Clean
<1>2. Fresh(b) /\ IIndex(b) \in IIndexes /\ ice \in BOOLEAN
  BY <1>1, IFieldsOf DEF FInv, TInv
<1>3. CASE ~ice'
  BY <1>1, <1>2, <1>3, QuietFresh
<1>4. CASE ice'
  <2>1. priv_write_psr_ice /\ ~ice /\ UNCHANGED I
    BY <1>2, <1>4 DEF InstructionCacheSetup, priv_write_icache_tag, priv_write_psr_ice
  <2>2. ~IHit(b)'
    BY <1>2, <2>1 DEF priv_write_psr_ice, IHit
  <2>3. QED BY <1>1, <1>2, <2>2, QuietFresh
<1>5. QED BY <1>3, <1>4

(* Stores and the like: what changes is stale.                             *)
LEMMA StoredFresh ==
    ASSUME FInv, CleanInv', Next, Shrinks, UNCHANGED ice, NEW b \in Code \cap Backed,
           b \notin stale, b \notin Changed
    PROVE  Fresh(b)'
<1>1. b \in Addr /\ Fresh(b)
  BY DataCacheAssumption DEF FInv, Clean
<1>2. QED BY <1>1, UnchangedIsSeen, SeenStaysFresh

LEMMA FlushFresh ==
    ASSUME DSets > 0, FInv, CleanInv', eid = NO_EXCEPTION, UNCHANGED <<eid, ice>>,
           NEW a \in Addr, cache_flush(a), NEW b \in Clean'
    PROVE  Fresh(b)'
<1>1. cacheFlush(a) /\ CleanInv /\ ICacheOK /\ b \in Code \cap Backed /\ b \in Addr
  BY DataCacheAssumption DEF cache_flush, FInv, TInv, Clean
<1>2. Next
  BY <1>1 DEF Next, CacheInstruction
<1>3. Memory!WriteBack
  BY <1>1, FlushRefines DEF CleanInv
<1>4. Changed = {}
  <2>1. ram' = ram
    BY <1>3, LookingOn
  <2> HIDE DEF ram
  <2>2. QED BY <2>1 DEF Changed
<1>5. Shrinks
  BY <1>1, FlushTyped DEF cache_flush
<1>6. CASE b \notin stale
  BY <1>1, <1>2, <1>4, <1>5, <1>6, StoredFresh
<1>7. CASE b \in stale
  <2>1. ~FlushFails(a) /\ b \in ILineAddrs(a)
    BY <1>7 DEF cache_flush, FlushedLine, Clean
  <2>2. a \in Backed
    BY <1>1, <2>1, SameBacking DEF ILineAddrs
  <2>3. ICacheFlush(a)
    BY <1>1, <2>2, BackedReaches DEF cache_flush
  <2>4. ~Hits(D'[DIndex(a)], DTag(a))
    BY <1>1, <2>2, FlushedIsAway DEF cacheFlush
  <2>5. QED BY <1>1, <2>1, <2>2, <2>3, <2>4, AwayStaysFresh
<1>8. QED BY <1>6, <1>7

LEMMA IndexFlushFresh ==
    ASSUME FInv, CleanInv', eid = NO_EXCEPTION, UNCHANGED <<eid, ice>>,
           NEW a \in Addr, NEW s \in Ways, cache_index_flush(a, s), NEW b \in Clean'
    PROVE  Fresh(b)'
<1>1. /\ cacheIndexFlush(a, s) /\ CleanInv /\ ICacheOK
      /\ b \in Code \cap Backed /\ b \in Addr /\ b \notin stale
  BY DataCacheAssumption DEF cache_index_flush, FInv, TInv, Clean
<1>2. Next
  BY <1>1 DEF Next, CacheInstruction
<1>3. Memory!WriteBack
  BY <1>1, IndexFlushRefines DEF CleanInv
<1>4. Changed = {}
  <2>1. ram' = ram
    BY <1>3, LookingOn
  <2> HIDE DEF ram
  <2>2. QED BY <2>1 DEF Changed
<1>5. Shrinks
  <2>1. UNCHANGED I \/ DropLine(a)
    BY DEF cache_index_flush
  <2>2. CASE UNCHANGED I
    BY <2>2 DEF Shrinks
  <2>3. QED BY <1>1, <2>1, <2>2, DropLineTyped
<1>6. QED BY <1>1, <1>2, <1>4, <1>5, StoredFresh

LEMMA DebuggerFresh ==
    ASSUME DSets > 0, FInv, CleanInv', eid = NO_EXCEPTION, UNCHANGED ice,
           NEW a \in Addr, NEW v \in Data(a), debugger_write(a, v), NEW b \in Clean'
    PROVE  Fresh(b)'
<1>1. sim_write(a, v) /\ CleanInv /\ ICacheOK /\ b \in Code \cap Backed /\ b \in Addr
  BY DataCacheAssumption DEF debugger_write, FInv, TInv, Clean
<1>2. Next
  BY <1>1 DEF Next, Debugger
<1>3. Shrinks
  BY <1>1, FlushTyped DEF debugger_write
<1>4. CASE a \in Backed /\ b \in ILineAddrs(a)
  <2>1. ICacheFlush(a)
    BY <1>1, <1>4, BackedReaches DEF debugger_write
  <2>2. ~Hits(D'[DIndex(a)], DTag(a))
    BY <1>1, <1>4, FlushedIsAway DEF sim_write
  <2>3. QED BY <1>1, <1>4, <2>1, <2>2, AwayStaysFresh
<1>5. CASE ~(a \in Backed /\ b \in ILineAddrs(a))
  <2>1. b \notin stale /\ b \notin Changed
    BY <1>1, <1>5 DEF debugger_write, Clean
  <2>2. QED BY <1>1, <1>2, <1>3, <2>1, StoredFresh
<1>6. QED BY <1>4, <1>5

LEMMA NextFInv ==
    ASSUME DSets > 0, FInv, [CachesNext]_vars
    PROVE  FInv'
<1>1. TInv' /\ CleanInv' /\ TInv
  BY NextTInv DEF FInv, TInv
<1>2. SUFFICES ASSUME NEW b \in Clean' PROVE Fresh(b)'
  BY <1>1 DEF FInv
<1>3. b \in Code \cap Backed /\ b \in Addr
  BY DataCacheAssumption DEF Clean
<1>4. ASSUME CachesNext, Stored, Next, Shrinks, UNCHANGED ice PROVE Fresh(b)'
  BY <1>1, <1>3, <1>4, StoredFresh DEF Stored, Clean
<1>5. CASE DataAccess \/ DataCacheInstruction
  <2>1. Stored /\ UNCHANGED <<I, ice>>
    BY <1>5 DEF DataAccess, DataCacheInstruction
  <2>2. Next /\ CachesNext
    BY <1>5 DEF DataAccess, DataCacheInstruction, CacheInstruction, Next, CachesNext
  <2>3. QED BY <1>4, <2>1, <2>2 DEF Shrinks
<1>6. CASE FlushInstruction
  <2>1. PICK a \in Addr : \/ cache_flush(a)
                          \/ cache_invalidate(a)
                          \/ \E s \in Ways : cache_index_flush(a, s)
    BY <1>6 DEF FlushInstruction
  <2>2. eid = NO_EXCEPTION /\ UNCHANGED <<eid, ice>>
    BY <1>6 DEF FlushInstruction
  <2>3. CASE cache_flush(a)
    BY <1>1, <2>2, <2>3, FlushFresh
  <2>4. CASE \E s \in Ways : cache_index_flush(a, s)
    BY <1>1, <2>2, <2>4, IndexFlushFresh
  <2>5. CASE cache_invalidate(a)
    <3>1. Stored /\ Next
      BY <2>2, <2>5 DEF cache_invalidate, Next, CacheInstruction
    <3>2. UNCHANGED I \/ Cleared(IIndex(a))
      BY <2>5 DEF cache_invalidate, Cleared
    <3>3. CASE UNCHANGED I
      BY <1>1, <1>3, <2>2, <3>1, <3>3, StoredFresh DEF Shrinks, Stored, Clean
    <3>4. CASE Cleared(IIndex(a))
      <4>1. Shrinks
        BY <1>1, <3>4, ClearTyped, IFieldsOf DEF TInv
      <4>2. QED BY <1>1, <1>3, <2>2, <3>1, <4>1, StoredFresh DEF Stored, Clean
    <3>5. QED BY <3>2, <3>3, <3>4
  <2>6. QED BY <2>1, <2>3, <2>4, <2>5
<1>7. CASE InstructionCacheSetup
  BY <1>7, SetupFresh
<1>8. CASE GdbWrite
  <2>1. PICK a \in Addr : \E v \in Data(a) : debugger_write(a, v)
    BY <1>8 DEF GdbWrite
  <2>2. eid = NO_EXCEPTION /\ UNCHANGED ice
    BY <1>8 DEF GdbWrite
  <2>3. QED BY <1>1, <2>1, <2>2, DebuggerFresh
<1>9. CASE \E a \in Addr : get_new_instr(a)
  BY <1>9, FetchFresh
<1>10. CASE UNCHANGED vars
  <2>1. b \in Clean /\ UNCHANGED <<mem, D, I, ice>>
    BY <1>10 DEF vars, cvars, dvars, Clean
  <2>2. QED BY <1>3, <2>1, QuietFresh DEF FInv, IHit
<1>11. QED BY <1>5, <1>6, <1>7, <1>8, <1>9, <1>10 DEF CachesNext

LEMMA InitFInv == CachesInit => FInv
<1> SUFFICES ASSUME CachesInit PROVE FInv
  OBVIOUS
<1>1. TInv
  BY InitTInv
<1>2. ASSUME NEW b \in Clean PROVE Fresh(b)
  <2>1. b \in Backed /\ b \in Addr /\ ~ice
    BY DataCacheAssumption DEF CachesInit, Clean
  <2>2. \A s \in Ways : DSets > 0 => ~D[DIndex(b)].dSet[s].valid
    BY <2>1, FieldsTyped DEF CachesInit, Init, EmptyEntry, EmptyLine
  <2>3. Seen(D, mem, b) = Kept(mem, b)
    BY <2>2, AwaySeen DEF Seen, Holds
  <2>4. QED BY <2>1, <2>3 DEF Fresh, Kept
<1>3. QED BY <1>1, <1>2 DEF FInv

(* Where there is a data cache, code is fetched as it was stored, once a   *)
(* flush has reported success: the code handlers and debugger rely on it.  *)
THEOREM FlushedCodeCorrect ==
    ASSUME DSets > 0
    PROVE  CachesSpec => []FlushedCodeIsFetched
<1>1. FInv /\ [CachesNext]_vars => FInv'
  BY NextFInv
<1>2. FInv => FlushedCodeIsFetched
  BY FreshIsFetched DEF FInv
<1>3. QED BY InitFInv, <1>1, <1>2, PTL DEF CachesSpec

=============================================================================
