------------------------------ MODULE DataCache ------------------------------
(***************************************************************************)
(* The data cache of the instruction accurate simulator: the D$ half of    *)
(* tools/cache/src/cache.c, a two-way, write-back, write-allocate cache,   *)
(* as the memory accesses of tools/iam/src/javamem.c, the cache            *)
(* instructions of ext_ops.c and the debugger (gdb_interface.c) use it.    *)
(*                                                                         *)
(* Behind it is the memory of tools/ldr/src/cm.c, in which some lines do   *)
(* not exist: a write-back or a refill may fail, and raises an exception   *)
(* that stays pending until the end of the instruction.  An address is the *)
(* number of a word; byte and short accesses are accesses to their word.   *)
(***************************************************************************)
EXTENDS Integers, FiniteSets

CONSTANTS
    MaxAddr,      \* word addresses are 0..MaxAddr
    Backed,       \* the words cmMemoryRead and cmMemoryWrite accept
    Uncached,     \* the words the program uses with nc loads and stores only
    LineWords,    \* dCacheLineSize, in words
    DSets,        \* numOfDcacheEntries; 0 is "configure dcache 0"
    Values,       \* what a word may hold
    Watched,      \* the words written with anything but 0
    AEM,          \* the settings of PSR.AEM the program uses
    Absent        \* what a word holds that does not exist

Addr  == 0..MaxAddr
Words == 0..LineWords - 1
Ways  == 0..1

DIndexes == 0..DSets - 1

ASSUME DataCacheAssumption ==
    /\ MaxAddr \in Nat
    /\ LineWords \in Nat \ {0}
    /\ DSets \in Nat
    /\ (MaxAddr + 1) % LineWords = 0
    /\ Backed \subseteq Addr
    /\ Uncached \subseteq Addr
    /\ \A a, b \in Addr : a \div LineWords = b \div LineWords
                              => /\ a \in Uncached <=> b \in Uncached
                                 /\ a \in Backed <=> b \in Backed
    /\ Watched \subseteq Addr
    /\ AEM \subseteq BOOLEAN
    /\ 0 \in Values
    /\ Absent \notin Values

(* What the program and the debugger write to the word a.                  *)
Data(a) == IF a \in Watched THEN Values ELSE {0}

VARIABLES
    mem,    \* commonMemory and scratchMemory, the words that exist
    D,      \* the cache
    psr,    \* PSR.DCE, the cache is on; PSR.AEM, failed stores go unnoticed
    eid,    \* the pending exception
    op      \* history: the access or instruction the last step carried out

dvars == <<mem, D, psr, eid>>

dce == psr.dce
aem == psr.aem

(* What a step tells of itself.                                            *)
NoOp        == [kind |-> "none"]
Load(a, v)  == [kind |-> "load", addr |-> a, value |-> v]
Store(a, v) == [kind |-> "store", addr |-> a, value |-> v]
Zero(a)     == [kind |-> "zero", addr |-> a]
Discard(a)  == [kind |-> "discard", addr |-> a]

(* The exceptions a memory access raises, the lower number has priority;   *)
(* INSTR_ACC_EXCEPTION is that of the fetches of module Caches.            *)
NO_EXCEPTION        == 0
ASYNC_EXCEPTION     == 2
INSTR_ACC_EXCEPTION == 7
DATA_ACC_EXCEPTION  == 11

Exceptions == {NO_EXCEPTION, ASYNC_EXCEPTION, INSTR_ACC_EXCEPTION, DATA_ACC_EXCEPTION}

vSetupException(e) == IF eid = NO_EXCEPTION \/ e < eid THEN e ELSE eid

-----------------------------------------------------------------------------
(* The fields of an address, getFieldValue(addr, ...), and makeDAddr.      *)

DIndex(a) == (a \div LineWords) % DSets
DWord(a)  == a % LineWords

(* Seeded fault: the index is left in the tag. *)
DTag_IndexKept(a) == a \div LineWords

DTag(a) == (a \div LineWords) \div DSets

makeDAddr(t, i) == (t * DSets + i) * LineWords

Tags == IF DSets = 0 THEN {} ELSE 0..(MaxAddr \div LineWords) \div DSets

DSet == [tag : Tags, valid : BOOLEAN, dirty : BOOLEAN, line : [Words -> Values]]
DEntry == [dSet : [Ways -> DSet], lru : Ways]

EmptyLine  == [tag |-> 0, valid |-> FALSE, dirty |-> FALSE,
               line |-> [w \in Words |-> 0]]
EmptyEntry == [dSet |-> [s \in Ways |-> EmptyLine], lru |-> 0]

Init ==
    /\ mem \in {m \in [Backed -> Values] : \A a \in Backed : m[a] \in Data(a)}
    /\ D = [i \in DIndexes |-> EmptyEntry]
    /\ psr = [dce |-> FALSE, aem |-> FALSE]
    /\ eid = NO_EXCEPTION
    /\ op = NoOp

Holds(l, t)  == l.valid /\ l.tag = t
Hits(e, t)   == \E s \in Ways : Holds(e.dSet[s], t)
(* The way with the tag, way 0 first; the victim if neither has it.        *)
WayOf(e, t)  == IF Holds(e.dSet[0], t) THEN 0
                ELSE IF Holds(e.dSet[1], t) THEN 1 ELSE e.lru

(* Way s holds the line l, and lru is the next victim.                     *)
PutLine(e, s, l, lru) == [dSet |-> [e.dSet EXCEPT ![s] = l], lru |-> lru]

(* cmMemoryRead and cmMemoryWrite accept all words of a line or none: the  *)
(* first word already fails.                                               *)
Exists(base) == base \in Backed

(* Memory after the line l of set i is written back.                       *)
WrittenBack(l, i) ==
    LET base == makeDAddr(l.tag, i)
    IN  [b \in Backed |-> IF b \in base..base + LineWords - 1
                          THEN l.line[DWord(b)] ELSE mem[b]]

-----------------------------------------------------------------------------
(***************************************************************************)
(* dCacheSelect(addr): finds the line of addr, or brings it in: writes the *)
(* victim back, reads the line.  A failed write-back leaves the victim in  *)
(* place; a failed refill leaves an invalid line.                          *)
(***************************************************************************)
Selected(ok, s, e, m) == [ok |-> ok, set |-> s, entry |-> e, mem |-> m]

LineOf(a, m) ==
    LET base == makeDAddr(DTag(a), DIndex(a))
    IN  [tag |-> DTag(a), valid |-> TRUE, dirty |-> FALSE,
         line |-> [w \in Words |-> m[base + w]]]

(* Seeded fault: a failed refill leaves the valid bit as it was. *)
Refill_ValidKept(e, s, a, m) ==
    IF Exists(makeDAddr(DTag(a), DIndex(a)))
    THEN Selected(TRUE, s, PutLine(e, s, LineOf(a, m), 1 - s), m)
    ELSE Selected(FALSE, s,
            PutLine(e, s, [e.dSet[s] EXCEPT !.tag = DTag(a)], e.lru), m)

Refill(e, s, a, m) ==
    IF Exists(makeDAddr(DTag(a), DIndex(a)))
    THEN Selected(TRUE, s, PutLine(e, s, LineOf(a, m), 1 - s), m)
    ELSE Selected(FALSE, s,
            PutLine(e, s, [e.dSet[s] EXCEPT !.tag = DTag(a), !.valid = FALSE],
                    e.lru), m)

dCacheSelect(a) ==
    LET i == DIndex(a)
        e == D[i]
        s == WayOf(e, DTag(a))
        l == e.dSet[s]
    IN  IF Hits(e, DTag(a)) THEN Selected(TRUE, s, e, mem)
        ELSE IF ~(l.valid /\ l.dirty) THEN Refill(e, s, a, mem)
        ELSE IF Exists(makeDAddr(l.tag, i))
             THEN Refill(PutLine(e, s, [l EXCEPT !.valid = FALSE], e.lru),
                         s, a, WrittenBack(l, i))
             ELSE Selected(FALSE, s, e, mem)

(* A store into way s: the line is dirty and the other way the victim.     *)
StoredIn(e, s, a, v) ==
    PutLine(e, s, [e.dSet[s] EXCEPT !.line[DWord(a)] = v, !.dirty = TRUE], 1 - s)

-----------------------------------------------------------------------------
(***************************************************************************)
(* Memory accesses.  A failed access sets up an exception; while one is    *)
(* pending the rest of the instruction goes on, but its writes are         *)
(* dropped.                                                                *)
(***************************************************************************)
Cached(a) == DSets > 0 /\ dce /\ a \notin Uncached

Enter(a, r) ==
    /\ mem' = r.mem
    /\ D' = [D EXCEPT ![DIndex(a)] = r.entry]
    /\ UNCHANGED psr

(* The fill of the stack cache, access type 'D', fails asynchronously, but *)
(* only if it goes through the cache.                                      *)
javaMemRead(a, dribble) ==
    \/ /\ Cached(a)
       /\ LET r == dCacheSelect(a)
          IN  /\ Enter(a, r)
              /\ eid' = IF r.ok THEN eid
                        ELSE vSetupException(IF dribble THEN ASYNC_EXCEPTION
                                             ELSE DATA_ACC_EXCEPTION)
              /\ op' = IF r.ok
                       THEN Load(a, r.entry.dSet[r.set].line[DWord(a)])
                       ELSE NoOp
    \/ /\ ~Cached(a)
       /\ eid' = IF a \in Backed THEN eid
                 ELSE vSetupException(DATA_ACC_EXCEPTION)
       /\ op' = IF a \in Backed THEN Load(a, mem[a]) ELSE NoOp
       /\ UNCHANGED <<mem, D, psr>>

StoreFailed == IF aem THEN eid ELSE vSetupException(ASYNC_EXCEPTION)

(* cmMemoryWrite of one word, as the last step of a store.                 *)
cmMemoryWrite(a, v) ==
    /\ mem' = IF a \in Backed THEN [mem EXCEPT ![a] = v] ELSE mem
    /\ eid' = IF a \in Backed THEN eid ELSE StoreFailed
    /\ op' = IF a \in Backed THEN Store(a, v) ELSE NoOp
    /\ UNCHANGED <<D, psr>>

dCacheWrite(a, v) ==
    LET r == dCacheSelect(a)
    IN  IF r.ok
        THEN /\ Enter(a, [r EXCEPT !.entry = StoredIn(r.entry, r.set, a, v)])
             /\ op' = Store(a, v)
             /\ UNCHANGED eid
        ELSE /\ Enter(a, r)
             /\ op' = NoOp
             /\ eid' = StoreFailed

(* Seeded fault: the store leaves the line clean. *)
dCacheNAWrite_LeavesClean(a, v) ==
    LET e == D[DIndex(a)]
        s == WayOf(e, DTag(a))
    IN  IF Hits(e, DTag(a))
        THEN /\ D' = [D EXCEPT ![DIndex(a)] =
                        PutLine(e, s, [e.dSet[s] EXCEPT !.line[DWord(a)] = v],
                                1 - s)]
             /\ op' = Store(a, v)
             /\ UNCHANGED <<mem, psr, eid>>
        ELSE cmMemoryWrite(a, v)

(* The non-allocating store of nastore_word_index.                         *)
dCacheNAWrite(a, v) ==
    LET e == D[DIndex(a)]
        s == WayOf(e, DTag(a))
    IN  IF Hits(e, DTag(a))
        THEN /\ D' = [D EXCEPT ![DIndex(a)] = StoredIn(e, s, a, v)]
             /\ op' = Store(a, v)
             /\ UNCHANGED <<mem, psr, eid>>
        ELSE cmMemoryWrite(a, v)

(* Seeded fault: the stores of an instruction that has met an exception    *)
(* are carried out.                                                        *)
javaMemWrite_NotDropped(a, v) ==
    \/ Cached(a)  /\ dCacheWrite(a, v)
    \/ Cached(a)  /\ dCacheNAWrite(a, v)
    \/ ~Cached(a) /\ cmMemoryWrite(a, v)

javaMemWrite(a, v) ==
    \/ eid # NO_EXCEPTION /\ op' = NoOp /\ UNCHANGED dvars
    \/ eid = NO_EXCEPTION /\ Cached(a)  /\ dCacheWrite(a, v)
    \/ eid = NO_EXCEPTION /\ Cached(a)  /\ dCacheNAWrite(a, v)
    \/ eid = NO_EXCEPTION /\ ~Cached(a) /\ cmMemoryWrite(a, v)

CheckExceptions ==
    /\ eid # NO_EXCEPTION
    /\ eid' = NO_EXCEPTION
    /\ op' = NoOp
    /\ UNCHANGED <<mem, D, psr>>

-----------------------------------------------------------------------------
(***************************************************************************)
(* The cache instructions, each the only access of its instruction, so     *)
(* that no exception is pending.  Written back and invalidated: what       *)
(* memory and cache are after the line in way s of set i is pushed out.    *)
(***************************************************************************)
MustWrite(i, s) == D[i].dSet[s].valid /\ D[i].dSet[s].dirty
CanWrite(i, s)  == Exists(makeDAddr(D[i].dSet[s].tag, i))

(* Memory after the line is written back if it is dirty.                   *)
Saved(i, s) == IF MustWrite(i, s) THEN WrittenBack(D[i].dSet[s], i) ELSE mem

Invalidated(i, s) ==
    [D EXCEPT ![i] = PutLine(@, s, [@.dSet[s] EXCEPT !.valid = FALSE], s)]

PushedOut(i, s) ==
    [mem |-> Saved(i, s),
     D   |-> IF MustWrite(i, s) => CanWrite(i, s) THEN Invalidated(i, s)
             ELSE D]

Present(a) == dce /\ DSets > 0 /\ Hits(D[DIndex(a)], DTag(a))

(* The D$ half of cacheFlush; ext_ops.c hands it any address.              *)
Flushed(a) ==
    IF Present(a) THEN PushedOut(DIndex(a), WayOf(D[DIndex(a)], DTag(a)))
    ELSE [mem |-> mem, D |-> D]

cacheFlush(a) ==
    /\ mem' = Flushed(a).mem
    /\ D' = Flushed(a).D
    /\ op' = NoOp
    /\ UNCHANGED psr

(* Seeded fault: the line is invalidated without being written back. *)
cacheIndexFlush_NoWriteBack(a, s) ==
    /\ D' = IF dce /\ DSets > 0 THEN Invalidated(DIndex(a), s) ELSE D
    /\ op' = NoOp
    /\ UNCHANGED <<mem, psr>>

(* Bit 31 of the address selects the way; there is no tag check.           *)
cacheIndexFlush(a, s) ==
    LET r == IF dce /\ DSets > 0 THEN PushedOut(DIndex(a), s)
             ELSE [mem |-> mem, D |-> D]
    IN  mem' = r.mem /\ D' = r.D /\ op' = NoOp /\ UNCHANGED psr

cacheInvalidate(a) ==
    /\ D' = IF Present(a)
            THEN Invalidated(DIndex(a), WayOf(D[DIndex(a)], DTag(a))) ELSE D
    /\ op' = Discard(a)
    /\ UNCHANGED <<mem, psr>>

ZeroedEntry(e, s, a) ==
    PutLine(e, s, [tag |-> DTag(a), valid |-> TRUE, dirty |-> TRUE,
                   line |-> [w \in Words |-> 0]], 1 - s)

(* Seeded fault: the victim is taken although the line is in the cache. *)
dCacheZeroLine_NoLookup(a) ==
    LET i == DIndex(a)
        s == D[i].lru
    IN  /\ mem' = Saved(i, s)
        /\ D' = IF MustWrite(i, s) => CanWrite(i, s)
                THEN [D EXCEPT ![i] = ZeroedEntry(D[i], s, a)] ELSE D
        /\ op' = IF MustWrite(i, s) => CanWrite(i, s) THEN Zero(a) ELSE NoOp

dCacheZeroLine(a) ==
    LET i == DIndex(a)
        s == WayOf(D[i], DTag(a))
        hit == Hits(D[i], DTag(a))
        ok == hit \/ (MustWrite(i, s) => CanWrite(i, s))
    IN  /\ mem' = IF hit THEN mem ELSE Saved(i, s)
        /\ D' = IF ok THEN [D EXCEPT ![i] = ZeroedEntry(D[i], s, a)] ELSE D
        /\ op' = IF ok THEN Zero(a) ELSE NoOp

(* zero_line is emulated by a trap if PSR.DCE is off or the line is not    *)
(* cacheable; without a cache it does nothing at all.                      *)
zero_line(a) ==
    /\ dce /\ a \notin Uncached
    /\ IF DSets > 0 THEN dCacheZeroLine(a)
       ELSE op' = NoOp /\ UNCHANGED <<mem, D>>
    /\ UNCHANGED psr

(* The debugger writes a word: flush, then straight to memory.             *)
sim_write(a, v) ==
    LET r == Flushed(a)
    IN  /\ D' = r.D
        /\ mem' = IF a \in Backed THEN [r.mem EXCEPT ![a] = v] ELSE r.mem
        /\ eid' = IF a \in Backed THEN eid ELSE StoreFailed
        /\ op' = IF a \in Backed THEN Store(a, v) ELSE NoOp
        /\ UNCHANGED psr

(* The program: the reset code clears the tags before it turns the cache   *)
(* on, and a program turns it off only when it has flushed every line.     *)
priv_write_dcache_tag(i, s) ==
    /\ ~dce
    /\ D' = [D EXCEPT ![i] =
                PutLine(@, s, [@.dSet[s] EXCEPT !.tag = 0, !.valid = FALSE,
                                                !.dirty = FALSE], 0)]
    /\ op' = NoOp
    /\ UNCHANGED <<mem, psr>>

priv_write_psr ==
    /\ psr' \in [dce : BOOLEAN, aem : AEM]
    /\ dce /\ ~dce' => \A i \in DIndexes, s \in Ways : ~D[i].dSet[s].valid
    /\ op' = NoOp
    /\ UNCHANGED <<mem, D>>

Access ==
    \E a \in Addr :
        \/ \E dribble \in BOOLEAN : javaMemRead(a, dribble)
        \/ \E v \in Data(a) : javaMemWrite(a, v)

CacheInstruction ==
    /\ eid = NO_EXCEPTION
    /\ \/ \E a \in Addr : zero_line(a) \/ cacheFlush(a) \/ cacheInvalidate(a)
       \/ \E a \in Addr, s \in Ways : cacheIndexFlush(a, s)
       \/ \E i \in DIndexes, s \in Ways : priv_write_dcache_tag(i, s)
       \/ priv_write_psr
    /\ UNCHANGED eid

Debugger ==
    /\ eid = NO_EXCEPTION
    /\ \E a \in Addr : \E v \in Data(a) : sim_write(a, v)

Next == Access \/ CheckExceptions \/ CacheInstruction \/ Debugger

Spec == Init /\ [][Next]_<<dvars, op>>

-----------------------------------------------------------------------------
(* debug_dCacheRead, and what a load would return; Absent: it would fail.  *)
debug_dCacheRead(a) ==
    IF DSets > 0 /\ Hits(D[DIndex(a)], DTag(a))
    THEN LET e == D[DIndex(a)]
         IN  e.dSet[WayOf(e, DTag(a))].line[DWord(a)]
    ELSE IF a \in Backed THEN mem[a] ELSE Absent

ram == [a \in Addr |-> debug_dCacheRead(a)]

TypeOK ==
    /\ mem \in [Backed -> Values]
    /\ D \in [DIndexes -> DEntry]
    /\ psr \in [dce : BOOLEAN, aem : BOOLEAN]
    /\ eid \in Exceptions

(* A line is in at most one way of its set: a second copy would be found   *)
(* or written back instead of the one the program stored into.             *)
OneCopy ==
    \A i \in DIndexes :
        LET e == D[i]
        IN  e.dSet[0].valid /\ e.dSet[1].valid
                => e.dSet[0].tag # e.dSet[1].tag

(* A valid line that is not dirty equals memory, so that dropping it loses *)
(* nothing.                                                                *)
CleanIsMemory ==
    \A i \in DIndexes, s \in Ways :
        LET l == D[i].dSet[s]
            base == makeDAddr(l.tag, i)
        IN  l.valid /\ ~l.dirty =>
                /\ Exists(base)
                /\ \A w \in Words : l.line[w] = mem[base + w]

(* An instruction that has met an exception changes no word any more: a    *)
(* failed store, write-back or refill, and the stores after it,            *)
(* leave what the program sees alone, so that it can be restarted.         *)
FaultChangesNothing == [][eid' # NO_EXCEPTION => ram' = ram]_dvars

(* The cache is a memory that writes back: what the program stored is      *)
(* never lost or mixed up by lookups, evictions, refills and flushes; only *)
(* a cache_invalidate makes a line go back to what memory keeps.           *)
Memory ==
    INSTANCE AbstractMemory
    WITH kept <- [a \in Addr |-> IF a \in Backed THEN mem[a] ELSE Absent]
ImplementsMemory == Memory!Spec
===============================================================================
